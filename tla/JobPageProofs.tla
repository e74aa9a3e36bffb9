--------------------------- MODULE JobPageProofs ---------------------------
(***************************************************************************)
(* Proofs about the output of a job and those who look at it, for any      *)
(* number of bytes and of failed appends; and about the lists of jobs, for *)
(* any number of jobs, of seconds between them and of rows in a short one. *)
(*                                                                         *)
(* What the BIN wrote is on its way through four places: the row, the      *)
(* chunk of the ticker's flush, the chunk of Close, the sink's buffer.     *)
(* The argument is that these, in this order, are always in order, and     *)
(* without a gap as long as no append failed and no crash emptied the      *)
(* last three.  The observers' part rests on the finality of the row.      *)
(*                                                                         *)
(* A list of jobs is in the order of the rows' ranks.  The argument there  *)
(* is that coming before another row is a total order, so that the ranks   *)
(* are all different and every rank up to the length is taken.             *)
(***************************************************************************)
EXTENDS JobPage, Overview, SequenceLemmas

Bytes == 1..MaxBytes

-----------------------------------------------------------------------------
(* Texts.                                                                  *)

Rising(s)    == \A i, k \in DOMAIN s : i < k => s[i] < s[k]
Before(s, t) == \A i \in DOMAIN s, k \in DOMAIN t : s[i] < t[k]
UpTo(s, n)   == \A i \in DOMAIN s : s[i] <= n
After(s, n)  == \A i \in DOMAIN s : s[i] = n + i

LEMMA Joined ==
  ASSUME NEW s \in Seq(Bytes), NEW t \in Seq(Bytes)
  PROVE  /\ s \o t \in Seq(Bytes) /\ Len(s \o t) = Len(s) + Len(t)
         /\ \A i \in DOMAIN (s \o t) :
              \/ i \in DOMAIN s /\ (s \o t)[i] = s[i]
              \/ i > Len(s) /\ i - Len(s) \in DOMAIN t /\ (s \o t)[i] = t[i - Len(s)]
<1>1. /\ s \o t \in Seq(Bytes) /\ Len(s \o t) = Len(s) + Len(t)
      /\ \A i \in 1..Len(s) + Len(t) :
           (s \o t)[i] = IF i <= Len(s) THEN s[i] ELSE t[i - Len(s)]
  BY ConcatProperties
<1>2. /\ DOMAIN s = 1..Len(s) /\ DOMAIN t = 1..Len(t) /\ DOMAIN (s \o t) = 1..Len(s) + Len(t)
      /\ Len(s) \in Nat /\ Len(t) \in Nat
  BY <1>1, LenProperties
<1>. QED
  BY <1>1, <1>2

LEMMA JoinedOrder ==
  ASSUME NEW s \in Seq(Bytes), NEW t \in Seq(Bytes)
  PROVE  /\ Rising(s) /\ Rising(t) /\ Before(s, t) => Rising(s \o t)
         /\ \A u : Before(s, u) /\ Before(t, u) => Before(s \o t, u)
         /\ \A u : Before(u, s) /\ Before(u, t) => Before(u, s \o t)
         /\ \A n : UpTo(s, n) /\ UpTo(t, n) => UpTo(s \o t, n)
         /\ \A n \in Nat : After(s, n) /\ After(t, n + Len(s)) => After(s \o t, n)
<1>1. /\ DOMAIN s = 1..Len(s) /\ DOMAIN t = 1..Len(t) /\ DOMAIN (s \o t) = 1..Len(s) + Len(t)
      /\ Len(s) \in Nat /\ Len(t) \in Nat
      /\ \A i \in DOMAIN s : s[i] \in Nat
      /\ \A i \in DOMAIN t : t[i] \in Nat
  <2>1. s \o t \in Seq(Bytes) /\ Len(s \o t) = Len(s) + Len(t)
    BY Joined
  <2>2. /\ DOMAIN s = 1..Len(s) /\ DOMAIN t = 1..Len(t)
        /\ DOMAIN (s \o t) = 1..Len(s \o t)
        /\ Len(s) \in Nat /\ Len(t) \in Nat
    BY <2>1, LenProperties
  <2>3. (\A i \in 1..Len(s) : s[i] \in Bytes) /\ \A i \in 1..Len(t) : t[i] \in Bytes
    BY ElementOfSeq
  <2>. QED
    BY <2>1, <2>2, <2>3 DEF Bytes
<1>2. ASSUME Rising(s), Rising(t), Before(s, t) PROVE Rising(s \o t)
  BY <1>1, <1>2, Joined DEF Rising, Before
<1>3. ASSUME NEW u, Before(s, u), Before(t, u) PROVE Before(s \o t, u)
  BY <1>3, Joined DEF Before
<1>6. ASSUME NEW u, Before(u, s), Before(u, t) PROVE Before(u, s \o t)
  BY <1>6, Joined DEF Before
<1>4. ASSUME NEW n, UpTo(s, n), UpTo(t, n) PROVE UpTo(s \o t, n)
  BY <1>4, Joined DEF UpTo
<1>5. ASSUME NEW n \in Nat, After(s, n), After(t, n + Len(s)) PROVE After(s \o t, n)
  BY <1>1, <1>5, Joined DEF After
<1>. QED
  BY <1>2, <1>3, <1>4, <1>5, <1>6

LEMMA EmptyText ==
  /\ <<>> \in Seq(Bytes) /\ Len(<<>>) = 0 /\ Rising(<<>>)
  /\ \A t : Before(<<>>, t) /\ Before(t, <<>>)
  /\ \A n : UpTo(<<>>, n) /\ After(<<>>, n)
BY EmptySeq DEF Rising, Before, UpTo, After

(* A text without a gap is the beginning of the output.                    *)
LEMMA BinTexts ==
  ASSUME NEW n \in 0..MaxBytes
  PROVE  /\ BinText(n) \in Seq(Bytes) /\ Len(BinText(n)) = n
         /\ After(BinText(n), 0)
         /\ \A s \in Seq(Bytes) : After(s, 0) /\ Len(s) = n => s = BinText(n)
<1>. USE JobOutputAssumption DEF JobOutputAssumption
<1>1. BinText(n) \in [1..n -> Bytes]
  BY DEF BinText, Bytes
<1>2. BinText(n) \in Seq(Bytes)
  BY <1>1, SeqDef
<1>3. DOMAIN BinText(n) = 1..n /\ DOMAIN BinText(n) = 1..Len(BinText(n))
  BY <1>2, LenProperties DEF BinText
<1>4. Len(BinText(n)) \in Nat
  BY <1>2, LenProperties
<1>5. Len(BinText(n)) = n
  BY ONLY <1>3, <1>4, n \in 0..MaxBytes, MaxBytes \in Nat
<1>6. After(BinText(n), 0)
  BY <1>3 DEF After, BinText
<1>7. ASSUME NEW s \in Seq(Bytes), After(s, 0), Len(s) = n PROVE s = BinText(n)
  <2>1. DOMAIN s = 1..n
    BY <1>7, LenProperties
  <2>2. \A i \in 1..Len(s) : s[i] = BinText(n)[i]
    BY <1>7, <2>1 DEF After, BinText
  <2>. QED
    BY <1>2, <1>5, <1>7, <2>2, SeqEqual
<1>. QED
  BY <1>2, <1>5, <1>6, <1>7

(* IsPrefix, position by position.                                         *)
LEMMA PrefixByPosition ==
  ASSUME NEW s \in Seq(Bytes), NEW t \in Seq(Bytes), Len(s) <= Len(t)
  PROVE  /\ IsPrefix(s, t) => \A i \in 1..Len(s) : s[i] = t[i]
         /\ (\A i \in 1..Len(s) : s[i] = t[i]) => IsPrefix(s, t)
<1>1. /\ Len(s) \in Nat /\ Len(t) \in Nat
      /\ \A i \in 1..Len(s) : s[i] \in Bytes /\ t[i] \in Bytes
  BY LenProperties, ElementOfSeq
<1>2. SubSeq(s, 1, Len(s)) = s
  BY SubSeqFull
<1>3. /\ SubSeq(t, 1, Len(s)) \in Seq(Bytes)
      /\ Len(SubSeq(t, 1, Len(s))) = Len(s)
      /\ \A i \in 1..Len(s) : SubSeq(t, 1, Len(s))[i] = t[i]
  <2>1. /\ SubSeq(t, 1, Len(s)) \in Seq(Bytes)
        /\ Len(SubSeq(t, 1, Len(s))) = IF 1 <= Len(s) THEN Len(s) - 1 + 1 ELSE 0
        /\ \A i \in 1..Len(s) - 1 + 1 : SubSeq(t, 1, Len(s))[i] = t[1 + i - 1]
    BY <1>1, SubSeqProperties
  <2>. QED
    BY <1>1, <2>1
<1>4. IsPrefix(s, t) <=> (s = SubSeq(t, 1, Len(s)))
  BY <1>2 DEF IsPrefix
<1>5. s = SubSeq(t, 1, Len(s)) => \A i \in 1..Len(s) : s[i] = t[i]
  BY <1>3
<1>6. ASSUME \A i \in 1..Len(s) : s[i] = t[i] PROVE s = SubSeq(t, 1, Len(s))
  BY <1>3, <1>6, SeqEqual
<1>. QED
  BY <1>4, <1>5, <1>6

-----------------------------------------------------------------------------
(* The way of the output.                                                  *)

JobPageSpec == JobPageInit /\ [][JobPageNext]_jobPageVars

(* A step of the job, whoever looks on.                                    *)
JobStep == \/ BinWrite \/ ExecReturn \/ Tick \/ FlushTick \/ StopFlusher
           \/ CloseFlush \/ CloseTail \/ FinishJob
           \/ DeleteRow \/ MarkOrphaned \/ DaemonCrash

OutputStep == JobStep \/ UNCHANGED outputVars

LEMMA PageSteps == [JobPageNext]_jobPageVars => OutputStep
BY DEF JobPageNext, jobPageVars, watchedVars, WatchNext, WatchedJobStep, StartWatch, WatchTick,
       Disconnect, FetchJob, AskCancel, CancelAnswered, Flusher, Closer, JobStep, OutputStep

RunChunk   == sinkChunk["run"]
CloseChunk == sinkChunk["close"]

OutputTypes ==
  /\ binWritten \in 0..MaxBytes /\ appendFailures \in 0..MaxFailures
  /\ jobStdout \in Seq(Bytes) /\ sinkBuf \in Seq(Bytes)
  /\ RunChunk \in Seq(Bytes) /\ CloseChunk \in Seq(Bytes)
  /\ DOMAIN sinkChunk = {"run", "close"}
  /\ sinkRun \in {"wait", "append", "gone"}
  /\ runAt \in {"exec", "closing", "tail", "finish", "over"}
  /\ jobStatus \in TerminalStatus \cup {"running", "deleted"}

(* Where a chunk can be while runOne is where it is.                       *)
Control ==
  /\ sinkRun # "append" => RunChunk = <<>>
  /\ runAt # "tail" => CloseChunk = <<>>
  /\ runAt \in {"tail", "finish", "over"} => sinkBuf = <<>> /\ sinkRun = "gone"
  /\ jobStatus \in TerminalStatus => runAt = "over"

(* What the executor captured.                                             *)
Captured ==
  /\ execResult.text \in Seq(Bytes)
  /\ After(execResult.text, 0) /\ Len(execResult.text) <= binWritten

(* The four places are in order.                                           *)
InTurn ==
  /\ Rising(jobStdout) /\ Rising(RunChunk) /\ Rising(CloseChunk) /\ Rising(sinkBuf)
  /\ Before(jobStdout, RunChunk) /\ Before(jobStdout, CloseChunk) /\ Before(jobStdout, sinkBuf)
  /\ Before(RunChunk, sinkBuf)
  /\ UpTo(jobStdout, binWritten) /\ UpTo(RunChunk, binWritten)
  /\ UpTo(CloseChunk, binWritten) /\ UpTo(sinkBuf, binWritten)

(* As long as no append failed, the row has no gap; while the job runs,    *)
(* what it lacks is in the other three; and once the job has ended it      *)
(* lacks nothing.                                                          *)
OnTheWay ==
  /\ After(RunChunk, Len(jobStdout))
  /\ After(CloseChunk, Len(jobStdout) + Len(RunChunk))
  /\ After(sinkBuf, Len(jobStdout) + Len(RunChunk) + Len(CloseChunk))
  /\ Len(jobStdout) + Len(RunChunk) + Len(CloseChunk) + Len(sinkBuf) = binWritten

NoGap ==
  appendFailures = 0 =>
    /\ After(jobStdout, 0)
    /\ jobStatus = "running" /\ runAt # "over" => OnTheWay
    /\ jobStatus \in {"done", "error", "cancelled"} => Len(jobStdout) = binWritten

OutputInv == OutputTypes /\ Control /\ Captured /\ InTurn /\ NoGap

LEMMA Lengths ==
  ASSUME OutputTypes
  PROVE  /\ Len(jobStdout) \in Nat /\ Len(RunChunk) \in Nat /\ Len(CloseChunk) \in Nat
         /\ Len(sinkBuf) \in Nat /\ binWritten \in Nat /\ appendFailures \in Nat
BY LenProperties, JobOutputAssumption DEF OutputTypes, JobOutputAssumption

LEMMA OutputInvInit == JobPageInit => OutputInv
<1> SUFFICES ASSUME JobPageInit PROVE OutputInv
  OBVIOUS
<1>. USE EmptyText, JobOutputAssumption DEF JobOutputAssumption
<1>1. /\ binWritten = 0 /\ appendFailures = 0 /\ runAt = "exec" /\ sinkRun = "wait"
      /\ jobStdout = <<>> /\ sinkBuf = <<>> /\ RunChunk = <<>> /\ CloseChunk = <<>>
      /\ execResult.text = <<>> /\ jobStatus = "running"
      /\ DOMAIN sinkChunk = {"run", "close"}
  BY DEF JobPageInit, WatchInit, OutputInit, RunChunk, CloseChunk
<1>2. OutputTypes /\ Control /\ Captured
  BY <1>1 DEF OutputTypes, Control, Captured, TerminalStatus
<1>3. InTurn
  BY <1>1 DEF InTurn
<1>4. NoGap
  BY <1>1 DEF NoGap, OnTheWay
<1>. QED
  BY <1>2, <1>3, <1>4 DEF OutputInv

(* Write.                                                                  *)
LEMMA BinWriteStep == OutputInv /\ BinWrite => OutputInv'
<1> SUFFICES ASSUME OutputInv, BinWrite PROVE OutputInv'
  OBVIOUS
<1>. USE JobOutputAssumption DEF JobOutputAssumption, OutputInv
<1> DEFINE next == <<binWritten + 1>>
<1>1. /\ runAt = "exec" /\ binWritten < MaxBytes /\ binWritten' = binWritten + 1
      /\ sinkBuf' = Append(sinkBuf, binWritten + 1)
      /\ UNCHANGED <<RunChunk, CloseChunk, sinkChunk, sinkRun, runAt, execResult, jobStatus,
                     jobStdout, appendFailures>>
  BY DEF BinWrite, RunChunk, CloseChunk
<1>2. next \in Seq(Bytes) /\ Len(next) = 1 /\ next[1] = binWritten + 1 /\ DOMAIN next = {1}
  BY <1>1 DEF OutputTypes, Bytes
<1>3. sinkBuf' = sinkBuf \o next
  <2>1. binWritten + 1 \in Bytes /\ sinkBuf \in Seq(Bytes)
    BY <1>1, Lengths DEF OutputTypes, Bytes
  <2>. QED
    BY <1>1, <2>1, AppendIsConcat
<1>4. /\ Rising(next) /\ UpTo(next, binWritten + 1)
      /\ \A s \in Seq(Bytes) : UpTo(s, binWritten) => Before(s, next) /\ UpTo(s, binWritten + 1)
      /\ \A n : n = binWritten => After(next, n)
  <2>1. Rising(next) /\ UpTo(next, binWritten + 1) /\ \A n : n = binWritten => After(next, n)
    BY <1>2, Lengths DEF Rising, UpTo, After
  <2>2. ASSUME NEW s \in Seq(Bytes), UpTo(s, binWritten)
        PROVE  Before(s, next) /\ UpTo(s, binWritten + 1)
    <3>1. \A i \in DOMAIN s : s[i] \in Nat /\ s[i] <= binWritten
      BY <2>2, LenProperties, ElementOfSeq DEF UpTo, Bytes
    <3>. QED
      BY <1>2, <3>1, Lengths DEF Before, UpTo
  <2>. QED
    BY <2>1, <2>2
<1>. HIDE DEF next
<1>5. OutputTypes'
  BY <1>1, <1>2, <1>3, Joined DEF OutputTypes
<1>6. Control' /\ Captured'
  BY <1>1, Lengths, LenProperties DEF Control, Captured, OutputTypes, TerminalStatus
<1>7. InTurn'
  <2>. USE <1>1, <1>2, <1>3, <1>4 DEF OutputTypes
  <2>1. Rising(sinkBuf') /\ UpTo(sinkBuf', binWritten')
    BY JoinedOrder DEF InTurn
  <2>2. ASSUME NEW u \in Seq(Bytes), UpTo(u, binWritten), Before(u, sinkBuf)
        PROVE  Before(u, sinkBuf')
    <3>1. Before(u, next)
      BY <1>4, <2>2
    <3>2. sinkBuf \in Seq(Bytes) /\ next \in Seq(Bytes)
      BY <1>2
    <3>. QED
      BY ONLY <1>3, <2>2, <3>1, <3>2, JoinedOrder
  <2>3. Before(jobStdout, sinkBuf') /\ Before(RunChunk, sinkBuf')
    BY <2>2 DEF InTurn
  <2>4. /\ UpTo(jobStdout, binWritten') /\ UpTo(RunChunk, binWritten')
        /\ UpTo(CloseChunk, binWritten')
    BY DEF InTurn
  <2>. QED
    BY <2>1, <2>2, <2>3, <2>4 DEF InTurn
<1>8. NoGap'
  <2>1. OnTheWay => OnTheWay'
    <3>. DEFINE n == Len(jobStdout) + Len(RunChunk) + Len(CloseChunk)
    <3>1. n \in Nat /\ n' = n
      BY <1>1, Lengths
    <3>2. Len(sinkBuf') = Len(sinkBuf) + 1
      BY <1>2, <1>3, Joined DEF OutputTypes
    <3>3. ASSUME OnTheWay PROVE After(sinkBuf', n)
      <4>1. After(sinkBuf, n) /\ n + Len(sinkBuf) = binWritten
        BY <3>3 DEF OnTheWay
      <4>2. After(next, n + Len(sinkBuf))
        BY <1>4, <4>1
      <4>. HIDE DEF n
      <4>. QED
        BY <1>2, <1>3, <3>1, <4>1, <4>2, JoinedOrder DEF OutputTypes
    <3>. QED
      BY <1>1, <3>1, <3>2, <3>3, Lengths DEF OnTheWay
  <2>. QED
    BY <1>1, <2>1 DEF NoGap, Control, TerminalStatus
<1>. QED
  BY <1>5, <1>6, <1>7, <1>8

(* Exec returns: only what was captured is new.                            *)
LEMMA ExecReturnStep == OutputInv /\ ExecReturn => OutputInv'
<1> SUFFICES ASSUME OutputInv, ExecReturn PROVE OutputInv'
  OBVIOUS
<1>. USE DEF OutputInv
<1>1. /\ runAt = "exec" /\ runAt' = "closing"
      /\ UNCHANGED <<binWritten, sinkBuf, sinkChunk, RunChunk, CloseChunk, sinkRun, jobStatus,
                     jobStdout, appendFailures>>
  BY DEF ExecReturn, sinkVars, RunChunk, CloseChunk
<1>2. PICK n \in 0..binWritten : execResult'.text = BinText(n)
  BY DEF ExecReturn
<1>3. n \in 0..MaxBytes /\ n <= binWritten
  BY JobOutputAssumption DEF OutputTypes, JobOutputAssumption
<1>4. OutputTypes'
  BY <1>1 DEF OutputTypes
<1>5. Control'
  BY <1>1 DEF Control, TerminalStatus
<1>6. Captured'
  BY <1>1, <1>2, <1>3, BinTexts DEF Captured
<1>7. InTurn'
  BY <1>1 DEF InTurn
<1>8. OnTheWay' <=> OnTheWay
  BY <1>1 DEF OnTheWay
<1>9. NoGap'
  BY <1>1, <1>8 DEF NoGap
<1>. QED
  BY <1>4, <1>5, <1>6, <1>7, <1>9

(* The goroutine takes the buffer.                                         *)
LEMMA TickStep == OutputInv /\ Tick => OutputInv'
<1> SUFFICES ASSUME OutputInv, Tick PROVE OutputInv'
  OBVIOUS
<1>. USE DEF OutputInv
<1>1. /\ sinkRun = "wait" /\ sinkRun' = "append" /\ sinkBuf' = <<>>
      /\ RunChunk = <<>> /\ RunChunk' = sinkBuf
      /\ CloseChunk = <<>> /\ CloseChunk' = <<>> /\ DOMAIN sinkChunk' = DOMAIN sinkChunk
      /\ UNCHANGED <<binWritten, runAt, execResult, jobStatus, jobStdout, appendFailures>>
  BY DEF Tick, Swap, RunChunk, CloseChunk, OutputTypes, Control
<1>2. OutputTypes'
  BY <1>1, EmptyText DEF OutputTypes
<1>3. Control' /\ Captured'
  BY <1>1 DEF Control, Captured
<1>4. InTurn'
  BY <1>1, EmptyText DEF InTurn
<1>5. OnTheWay => OnTheWay'
  <2>1. Len(RunChunk) = 0 /\ Len(CloseChunk) = 0 /\ Len(sinkBuf') = 0 /\ Len(CloseChunk') = 0
    BY <1>1, EmptyText
  <2>2. OnTheWay => After(RunChunk', Len(jobStdout)) /\ Len(jobStdout) + Len(sinkBuf) = binWritten
    BY <1>1, <2>1, Lengths DEF OnTheWay
  <2>. QED
    BY <1>1, <2>1, <2>2, EmptyText, Lengths DEF OnTheWay
<1>6. NoGap'
  BY <1>1, <1>5 DEF NoGap
<1>. QED
  BY <1>2, <1>3, <1>4, <1>6

(* Close takes the tail; the goroutine is gone.                            *)
LEMMA CloseFlushStep == OutputInv /\ CloseFlush => OutputInv'
<1> SUFFICES ASSUME OutputInv, CloseFlush PROVE OutputInv'
  OBVIOUS
<1>. USE DEF OutputInv
<1>1. /\ sinkRun = "gone" /\ runAt = "closing" /\ sinkBuf' = <<>>
      /\ runAt' = IF sinkBuf = <<>> THEN "finish" ELSE "tail"
      /\ RunChunk = <<>> /\ RunChunk' = <<>>
      /\ CloseChunk = <<>> /\ CloseChunk' = sinkBuf /\ DOMAIN sinkChunk' = DOMAIN sinkChunk
      /\ UNCHANGED <<binWritten, sinkRun, execResult, jobStatus, jobStdout, appendFailures>>
  BY DEF CloseFlush, Swap, RunChunk, CloseChunk, OutputTypes, Control
<1>2. OutputTypes'
  BY <1>1, EmptyText DEF OutputTypes
<1>3. Control' /\ Captured'
  BY <1>1 DEF Control, Captured, TerminalStatus
<1>4. InTurn'
  BY <1>1, EmptyText DEF InTurn
<1>5. OnTheWay => OnTheWay'
  <2>1. Len(RunChunk) = 0 /\ Len(CloseChunk) = 0 /\ Len(sinkBuf') = 0 /\ Len(RunChunk') = 0
    BY <1>1, EmptyText
  <2>2. OnTheWay => After(CloseChunk', Len(jobStdout)) /\ Len(jobStdout) + Len(sinkBuf) = binWritten
    BY <1>1, <2>1, Lengths DEF OnTheWay
  <2>. QED
    BY <1>1, <2>1, <2>2, EmptyText, Lengths DEF OnTheWay
<1>6. NoGap'
  BY <1>1, <1>5 DEF NoGap
<1>. QED
  BY <1>2, <1>3, <1>4, <1>6

(* A chunk is appended to a running row, or ignored by any other.          *)
LEMMA FlushTickStep == OutputInv /\ FlushTick => OutputInv'
<1> SUFFICES ASSUME OutputInv, FlushTick PROVE OutputInv'
  OBVIOUS
<1>. USE DEF OutputInv
<1>1. /\ sinkRun = "append" /\ sinkRun' = "wait" /\ RunChunk' = <<>>
      /\ CloseChunk = <<>> /\ CloseChunk' = <<>> /\ DOMAIN sinkChunk' = DOMAIN sinkChunk
      /\ UNCHANGED <<binWritten, sinkBuf, runAt, execResult, jobStatus>>
      /\ runAt \notin {"tail", "finish", "over"}
  BY DEF FlushTick, AppendToRow, AppendFails, RunChunk, CloseChunk, OutputTypes, Control
<1>2. \/ appendFailures' = appendFailures /\ jobStdout' = jobStdout \o RunChunk /\ jobStatus = "running"
      \/ appendFailures' = appendFailures /\ jobStdout' = jobStdout /\ jobStatus = "deleted"
      \/ appendFailures' = appendFailures + 1 /\ appendFailures < MaxFailures /\ jobStdout' = jobStdout
  BY <1>1 DEF FlushTick, AppendToRow, AppendFails, RunChunk, OutputTypes, Control
<1>3. OutputTypes'
  <2>1. jobStdout' \in Seq(Bytes)
    BY <1>2, Joined DEF OutputTypes
  <2>2. appendFailures' \in 0..MaxFailures
    BY <1>2, JobOutputAssumption DEF OutputTypes, JobOutputAssumption
  <2>. QED
    BY <1>1, <2>1, <2>2, EmptyText DEF OutputTypes
<1>4. Control' /\ Captured'
  BY <1>1 DEF Control, Captured, TerminalStatus
<1>5. InTurn'
  <2>1. ASSUME jobStdout' = jobStdout PROVE InTurn'
    BY <1>1, <2>1, EmptyText DEF InTurn
  <2>2. ASSUME jobStdout' = jobStdout \o RunChunk PROVE InTurn'
    BY <1>1, <2>2, EmptyText, JoinedOrder DEF InTurn, OutputTypes
  <2>. QED
    BY <1>2, <2>1, <2>2
<1>6. NoGap'
  <2>1. ASSUME appendFailures' = appendFailures + 1 PROVE NoGap'
    BY <2>1, Lengths DEF NoGap
  <2>2. ASSUME jobStdout' = jobStdout, jobStatus = "deleted", appendFailures' = appendFailures
        PROVE  NoGap'
    BY <1>1, <2>2 DEF NoGap
  <2>3. ASSUME jobStdout' = jobStdout \o RunChunk, jobStatus = "running", appendFailures' = appendFailures
        PROVE  NoGap'
    <3>1. Len(jobStdout') = Len(jobStdout) + Len(RunChunk)
      BY <2>3, Joined DEF OutputTypes
    <3>2. Len(RunChunk') = 0 /\ Len(CloseChunk) = 0 /\ Len(CloseChunk') = 0
      BY <1>1, EmptyText
    <3>3. OnTheWay => OnTheWay'
      BY <1>1, <3>1, <3>2, EmptyText, Lengths DEF OnTheWay
    <3>4. ASSUME appendFailures = 0 PROVE After(jobStdout', 0)
      <4>1. After(jobStdout, 0) /\ OnTheWay
        BY <1>1, <2>3, <3>4 DEF NoGap
      <4>2. After(RunChunk, 0 + Len(jobStdout))
        BY <4>1, Lengths DEF OnTheWay
      <4>. QED
        BY <2>3, <4>1, <4>2, JoinedOrder DEF OutputTypes
    <3>. QED
      BY <1>1, <2>3, <3>3, <3>4 DEF NoGap
  <2>. QED
    BY <1>2, <2>1, <2>2, <2>3
<1>. QED
  BY <1>3, <1>4, <1>5, <1>6

LEMMA CloseTailStep == OutputInv /\ CloseTail => OutputInv'
<1> SUFFICES ASSUME OutputInv, CloseTail PROVE OutputInv'
  OBVIOUS
<1>. USE DEF OutputInv
<1>1. /\ runAt = "tail" /\ runAt' = "finish" /\ CloseChunk' = <<>>
      /\ RunChunk = <<>> /\ RunChunk' = <<>> /\ DOMAIN sinkChunk' = DOMAIN sinkChunk
      /\ UNCHANGED <<binWritten, sinkBuf, sinkRun, execResult, jobStatus>>
      /\ sinkBuf = <<>> /\ sinkRun = "gone"
  BY DEF CloseTail, AppendToRow, AppendFails, RunChunk, CloseChunk, OutputTypes, Control
<1>2. \/ appendFailures' = appendFailures /\ jobStdout' = jobStdout \o CloseChunk /\ jobStatus = "running"
      \/ appendFailures' = appendFailures /\ jobStdout' = jobStdout /\ jobStatus = "deleted"
      \/ appendFailures' = appendFailures + 1 /\ appendFailures < MaxFailures /\ jobStdout' = jobStdout
  BY <1>1 DEF CloseTail, AppendToRow, AppendFails, CloseChunk, OutputTypes, Control
<1>3. OutputTypes'
  <2>1. jobStdout' \in Seq(Bytes)
    BY <1>2, Joined DEF OutputTypes
  <2>2. appendFailures' \in 0..MaxFailures
    BY <1>2, JobOutputAssumption DEF OutputTypes, JobOutputAssumption
  <2>. QED
    BY <1>1, <2>1, <2>2, EmptyText DEF OutputTypes
<1>4. Control' /\ Captured'
  BY <1>1 DEF Control, Captured, TerminalStatus
<1>5. InTurn'
  <2>1. ASSUME jobStdout' = jobStdout PROVE InTurn'
    BY <1>1, <2>1, EmptyText DEF InTurn
  <2>2. ASSUME jobStdout' = jobStdout \o CloseChunk PROVE InTurn'
    BY <1>1, <2>2, EmptyText, JoinedOrder DEF InTurn, OutputTypes
  <2>. QED
    BY <1>2, <2>1, <2>2
<1>6. NoGap'
  <2>1. ASSUME appendFailures' = appendFailures + 1 PROVE NoGap'
    BY <2>1, Lengths DEF NoGap
  <2>2. ASSUME jobStdout' = jobStdout, jobStatus = "deleted", appendFailures' = appendFailures
        PROVE  NoGap'
    BY <1>1, <2>2 DEF NoGap
  <2>3. ASSUME jobStdout' = jobStdout \o CloseChunk, jobStatus = "running",
               appendFailures' = appendFailures
        PROVE  NoGap'
    <3>1. Len(jobStdout') = Len(jobStdout) + Len(CloseChunk)
      BY <2>3, Joined DEF OutputTypes
    <3>2. Len(RunChunk) = 0 /\ Len(RunChunk') = 0 /\ Len(CloseChunk') = 0 /\ Len(sinkBuf) = 0
      BY <1>1, EmptyText
    <3>3. OnTheWay => OnTheWay'
      BY <1>1, <3>1, <3>2, EmptyText, Lengths DEF OnTheWay
    <3>4. ASSUME appendFailures = 0 PROVE After(jobStdout', 0)
      <4>1. After(jobStdout, 0) /\ OnTheWay
        BY <1>1, <2>3, <3>4 DEF NoGap
      <4>2. After(CloseChunk, 0 + Len(jobStdout))
        BY <3>2, <4>1, Lengths DEF OnTheWay
      <4>. QED
        BY <2>3, <4>1, <4>2, JoinedOrder DEF OutputTypes
    <3>. QED
      BY <1>1, <2>3, <3>3, <3>4 DEF NoGap
  <2>. QED
    BY <1>2, <2>1, <2>2, <2>3
<1>. QED
  BY <1>3, <1>4, <1>5, <1>6

(* The steps that change the control only: stop, and the orphans of boot.  *)
LEMMA QuietSteps == OutputInv /\ (StopFlusher \/ MarkOrphaned \/ UNCHANGED outputVars) => OutputInv'
<1> SUFFICES ASSUME OutputInv, StopFlusher \/ MarkOrphaned \/ UNCHANGED outputVars PROVE OutputInv'
  OBVIOUS
<1>. USE DEF OutputInv
<1>1. UNCHANGED <<binWritten, sinkBuf, sinkChunk, RunChunk, CloseChunk, runAt, execResult, jobStdout,
                  appendFailures>>
  BY DEF StopFlusher, MarkOrphaned, outputVars, sinkVars, RunChunk, CloseChunk
<1>2. \/ sinkRun = "wait" /\ sinkRun' = "gone" /\ jobStatus' = jobStatus /\ runAt = "closing"
      \/ sinkRun' = sinkRun /\ jobStatus = "running" /\ jobStatus' = "orphaned" /\ runAt = "over"
      \/ sinkRun' = sinkRun /\ jobStatus' = jobStatus
  BY DEF StopFlusher, MarkOrphaned, outputVars, sinkVars
<1>3. OutputTypes'
  BY <1>1, <1>2 DEF OutputTypes, TerminalStatus
<1>4. Control'
  BY <1>1, <1>2 DEF Control, TerminalStatus
<1>5. Captured' /\ InTurn' /\ (OnTheWay' <=> OnTheWay)
  BY <1>1 DEF Captured, InTurn, OnTheWay
<1>6. NoGap'
  BY <1>1, <1>2, <1>5 DEF NoGap
<1>. QED
  BY <1>3, <1>4, <1>5, <1>6

(* The row goes, or everything but the row.                                *)
LEMMA DeleteRowStep == OutputInv /\ DeleteRow => OutputInv'
<1> SUFFICES ASSUME OutputInv, DeleteRow PROVE OutputInv'
  OBVIOUS
<1>. USE DEF OutputInv
<1>1. /\ jobStatus' = "deleted" /\ jobStdout' = <<>>
      /\ UNCHANGED <<binWritten, sinkBuf, sinkChunk, RunChunk, CloseChunk, sinkRun, runAt, execResult,
                     appendFailures>>
  BY DEF DeleteRow, sinkVars, RunChunk, CloseChunk
<1>2. OutputTypes'
  BY <1>1, EmptyText DEF OutputTypes
<1>3. Control' /\ Captured'
  BY <1>1 DEF Control, Captured, TerminalStatus
<1>4. InTurn'
  BY <1>1, EmptyText DEF InTurn
<1>5. NoGap'
  BY <1>1, EmptyText DEF NoGap
<1>. QED
  BY <1>2, <1>3, <1>4, <1>5

LEMMA DaemonCrashStep == OutputInv /\ DaemonCrash => OutputInv'
<1> SUFFICES ASSUME OutputInv, DaemonCrash PROVE OutputInv'
  OBVIOUS
<1>. USE DEF OutputInv
<1>1. /\ runAt # "over" /\ runAt' = "over" /\ sinkRun' = "gone" /\ sinkBuf' = <<>>
      /\ RunChunk' = <<>> /\ CloseChunk' = <<>> /\ DOMAIN sinkChunk' = {"run", "close"}
      /\ UNCHANGED <<binWritten, execResult, jobStatus, jobStdout, appendFailures>>
  BY DEF DaemonCrash, RunChunk, CloseChunk
<1>2. OutputTypes'
  BY <1>1, EmptyText DEF OutputTypes
<1>3. Control' /\ Captured'
  BY <1>1 DEF Control, Captured
<1>4. InTurn'
  BY <1>1, EmptyText DEF InTurn
<1>5. NoGap'
  BY <1>1 DEF NoGap, Control, TerminalStatus
<1>. QED
  BY <1>2, <1>3, <1>4, <1>5

(* The row becomes terminal, with the longer of its two texts.             *)
LEMMA FinishJobStep == OutputInv /\ FinishJob => OutputInv'
<1> SUFFICES ASSUME OutputInv, FinishJob PROVE OutputInv'
  OBVIOUS
<1>. USE DEF OutputInv
<1>1. /\ runAt = "finish" /\ runAt' = "over"
      /\ sinkBuf = <<>> /\ RunChunk = <<>> /\ CloseChunk = <<>> /\ sinkRun = "gone"
      /\ UNCHANGED <<binWritten, sinkBuf, sinkChunk, RunChunk, CloseChunk, sinkRun, execResult,
                     appendFailures>>
  BY DEF FinishJob, sinkVars, RunChunk, CloseChunk, Control
<1>2. \/ jobStatus = "deleted" /\ jobStatus' = jobStatus /\ jobStdout' = jobStdout
      \/ /\ jobStatus = "running" /\ jobStatus' \in {"done", "error", "cancelled"}
         /\ \/ jobStdout' = jobStdout
            \/ jobStdout' = execResult.text /\ Len(execResult.text) >= Len(jobStdout)
  <2>1. jobStatus \in {"running", "deleted"}
    BY <1>1 DEF OutputTypes, Control
  <2>2. CASE jobStatus = "deleted"
    BY <2>2 DEF FinishJob
  <2>3. CASE jobStatus = "running"
    BY <2>3 DEF FinishJob, FinalText
  <2>. QED
    BY <2>1, <2>2, <2>3
<1>3. OutputTypes'
  BY <1>1, <1>2 DEF OutputTypes, Captured, TerminalStatus
<1>4. Control' /\ Captured'
  BY <1>1 DEF Control, Captured
<1>5. \A i \in DOMAIN execResult.text : execResult.text[i] = i /\ i \in Nat /\ i <= binWritten
  BY LenProperties, Lengths DEF Captured, After
<1>6. Rising(execResult.text) /\ UpTo(execResult.text, binWritten)
  BY <1>5 DEF Rising, UpTo
<1>7. InTurn'
  BY <1>1, <1>2, <1>6, EmptyText DEF InTurn
<1>8. NoGap'
  <2> SUFFICES ASSUME appendFailures = 0
               PROVE  /\ After(jobStdout', 0)
                      /\ jobStatus' \in {"done", "error", "cancelled"} => Len(jobStdout') = binWritten
    BY <1>1 DEF NoGap
  <2>1. After(jobStdout', 0)
    BY <1>2 DEF NoGap, Captured
  <2>2. ASSUME jobStatus = "running" PROVE Len(jobStdout) = binWritten
    <3>1. OnTheWay
      BY <1>1, <2>2 DEF NoGap
    <3>. QED
      BY <1>1, <3>1, EmptyText, Lengths DEF OnTheWay
  <2>3. Len(execResult.text) \in Nat /\ Len(execResult.text) <= binWritten
    BY LenProperties DEF Captured
  <2>. QED
    BY <1>2, <2>1, <2>2, <2>3, Lengths
<1>. QED
  BY <1>3, <1>4, <1>7, <1>8

LEMMA OutputInvStep == OutputInv /\ [JobPageNext]_jobPageVars => OutputInv'
BY PageSteps, BinWriteStep, ExecReturnStep, TickStep, FlushTickStep, CloseFlushStep, CloseTailStep,
   FinishJobStep, DeleteRowStep, DaemonCrashStep, QuietSteps DEF OutputStep, JobStep

LEMMA OutputInvHolds == JobPageSpec => []OutputInv
BY OutputInvInit, OutputInvStep, PTL DEF JobPageSpec

(* The column is a faithful copy of what the BIN wrote.                    *)
LEMMA IntactColumn == OutputInv => OutputIntact
<1> SUFFICES ASSUME OutputInv PROVE InOrder /\ NothingLost
  BY DEF OutputIntact
<1>. USE DEF OutputInv
<1>1. /\ Len(jobStdout) \in Nat /\ DOMAIN jobStdout = 1..Len(jobStdout)
      /\ \A i \in DOMAIN jobStdout : jobStdout[i] \in Nat
  <2>1. \A i \in 1..Len(jobStdout) : jobStdout[i] \in Bytes
    BY ElementOfSeq DEF OutputTypes
  <2>. QED
    BY <2>1, LenProperties DEF OutputTypes, Bytes
<1>2. ASSUME appendFailures = 0 PROVE jobStdout = BinText(Len(jobStdout))
  <2>1. After(jobStdout, 0)
    BY <1>2 DEF NoGap
  <2>2. Len(jobStdout) <= binWritten
    <3>1. CASE Len(jobStdout) = 0
      BY <3>1, Lengths
    <3>2. CASE Len(jobStdout) # 0
      <4>1. Len(jobStdout) \in DOMAIN jobStdout
        BY <1>1, <3>2
      <4>. QED
        BY <1>1, <2>1, <4>1 DEF InTurn, UpTo, After
    <3>. QED
      BY <3>1, <3>2
  <2>3. Len(jobStdout) \in 0..MaxBytes
    BY <1>1, <2>2, Lengths, JobOutputAssumption DEF OutputTypes, JobOutputAssumption
  <2>. QED
    BY <2>1, <2>3, BinTexts DEF OutputTypes
<1>3. InOrder
  BY <1>2 DEF InOrder, InTurn, Rising
<1>4. NothingLost
  BY <1>2 DEF NothingLost, NoGap
<1>. QED
  BY <1>3, <1>4

(* The stdout column never repeats, reorders or invents a byte; unless an  *)
(* append failed it is a beginning of the output, and all of it once the   *)
(* job has ended: whatever the BIN writes, however the flush of the ticker *)
(* and the flush of Close interleave (stream.go, store.go, pool.go).       *)
THEOREM OutputIntactHolds == JobPageSpec => []OutputIntact
BY OutputInvHolds, IntactColumn, PTL

-----------------------------------------------------------------------------
(* Those who look on.                                                      *)

(* What one step can do to the row: it grows, and it cannot both change    *)
(* and miss a chunk; a deleted row stays deleted; a row that is final can  *)
(* only be deleted.                                                        *)
RowGrows ==
  /\ jobStatus' # "deleted" =>
       /\ jobStatus # "deleted"
       /\ Len(jobStdout') >= Len(jobStdout)
       /\ jobStdout' = jobStdout \/ appendFailures' = appendFailures
  /\ appendFailures' >= appendFailures

RowIsFinal ==
  runAt = "over" =>
    /\ runAt' = "over" /\ binWritten' = binWritten
    /\ IsTerminal(jobStatus) /\ jobStatus' # "deleted" => UNCHANGED <<jobStatus, jobStdout>>

LEMMA RowSteps ==
  ASSUME OutputInv, OutputStep
  PROVE  RowGrows /\ RowIsFinal
<1>. USE DEF OutputInv
<1>1. CASE UNCHANGED <<jobStatus, jobStdout, appendFailures, binWritten, runAt>>
  BY <1>1, Lengths DEF RowGrows, RowIsFinal
<1>2. CASE BinWrite \/ ExecReturn
  BY <1>2, Lengths DEF BinWrite, ExecReturn, RowGrows, RowIsFinal
<1>3. CASE Tick \/ StopFlusher \/ CloseFlush
  BY <1>3, Lengths DEF Tick, StopFlusher, CloseFlush, RowGrows, RowIsFinal, Control
<1>4. CASE FlushTick
  <2>1. /\ sinkRun = "append" /\ jobStatus' = jobStatus
        /\ \/ jobStdout' = jobStdout \o RunChunk /\ appendFailures' = appendFailures
           \/ /\ jobStdout' = jobStdout
              /\ appendFailures' = appendFailures \/ appendFailures' = appendFailures + 1
    BY <1>4 DEF FlushTick, AppendToRow, AppendFails, RunChunk
  <2>2. Len(jobStdout \o RunChunk) >= Len(jobStdout)
    BY Joined, Lengths DEF OutputTypes
  <2>. QED
    BY <2>1, <2>2, Lengths DEF RowGrows, RowIsFinal, Control
<1>5. CASE CloseTail
  <2>1. /\ runAt = "tail" /\ jobStatus' = jobStatus
        /\ \/ jobStdout' = jobStdout \o CloseChunk /\ appendFailures' = appendFailures
           \/ /\ jobStdout' = jobStdout
              /\ appendFailures' = appendFailures \/ appendFailures' = appendFailures + 1
    BY <1>5 DEF CloseTail, AppendToRow, AppendFails, CloseChunk
  <2>2. Len(jobStdout \o CloseChunk) >= Len(jobStdout)
    BY Joined, Lengths DEF OutputTypes
  <2>. QED
    BY <2>1, <2>2, Lengths DEF RowGrows, RowIsFinal
<1>6. CASE FinishJob
  <2>1. /\ runAt = "finish" /\ appendFailures' = appendFailures
        /\ jobStatus = "deleted" => jobStatus' = "deleted"
        /\ \/ jobStdout' = jobStdout
           \/ jobStdout' = execResult.text /\ Len(execResult.text) >= Len(jobStdout)
    <3>1. CASE jobStatus = "running"
      BY <1>6, <3>1 DEF FinishJob, FinalText
    <3>2. CASE jobStatus # "running"
      BY <1>6, <3>2 DEF FinishJob
    <3>. QED
      BY <3>1, <3>2
  <2>. QED
    BY <2>1, Lengths DEF RowGrows, RowIsFinal
<1>7. CASE DeleteRow \/ DaemonCrash \/ MarkOrphaned
  BY <1>7, Lengths DEF DeleteRow, DaemonCrash, MarkOrphaned, RowGrows, RowIsFinal,
                       IsTerminal, TerminalStatus
<1>. QED
  BY <1>1, <1>2, <1>3, <1>4, <1>5, <1>6, <1>7 DEF OutputStep, JobStep, outputVars

(* Of two texts without a gap the shorter begins the longer.               *)
LEMMA GaplessPrefix ==
  ASSUME NEW s \in Seq(Bytes), NEW t \in Seq(Bytes), After(s, 0), After(t, 0), Len(s) <= Len(t)
  PROVE  IsPrefix(s, t)
<1>1. Len(s) \in Nat /\ Len(t) \in Nat /\ DOMAIN s = 1..Len(s) /\ DOMAIN t = 1..Len(t)
  BY LenProperties
<1>2. \A i \in 1..Len(s) : s[i] = t[i]
  BY <1>1 DEF After
<1>. QED
  BY <1>2, PrefixByPosition

WatchInv ==
  /\ watchSeen.stdout \in Seq(Bytes)
  /\ watchSeen.status # "none" /\ jobStatus # "deleted" => Len(watchSeen.stdout) <= Len(jobStdout)
  /\ appendFailures = 0 => After(watchSeen.stdout, 0)
  /\ watchAt = "idle" => watchSeen.status = "none"
  /\ watchAt = "watching" => ~IsTerminal(watchSeen.status)
  /\ watchAt = "closed" => IsTerminal(watchSeen.status) /\ runAt = "over"
  /\ watchAt = "closed" /\ jobStatus # "deleted" => watchSeen = JobRow

PageInv ==
  /\ IsTerminal(jobSeen.status) => runAt = "over"
  /\ IsTerminal(jobSeen.status) /\ jobStatus # "deleted" => jobSeen = JobRow
  /\ jobSeen.status \in {"done", "error", "cancelled"} /\ jobSeen.stdout = <<>> /\ appendFailures = 0
       => binWritten = 0

(* The watcher's own steps leave the job alone, and the job's the watcher. *)
WatcherStays == UNCHANGED <<watchAt, watchSeen>> \/ (watchAt' = "left" /\ watchSeen' = watchSeen)
WatcherReads == watchSeen' = JobRow /\ jobStatus # "deleted" /\ watchAt \in {"idle", "watching"}
                /\ watchAt' = (IF IsTerminal(jobStatus) THEN "closed" ELSE "watching")
                /\ UNCHANGED outputVars

LEMMA WatcherSteps ==
  [JobPageNext]_jobPageVars =>
    \/ WatcherStays \/ WatcherReads
    \/ watchAt' = "not found" /\ watchSeen' = watchSeen /\ jobStatus = "deleted"
<1> SUFFICES ASSUME [JobPageNext]_jobPageVars
             PROVE  \/ WatcherStays \/ WatcherReads
                    \/ watchAt' = "not found" /\ watchSeen' = watchSeen /\ jobStatus = "deleted"
  OBVIOUS
<1>1. CASE StartWatch \/ WatchTick
  BY <1>1 DEF StartWatch, WatchTick, SendSnapshot, JobRow, WatcherReads
<1>2. CASE Disconnect \/ WatchedJobStep
  BY <1>2 DEF Disconnect, WatchedJobStep, watchVars, WatcherStays
<1>3. CASE FetchJob \/ AskCancel \/ CancelAnswered \/ UNCHANGED jobPageVars
  BY <1>3 DEF FetchJob, AskCancel, CancelAnswered, jobPageVars, watchedVars, watchVars, WatcherStays
<1>. QED
  BY <1>1, <1>2, <1>3 DEF JobPageNext, WatchNext

LEMMA WatchInvInit == JobPageInit => WatchInv
BY EmptyText DEF JobPageInit, WatchInit, WatchInv, IsTerminal, TerminalStatus

LEMMA WatchInvStep == OutputInv /\ WatchInv /\ [JobPageNext]_jobPageVars => WatchInv'
<1> SUFFICES ASSUME OutputInv, WatchInv, [JobPageNext]_jobPageVars PROVE WatchInv'
  OBVIOUS
<1>1. RowGrows /\ RowIsFinal /\ OutputInv'
  BY PageSteps, RowSteps, OutputInvStep
<1>2. /\ Len(jobStdout) \in Nat /\ Len(jobStdout') \in Nat /\ Len(watchSeen.stdout) \in Nat
      /\ appendFailures \in Nat /\ appendFailures' \in Nat
  BY <1>1, Lengths, LenProperties, JobOutputAssumption
     DEF OutputInv, OutputTypes, WatchInv, JobOutputAssumption
<1>3. CASE watchSeen' = watchSeen /\ (watchAt' = watchAt \/ watchAt' \in {"left", "not found"})
  <2>1. /\ watchSeen'.stdout \in Seq(Bytes)
        /\ appendFailures' = 0 => After(watchSeen'.stdout, 0)
    <3>1. appendFailures' = 0 => appendFailures = 0
      BY <1>1, <1>2 DEF RowGrows
    <3>2. watchSeen.stdout \in Seq(Bytes) /\ (appendFailures = 0 => After(watchSeen.stdout, 0))
      BY DEF WatchInv
    <3>. QED
      BY <1>3, <3>1, <3>2
  <2>4. ASSUME watchSeen'.status # "none", jobStatus' # "deleted"
        PROVE  Len(watchSeen'.stdout) <= Len(jobStdout')
    <3>1. jobStatus # "deleted" /\ Len(jobStdout') >= Len(jobStdout)
      BY <1>1, <2>4 DEF RowGrows
    <3>2. Len(watchSeen.stdout) <= Len(jobStdout)
      BY <1>3, <2>4, <3>1 DEF WatchInv
    <3>3. Len(watchSeen.stdout) <= Len(jobStdout')
      BY ONLY <1>2, <3>1, <3>2
    <3>. QED
      BY <1>3, <3>3
  <2>2. /\ watchAt' = "idle" => watchSeen'.status = "none"
        /\ watchAt' = "watching" => ~IsTerminal(watchSeen'.status)
        /\ watchAt' = "closed" => IsTerminal(watchSeen'.status) /\ runAt' = "over"
    BY <1>1, <1>3 DEF WatchInv, RowIsFinal, IsTerminal
  <2>3. ASSUME watchAt' = "closed", jobStatus' # "deleted" PROVE watchSeen' = JobRow'
    <3>1. watchAt = "closed" /\ jobStatus # "deleted"
      BY <1>1, <1>3, <2>3 DEF RowGrows
    <3>2. watchSeen = JobRow /\ runAt = "over" /\ IsTerminal(jobStatus)
      BY <3>1 DEF WatchInv, JobRow
    <3>. QED
      BY <1>1, <1>3, <2>3, <3>2 DEF RowIsFinal, JobRow
  <2>. QED
    BY <2>1, <2>2, <2>3, <2>4 DEF WatchInv
<1>4. CASE WatcherReads
  <2>1. /\ watchSeen' = JobRow /\ watchSeen'.status = jobStatus /\ watchSeen'.stdout = jobStdout
        /\ UNCHANGED <<jobStatus, jobStdout, appendFailures, runAt>> /\ JobRow' = JobRow
    BY <1>4 DEF WatcherReads, JobRow, outputVars
  <2>2. IsTerminal(jobStatus) => runAt = "over"
    BY DEF OutputInv, Control, IsTerminal
  <2>. QED
    BY <1>2, <1>4, <2>1, <2>2 DEF WatchInv, WatcherReads, OutputInv, OutputTypes, NoGap, IsTerminal
<1>. QED
  BY <1>3, <1>4, WatcherSteps DEF WatcherStays

LEMMA PageInvInit == JobPageInit => PageInv
BY DEF JobPageInit, PageInv, IsTerminal, TerminalStatus

LEMMA PageInvStep == OutputInv /\ PageInv /\ [JobPageNext]_jobPageVars => PageInv'
<1> SUFFICES ASSUME OutputInv, PageInv, [JobPageNext]_jobPageVars PROVE PageInv'
  OBVIOUS
<1>1. RowGrows /\ RowIsFinal
  BY PageSteps, RowSteps
<1>2. \/ jobSeen' = jobSeen
      \/ jobSeen' = JobRow /\ jobStatus # "deleted" /\ UNCHANGED outputVars
  BY DEF JobPageNext, FetchJob, AskCancel, CancelAnswered, jobPageOnly, jobPageVars, watchedVars
<1>3. CASE jobSeen' = jobSeen
  <2>1. IsTerminal(jobSeen'.status) => runAt' = "over"
    BY <1>1, <1>3 DEF PageInv, RowIsFinal, IsTerminal
  <2>2. ASSUME IsTerminal(jobSeen'.status), jobStatus' # "deleted" PROVE jobSeen' = JobRow'
    <3>1. jobSeen = JobRow /\ runAt = "over" /\ IsTerminal(jobStatus)
      BY <1>1, <1>3, <2>2 DEF PageInv, RowGrows, JobRow, IsTerminal
    <3>. QED
      BY <1>1, <1>3, <2>2, <3>1 DEF RowIsFinal, JobRow
  <2>3. ASSUME jobSeen'.status \in {"done", "error", "cancelled"}, jobSeen'.stdout = <<>>,
               appendFailures' = 0
        PROVE  binWritten' = 0
    <3>1. IsTerminal(jobSeen.status) /\ appendFailures = 0
      BY <1>1, <1>3, <2>3, Lengths DEF RowGrows, OutputInv, IsTerminal, TerminalStatus
    <3>2. binWritten = 0
      BY <1>3, <2>3, <3>1 DEF PageInv
    <3>. QED
      BY <1>1, <3>1, <3>2 DEF PageInv, RowIsFinal
  <2>. QED
    BY <2>1, <2>2, <2>3 DEF PageInv
<1>4. CASE jobSeen' = JobRow /\ jobStatus # "deleted" /\ UNCHANGED outputVars
  <2>1. /\ jobSeen'.status = jobStatus /\ jobSeen'.stdout = jobStdout /\ JobRow' = JobRow
        /\ UNCHANGED <<jobStatus, jobStdout, appendFailures, runAt, binWritten>>
    BY <1>4 DEF JobRow, outputVars
  <2>2. IsTerminal(jobStatus) => runAt = "over"
    BY DEF OutputInv, Control, IsTerminal
  <2>3. jobStatus \in {"done", "error", "cancelled"} /\ jobStdout = <<>> /\ appendFailures = 0
          => binWritten = 0
    BY EmptyText DEF OutputInv, NoGap
  <2>. QED
    BY <1>4, <2>1, <2>2, <2>3 DEF PageInv, IsTerminal
<1>. QED
  BY <1>2, <1>3, <1>4

ObserverInv == OutputInv /\ WatchInv /\ PageInv

LEMMA ObserverInvHolds == JobPageSpec => []ObserverInv
<1>1. JobPageInit => ObserverInv
  BY OutputInvInit, WatchInvInit, PageInvInit DEF ObserverInv
<1>2. ObserverInv /\ [JobPageNext]_jobPageVars => ObserverInv'
  BY OutputInvStep, WatchInvStep, PageInvStep DEF ObserverInv
<1>. QED
  BY <1>1, <1>2, PTL DEF JobPageSpec

(* Whoever stops looking by himself, the watcher's stream or the polling   *)
(* page, has seen what the row says for ever after, and the page calls     *)
(* only a silent job silent (asyncjobs_handlers.go, view.tsx of a job).    *)
THEOREM ObserversSeeTheEndHolds == JobPageSpec => []ObserversSeeTheEnd
<1>1. ObserverInv => ObserversSeeTheEnd
  <2> SUFFICES ASSUME OutputInv, WatchInv, PageInv PROVE ObserversSeeTheEnd
    BY DEF ObserverInv
  <2>1. ClosesOnTheResult
    BY DEF ClosesOnTheResult, WatchInv
  <2>2. ~(PollsJob /\ PollsLiveJob) <=> IsTerminal(jobSeen.status)
    BY DEF PollsJob, PollsLiveJob, IsTerminal, TerminalStatus
  <2>3. (~(PollsJob /\ PollsLiveJob) /\ jobStatus # "deleted") => jobSeen = JobRow
    BY <2>2 DEF PageInv
  <2>4. /\ LiveJobLogs = "streaming" <=> jobSeen.stdout = <<>>
        /\ LogStream \in {"streaming", "no output"} <=> jobSeen.stdout = <<>>
        /\ LogStream = "no output" => jobSeen.stdout = <<>> /\ IsTerminal(jobSeen.status)
    BY DEF LiveJobLogs, LogStream
  <2>5. LogStream = "no output" /\ appendFailures = 0 /\ jobSeen.status # "orphaned" => binWritten = 0
    BY <2>4 DEF PageInv, IsTerminal, TerminalStatus
  <2>. QED
    BY <2>1, <2>3, <2>4, <2>5 DEF ObserversSeeTheEnd
<1>. QED
  BY <1>1, ObserverInvHolds, PTL

(* Neither the row nor the snapshots of a watcher ever take output back    *)
(* (store.go, asyncjobs_handlers.go).                                      *)
THEOREM OutputGrowsHolds == JobPageSpec => OutputGrows
<1>1. ASSUME ObserverInv, [JobPageNext]_jobPageVars
      PROVE  jobStatus' # "deleted" =>
               /\ Len(jobStdout') >= Len(jobStdout)
               /\ appendFailures = 0 => IsPrefix(jobStdout, jobStdout')
  <2>1. RowGrows /\ OutputInv /\ OutputInv'
    BY <1>1, PageSteps, RowSteps, OutputInvStep DEF ObserverInv
  <2>2. /\ jobStdout \in Seq(Bytes) /\ jobStdout' \in Seq(Bytes)
        /\ Len(jobStdout) \in Nat /\ Len(jobStdout') \in Nat
    BY <2>1, LenProperties DEF OutputInv, OutputTypes
  <2>3. CASE jobStdout' = jobStdout
    <3>1. IsPrefix(jobStdout, jobStdout)
      BY <2>2, PrefixByPosition
    <3>. QED
      BY <2>2, <2>3, <3>1
  <2>4. CASE appendFailures' = appendFailures
    BY <2>1, <2>2, <2>4, GaplessPrefix DEF RowGrows, OutputInv, NoGap
  <2>. QED
    BY <2>1, <2>3, <2>4 DEF RowGrows
<1>2. ASSUME ObserverInv, [JobPageNext]_jobPageVars
      PROVE  watchSeen' # watchSeen /\ watchSeen.status # "none" =>
               /\ ~IsTerminal(watchSeen.status)
               /\ Len(watchSeen'.stdout) >= Len(watchSeen.stdout)
               /\ appendFailures = 0 => IsPrefix(watchSeen.stdout, watchSeen'.stdout)
  <2> SUFFICES ASSUME watchSeen' # watchSeen, watchSeen.status # "none"
               PROVE  /\ ~IsTerminal(watchSeen.status)
                      /\ Len(watchSeen'.stdout) >= Len(watchSeen.stdout)
                      /\ appendFailures = 0 => IsPrefix(watchSeen.stdout, watchSeen'.stdout)
    OBVIOUS
  <2>1. WatcherReads
    BY <1>2, WatcherSteps DEF WatcherStays
  <2>2. /\ watchSeen'.stdout = jobStdout /\ jobStdout \in Seq(Bytes) /\ watchSeen.stdout \in Seq(Bytes)
        /\ Len(watchSeen.stdout) <= Len(jobStdout) /\ ~IsTerminal(watchSeen.status)
        /\ appendFailures = 0 => After(watchSeen.stdout, 0) /\ After(jobStdout, 0)
    BY <1>2, <2>1 DEF WatcherReads, ObserverInv, WatchInv, OutputInv, OutputTypes, NoGap, JobRow
  <2>3. Len(watchSeen.stdout) \in Nat /\ Len(jobStdout) \in Nat
    BY <2>2, LenProperties
  <2>. QED
    BY <2>2, <2>3, GaplessPrefix
<1>3. JobPageSpec => NeverShrinks
  BY <1>1, ObserverInvHolds, PTL DEF JobPageSpec, NeverShrinks, jobPageVars, watchedVars
<1>4. JobPageSpec => SnapshotsGrow
  BY <1>2, ObserverInvHolds, PTL DEF JobPageSpec, SnapshotsGrow, jobPageVars, watchedVars
<1>. QED
  BY <1>3, <1>4 DEF OutputGrows

-----------------------------------------------------------------------------
(* The sets the variables stay in.                                         *)

(* What the executor returned, and what the page keeps of an answer.       *)
ResultTyped == execResult \in [end : Outcome \cup {"none"}, text : Seq(Bytes)]
ChunksTyped == sinkChunk \in [{"run", "close"} -> Seq(Bytes)]
SeenTyped   == jobSeen \in [status : TerminalStatus \cup {"none", "running"}, stdout : Seq(Bytes)]

PageTyped == /\ ResultTyped /\ ChunksTyped /\ SeenTyped
             /\ jobMissing \in BOOLEAN /\ jobCancelling \in BOOLEAN

LEMMA PageTypedInit == JobPageInit => PageTyped
<1> SUFFICES ASSUME JobPageInit PROVE PageTyped
  OBVIOUS
<1>1. <<>> \in Seq(Bytes)
  BY EmptyText
<1>2. /\ execResult = [end |-> "none", text |-> <<>>]
      /\ sinkChunk = [f \in {"run", "close"} |-> <<>>]
      /\ jobSeen = [status |-> "none", stdout |-> <<>>]
      /\ jobMissing = FALSE /\ jobCancelling = FALSE
  BY DEF JobPageInit, WatchInit, OutputInit
<1>3. ResultTyped
  BY <1>1, <1>2 DEF ResultTyped
<1>4. ChunksTyped
  BY <1>1, <1>2 DEF ChunksTyped
<1>5. SeenTyped
  BY <1>1, <1>2 DEF SeenTyped
<1>. QED
  BY <1>2, <1>3, <1>4, <1>5 DEF PageTyped

(* What a step of the job does to the chunks and to Exec's result.         *)
LEMMA ChunksMove ==
  OutputStep => \/ sinkChunk' = sinkChunk
                \/ sinkChunk' = [f \in {"run", "close"} |-> <<>>]
                \/ \E f \in {"run", "close"} : sinkChunk' = [sinkChunk EXCEPT ![f] = sinkBuf]
                \/ \E f \in {"run", "close"} : sinkChunk' = [sinkChunk EXCEPT ![f] = <<>>]
<1>1. CASE Tick \/ CloseFlush
  BY <1>1 DEF Tick, CloseFlush, Swap
<1>2. CASE FlushTick \/ CloseTail
  BY <1>2 DEF FlushTick, CloseTail, AppendToRow, AppendFails
<1>3. CASE DaemonCrash
  BY <1>3 DEF DaemonCrash
<1>4. CASE BinWrite \/ ExecReturn \/ StopFlusher \/ FinishJob \/ DeleteRow \/ MarkOrphaned
           \/ UNCHANGED outputVars
  BY <1>4 DEF BinWrite, ExecReturn, StopFlusher, FinishJob, DeleteRow, MarkOrphaned,
              outputVars, sinkVars
<1>. QED
  BY <1>1, <1>2, <1>3, <1>4 DEF OutputStep, JobStep

LEMMA ResultMoves ==
  OutputStep => \/ execResult' = execResult
                \/ \E end \in Outcome, n \in 0..binWritten :
                     execResult' = [end |-> end, text |-> BinText(n)]
<1>1. CASE ExecReturn
  BY <1>1 DEF ExecReturn
<1>2. CASE Tick \/ CloseFlush \/ FlushTick \/ CloseTail \/ DaemonCrash \/ BinWrite \/ StopFlusher
           \/ FinishJob \/ DeleteRow \/ MarkOrphaned \/ UNCHANGED outputVars
  BY <1>2 DEF Tick, CloseFlush, FlushTick, CloseTail, DaemonCrash, BinWrite, StopFlusher, FinishJob,
              DeleteRow, MarkOrphaned, outputVars
<1>. QED
  BY <1>1, <1>2 DEF OutputStep, JobStep

LEMMA PageTypedStep ==
  OutputInv /\ OutputInv' /\ PageTyped /\ [JobPageNext]_jobPageVars => PageTyped'
<1> SUFFICES ASSUME OutputInv, OutputInv', PageTyped, [JobPageNext]_jobPageVars PROVE PageTyped'
  OBVIOUS
<1>0. OutputStep
  BY PageSteps
<1>1. /\ sinkBuf \in Seq(Bytes) /\ <<>> \in Seq(Bytes) /\ jobStdout \in Seq(Bytes)
      /\ binWritten \in 0..MaxBytes /\ execResult'.text \in Seq(Bytes)
      /\ jobStatus \in TerminalStatus \cup {"running", "deleted"}
  BY EmptyText DEF OutputInv, OutputTypes, Captured
<1>2. ChunksTyped'
  BY <1>0, <1>1, ChunksMove DEF ChunksTyped, PageTyped
<1>3. ResultTyped'
  <2>1. CASE execResult' = execResult
    BY <2>1 DEF ResultTyped, PageTyped
  <2>2. ASSUME NEW end \in Outcome, NEW n \in 0..binWritten,
               execResult' = [end |-> end, text |-> BinText(n)]
        PROVE  ResultTyped'
    <3>1. BinText(n) \in Seq(Bytes)
      BY <1>1, <2>2
    <3>. QED
      BY <2>2, <3>1 DEF ResultTyped
  <2>. QED
    BY <1>0, <2>1, <2>2, ResultMoves
<1>4. SeenTyped'
  <2>1. jobSeen' = jobSeen \/ (jobSeen' = JobRow /\ jobStatus # "deleted")
    BY DEF JobPageNext, FetchJob, AskCancel, CancelAnswered, jobPageOnly, jobPageVars, watchedVars
  <2>2. CASE jobSeen' = jobSeen
    BY <2>2 DEF SeenTyped, PageTyped
  <2>3. CASE jobSeen' = JobRow /\ jobStatus # "deleted"
    <3>1. jobStatus \in TerminalStatus \cup {"none", "running"}
      BY <1>1, <2>3
    <3>. QED
      BY <1>1, <2>3, <3>1 DEF SeenTyped, JobRow
  <2>. QED
    BY <2>1, <2>2, <2>3
<1>5. jobMissing' \in BOOLEAN /\ jobCancelling' \in BOOLEAN
  <2>1. jobMissing' = jobMissing \/ jobMissing' = TRUE \/ jobMissing' = FALSE
    BY DEF JobPageNext, FetchJob, AskCancel, CancelAnswered, jobPageOnly, jobPageVars
  <2>2. jobCancelling' = jobCancelling \/ jobCancelling' = TRUE \/ jobCancelling' = FALSE
    BY DEF JobPageNext, FetchJob, AskCancel, CancelAnswered, jobPageOnly, jobPageVars
  <2>. QED
    BY <2>1, <2>2 DEF PageTyped
<1>. QED
  BY <1>2, <1>3, <1>4, <1>5 DEF PageTyped

(* The buffers, the row and what the page shows of it stay in their sets,  *)
(* for any output and any failures (stream.go, pool.go, view.tsx).         *)
THEOREM JobPageTypeHolds == JobPageSpec => []JobPageTypeOK
<1>1. JobPageInit => OutputInv /\ PageTyped
  BY OutputInvInit, PageTypedInit
<1>2. OutputInv /\ PageTyped /\ [JobPageNext]_jobPageVars => (OutputInv /\ PageTyped)'
  BY OutputInvStep, PageTypedStep
<1>3. OutputInv /\ PageTyped => JobPageTypeOK
  BY DEF OutputInv, OutputTypes, PageTyped, ResultTyped, ChunksTyped, SeenTyped, JobPageTypeOK,
         OutputTypeOK, Bytes
<1>. QED
  BY <1>1, <1>2, <1>3, PTL DEF JobPageSpec

-----------------------------------------------------------------------------
(* The pages that only list.                                               *)

(* A row is told from another by the number of its job.                    *)
HomeRows == [n : 1..ListedJobs, at : 0..ListedJobs, status : HomeJobStatuses]

EachJobOnce(rows) == \A i, j \in DOMAIN rows : i # j => rows[i].n # rows[j].n
Descending(rows) == \A i, j \in DOMAIN rows : i < j => rows[j].at <= rows[i].at

(* Before, in LatestFirst, and what comes before an index.                 *)
Sooner(s, i, j) == s[i].at > s[j].at \/ (s[i].at = s[j].at /\ i < j)
Ahead(s, j) == {i \in DOMAIN s : Sooner(s, i, j)}

(* To come before is a total order, so the indices have ranks of their     *)
(* own, and every rank up to the length is taken.                          *)
LEMMA RanksAreDistinct ==
  ASSUME NEW S, NEW s \in Seq(S), \A i \in DOMAIN s : s[i].at \in Int
  PROVE  /\ \A j \in DOMAIN s : Cardinality(Ahead(s, j)) \in 0..Len(s) - 1
         /\ \A i, j \in DOMAIN s : Sooner(s, i, j) => Cardinality(Ahead(s, i)) < Cardinality(Ahead(s, j))
         /\ \A i, j \in DOMAIN s : i # j => Sooner(s, i, j) \/ Sooner(s, j, i)
<1>. DEFINE D == 1..Len(s)
            Rank(j) == Cardinality(Ahead(s, j))
<1>1. DOMAIN s = D /\ Len(s) \in Nat /\ D \subseteq Int
  BY LenProperties
<1>2. IsFiniteSet(D) /\ Cardinality(D) = Len(s)
  <2>1. 1 \in Int /\ Len(s) \in Int
    BY <1>1
  <2>2. IsFiniteSet(D) /\ Cardinality(D) = IF 1 > Len(s) THEN 0 ELSE Len(s) - 1 + 1
    BY <2>1, FS_Interval
  <2>. QED
    BY <1>1, <2>2
<1>3. \A i, j \in D : i # j => Sooner(s, i, j) \/ Sooner(s, j, i)
  BY <1>1 DEF Sooner
<1>4. \A j \in D : ~Sooner(s, j, j)
  BY <1>1 DEF Sooner
<1>5. \A i, j, k \in D : Sooner(s, i, j) /\ Sooner(s, j, k) => Sooner(s, i, k)
  BY <1>1 DEF Sooner
<1>6. \A j \in D : /\ Ahead(s, j) \subseteq D /\ j \notin Ahead(s, j)
                   /\ \A i \in D : i \in Ahead(s, j) <=> Sooner(s, i, j)
  BY <1>1, <1>4 DEF Ahead
<1>7. \A j \in D : IsFiniteSet(Ahead(s, j)) /\ Rank(j) \in Nat
  BY <1>2, <1>6, FS_Subset, FS_CardinalityType
<1>8. ASSUME NEW i \in D, NEW j \in D, Sooner(s, i, j) PROVE Rank(i) < Rank(j)
  <2>1. Ahead(s, i) \cup {i} \subseteq Ahead(s, j)
    BY <1>5, <1>6, <1>8
  <2>2. Cardinality(Ahead(s, i) \cup {i}) = Rank(i) + 1
    BY <1>6, <1>7, FS_AddElement
  <2>3. Cardinality(Ahead(s, i) \cup {i}) <= Rank(j)
    BY <2>1, <1>7, FS_Subset
  <2>. QED
    BY <1>7, <2>2, <2>3
<1>9. ASSUME NEW j \in D PROVE Rank(j) \in 0..Len(s) - 1
  <2>1. Cardinality(Ahead(s, j) \cup {j}) = Rank(j) + 1
    BY <1>6, <1>7, FS_AddElement
  <2>2. Ahead(s, j) \cup {j} \subseteq D
    BY <1>6
  <2>3. Cardinality(Ahead(s, j) \cup {j}) <= Len(s)
    BY <2>2, <1>2, FS_Subset
  <2>. QED
    BY <1>1, <1>7, <2>1, <2>3
<1>. QED
  BY <1>1, <1>3, <1>8, <1>9

(* LatestFirst is an order of all the indices, each once, that never goes  *)
(* back to a later row.                                                    *)
LEMMA LatestComeFirst ==
  ASSUME NEW S, NEW s \in Seq(S), \A i \in DOMAIN s : s[i].at \in Int
  PROVE  /\ LatestFirst(s) \in [1..Len(s) -> 1..Len(s)]
         /\ \A j, k \in 1..Len(s) : j # k => LatestFirst(s)[j] # LatestFirst(s)[k]
         /\ \A i \in 1..Len(s) : \E k \in 1..Len(s) : LatestFirst(s)[k] = i
         /\ \A j, k \in 1..Len(s) : j < k => s[LatestFirst(s)[k]].at <= s[LatestFirst(s)[j]].at
<1>. DEFINE D == 1..Len(s)
            Rank(j) == Cardinality(Ahead(s, j))
            f == [j \in D |-> Rank(j) + 1]
            order == LatestFirst(s)
<1>1. DOMAIN s = D /\ Len(s) \in Nat /\ D \subseteq Int
  BY LenProperties
<1>2. /\ \A j \in D : Rank(j) \in 0..Len(s) - 1
      /\ \A i, j \in D : Sooner(s, i, j) => Rank(i) < Rank(j)
      /\ \A i, j \in D : i # j => Sooner(s, i, j) \/ Sooner(s, j, i)
  BY <1>1, RanksAreDistinct
<1>3. order = [k \in D |-> CHOOSE j \in D : Rank(j) = k - 1]
  BY <1>1 DEF LatestFirst, Ahead, Sooner
<1>. HIDE DEF Rank, order
<1>4. \A i, j \in D : Rank(i) = Rank(j) => i = j
  BY <1>1, <1>2
<1>5. f \in Injection(D, D)
  <2>1. f \in [D -> D]
    BY <1>1, <1>2
  <2>2. \A i, j \in D : f[i] = f[j] => i = j
    BY <1>1, <1>2, <1>4
  <2>. QED
    BY <2>1, <2>2 DEF Injection, IsInjective
<1>6. f \in Surjection(D, D)
  <2>1. 1 \in Int /\ Len(s) \in Int
    BY <1>1
  <2>2. IsFiniteSet(D)
    BY <2>1, FS_Interval
  <2>. QED
    BY <1>5, <2>2, FS_Injection
<1>7. \A k \in D : \E j \in D : Rank(j) = k - 1
  <2> SUFFICES ASSUME NEW k \in D PROVE \E j \in D : Rank(j) = k - 1
    OBVIOUS
  <2>1. PICK j \in D : f[j] = k
    BY <1>6 DEF Surjection
  <2>2. Rank(j) + 1 = k
    BY <2>1
  <2>3. \A m \in Int : m + 1 = k => m = k - 1
    BY <1>1
  <2>4. Rank(j) \in Int
    BY <1>1, <1>2
  <2>5. Rank(j) = k - 1
    BY <2>2, <2>3, <2>4
  <2>. QED
    BY <2>5
<1>8. \A k \in D : order[k] \in D /\ Rank(order[k]) = k - 1
  BY <1>3, <1>7
<1>9. order \in [D -> D]
  BY <1>3, <1>7
<1>10. \A j, k \in D : j # k => order[j] # order[k]
  BY <1>1, <1>8
<1>11. ASSUME NEW i \in D PROVE \E k \in D : order[k] = i
  <2>1. PICK k \in D : k - 1 = Rank(i)
    <3>1. Rank(i) \in 0..Len(s) - 1
      BY <1>2
    <3>2. \A m \in 0..Len(s) - 1 : m + 1 \in D /\ (m + 1) - 1 = m
      BY <1>1
    <3>. QED
      BY <3>1, <3>2
  <2>2. Rank(order[k]) = Rank(i) /\ order[k] \in D
    BY <1>8, <2>1
  <2>. QED
    BY <1>4, <2>1, <2>2
<1>12. ASSUME NEW j \in D, NEW k \in D, j < k PROVE s[order[k]].at <= s[order[j]].at
  <2>1. order[j] \in D /\ order[k] \in D /\ Rank(order[j]) = j - 1 /\ Rank(order[k]) = k - 1
    BY <1>8
  <2>2. Sooner(s, order[j], order[k])
    BY <1>1, <1>2, <1>12, <2>1
  <2>3. s[order[j]].at \in Int /\ s[order[k]].at \in Int
    BY <1>1, <2>1
  <2>. QED
    BY <2>2, <2>3 DEF Sooner
<1>. QED
  BY <1>9, <1>10, <1>11, <1>12 DEF order

LEMMA TableIsSequence ==
  ASSUME NEW S, NEW n \in Nat, NEW g \in [1..n -> S]
  PROVE  g \in Seq(S) /\ Len(g) = n /\ DOMAIN g = 1..n
OBVIOUS

(* What the daemon lists: rows of its jobs, each job once, the latest      *)
(* first, and only of the status that was asked for.                       *)
LEMMA ListedRows ==
  ASSUME NEW f, HomeAssumption, homeJobs \in Seq([at : 0..ListedJobs, status : HomeJobStatuses]),
         Len(homeJobs) <= ListedJobs
  PROVE  /\ ListAsyncJobs(f) \in Seq(HomeRows)
         /\ EachJobOnce(ListAsyncJobs(f)) /\ Descending(ListAsyncJobs(f))
         /\ \A k \in DOMAIN ListAsyncJobs(f) : f # "" => ListAsyncJobs(f)[k].status = f
<1>. DEFINE n == Len(homeJobs)
            order == LatestFirst(homeJobs)
            Shows(i) == f = "" \/ homeJobs[i].status = f
            part == [k \in 1..n |-> IF Shows(order[k]) THEN <<HomeJob(order[k])>> ELSE <<>>]
<1>1. /\ n \in Nat /\ n <= ListedJobs /\ ListedJobs \in Nat /\ DOMAIN homeJobs = 1..n
      /\ \A i \in 1..n : homeJobs[i] \in [at : 0..ListedJobs, status : HomeJobStatuses]
  BY LenProperties, ElementOfSeq DEF HomeAssumption
<1>2. \A i \in DOMAIN homeJobs : homeJobs[i].at \in Int
  BY <1>1
<1>3. /\ order \in [1..n -> 1..n]
      /\ \A j, k \in 1..n : j # k => order[j] # order[k]
      /\ \A j, k \in 1..n : j < k => homeJobs[order[k]].at <= homeJobs[order[j]].at
  BY <1>2, LatestComeFirst
<1>4. ListAsyncJobs(f) = FlattenSeq(part)
  BY <1>3 DEF ListAsyncJobs
<1>. HIDE DEF order
<1>5. \A i \in 1..n : /\ HomeJob(i) \in HomeRows /\ HomeJob(i).n = i /\ HomeJob(i).at = homeJobs[i].at
                     /\ HomeJob(i).status = homeJobs[i].status
  BY <1>1 DEF HomeJob, HomeRows
<1>6. part \in Seq(Seq(HomeRows)) /\ Len(part) = n /\ DOMAIN part = 1..n
  <2>1. ASSUME NEW k \in 1..n PROVE part[k] \in Seq(HomeRows)
    <3>1. HomeJob(order[k]) \in HomeRows
      BY <1>3, <1>5
    <3>2. <<HomeJob(order[k])>> \in Seq(HomeRows) /\ <<>> \in Seq(HomeRows)
      BY <3>1, EmptySeq
    <3>. QED
      BY <3>2
  <2>2. part \in [1..n -> Seq(HomeRows)]
    BY <2>1
  <2>. HIDE DEF part, n
  <2>3. part \in Seq(Seq(HomeRows)) /\ Len(part) = n /\ DOMAIN part = 1..n
    BY <1>1, <2>2, TableIsSequence
  <2>. QED
    BY <2>3
<1>7. \A k \in 1..n : part[k] = IF Shows(order[k]) THEN <<HomeJob(order[k])>> ELSE <<>>
  OBVIOUS
<1>. HIDE DEF part, n
<1>8. PICK r \in [0..n -> Seq(HomeRows)] :
        r[0] = <<>> /\ r[n] = FlattenSeq(part) /\ \A i \in 1..n : r[i] = r[i - 1] \o part[i]
  <2>1. \A v \in Seq(Seq(HomeRows)), m \in Nat : Len(v) = m =>
          \E r \in [0..m -> Seq(HomeRows)] :
            r[0] = <<>> /\ r[m] = FlattenSeq(v) /\ \A i \in 1..m : r[i] = r[i - 1] \o v[i]
    BY ONLY FlattenBySteps
  <2>2. n \in Nat
    BY <1>1
  <2>. QED
    BY ONLY <1>6, <2>1, <2>2
<1>. DEFINE Ok(i) == /\ \A a \in 1..Len(r[i]) : \E k \in 1..i : r[i][a] = HomeJob(order[k]) /\ Shows(order[k])
                     /\ \A a, b \in 1..Len(r[i]) : a < b => r[i][a].n # r[i][b].n /\ r[i][b].at <= r[i][a].at
<1>9. Ok(0)
  BY <1>8, EmptySeq
<1>10. ASSUME NEW m \in 0..n - 1, Ok(m) PROVE Ok(m + 1)
  <2>. DEFINE o == order[m + 1]
  <2>1. m + 1 \in 1..n /\ (m + 1) - 1 = m /\ m \in 0..n /\ m \in Int /\ 1..m \subseteq 1..m + 1
        /\ m + 1 \in 1..m + 1
    BY <1>1
  <2>2. r[m + 1] = r[m] \o part[m + 1] /\ r[m] \in Seq(HomeRows)
    BY <1>8, <2>1
  <2>3. CASE ~Shows(o)
    <3>1. r[m + 1] = r[m]
      BY <1>7, <2>1, <2>2, <2>3, ConcatEmptySeq
    <3>. QED
      BY <1>10, <2>1, <3>1
  <2>4. CASE Shows(o)
    <3>1. r[m + 1] = Append(r[m], HomeJob(o))
      <4>1. part[m + 1] = <<HomeJob(o)>>
        BY <1>7, <2>1, <2>4
      <4>2. o \in 1..n /\ HomeJob(o) \in HomeRows
        BY <1>3, <1>5, <2>1
      <4>. QED
        BY <2>2, <4>1, <4>2, AppendIsConcat
    <3>2. o \in 1..n /\ HomeJob(o) \in HomeRows
      BY <1>3, <1>5, <2>1
    <3>3. /\ Len(r[m + 1]) = Len(r[m]) + 1 /\ Len(r[m]) \in Nat
          /\ \A a \in 1..Len(r[m]) : r[m + 1][a] = r[m][a]
          /\ r[m + 1][Len(r[m]) + 1] = HomeJob(o)
      BY <2>2, <3>1, <3>2, AppendProperties, LenProperties
    <3>4. \A a \in 1..Len(r[m + 1]) : a \in 1..Len(r[m]) \/ a = Len(r[m]) + 1
      BY <3>3
    <3>5. ASSUME NEW a \in 1..Len(r[m + 1])
          PROVE  \E k \in 1..m + 1 : r[m + 1][a] = HomeJob(order[k]) /\ Shows(order[k])
      <4>1. CASE a \in 1..Len(r[m])
        <5>1. PICK k \in 1..m : r[m][a] = HomeJob(order[k]) /\ Shows(order[k])
          BY <1>10, <4>1
        <5>2. k \in 1..m + 1 /\ r[m + 1][a] = r[m][a]
          BY <2>1, <3>3, <4>1
        <5>. QED
          BY <5>1, <5>2
      <4>2. CASE a = Len(r[m]) + 1
        BY <2>1, <2>4, <3>3, <4>2
      <4>. QED
        BY <3>4, <4>1, <4>2
    <3>6. ASSUME NEW a \in 1..Len(r[m])
          PROVE  r[m][a].n # HomeJob(o).n /\ HomeJob(o).at <= r[m][a].at
      <4>1. PICK k \in 1..m : r[m][a] = HomeJob(order[k])
        BY <1>10
      <4>2. k \in 1..n /\ k < m + 1 /\ k # m + 1
        BY <1>1, <2>1
      <4>3. order[k] \in 1..n /\ order[k] # o /\ homeJobs[o].at <= homeJobs[order[k]].at
        BY <1>3, <2>1, <4>2
      <4>. QED
        BY <1>5, <3>2, <4>1, <4>3
    <3>7. ASSUME NEW a \in 1..Len(r[m + 1]), NEW b \in 1..Len(r[m + 1]), a < b
          PROVE  r[m + 1][a].n # r[m + 1][b].n /\ r[m + 1][b].at <= r[m + 1][a].at
      <4>1. a \in 1..Len(r[m])
        BY <3>3, <3>7
      <4>2. CASE b \in 1..Len(r[m])
        BY <1>10, <3>3, <3>7, <4>1, <4>2
      <4>3. CASE b = Len(r[m]) + 1
        BY <3>3, <3>6, <4>1, <4>3
      <4>. QED
        BY <3>4, <4>2, <4>3
    <3>. QED
      BY <3>5, <3>7
  <2>. QED
    BY <2>3, <2>4
<1>. DEFINE T == {m \in Nat : m <= n => Ok(m)}
<1>11. Ok(n)
  <2>1. 0 \in T
    BY <1>9
  <2>2. ASSUME NEW m \in 0..n, m \in T PROVE m + 1 \in T
    <3>. HIDE DEF Ok
    <3>0. m + 1 \in Nat
      BY <1>1
    <3> SUFFICES ASSUME m + 1 <= n PROVE Ok(m + 1)
      BY <3>0
    <3>1. m \in 0..n - 1 /\ m <= n
      BY <1>1
    <3>2. Ok(m)
      BY <2>2, <3>1
    <3>. QED
      BY <1>10, <3>1, <3>2
  <2>. HIDE DEF Ok
  <2>3. \A m \in 0..n : m \in T => m + 1 \in T
    BY <2>2
  <2>. HIDE DEF T
  <2>4. n \in T
    BY <1>1, <2>1, <2>3, Counting
  <2>. USE DEF T
  <2>. QED
    BY <1>1, <2>4
<1>. DEFINE l == ListAsyncJobs(f)
<1>12. l = r[n] /\ l \in Seq(HomeRows) /\ n \in 0..n
  BY <1>1, <1>4, <1>8
<1>13. Len(l) \in Nat /\ DOMAIN l = 1..Len(l) /\ \A a \in 1..Len(l) : l[a] \in HomeRows
  BY <1>12, LenProperties, ElementOfSeq
<1>14. /\ \A a \in 1..Len(l) : \E k \in 1..n : l[a] = HomeJob(order[k]) /\ Shows(order[k])
       /\ \A a, b \in 1..Len(l) : a < b => l[a].n # l[b].n /\ l[b].at <= l[a].at
  BY <1>11, <1>12
<1>. HIDE DEF l
<1>15. EachJobOnce(l) /\ Descending(l)
  <2>1. \A i, j \in 1..Len(l) : i # j => i < j \/ j < i
    BY <1>13
  <2>. QED
    BY <1>13, <1>14, <2>1 DEF EachJobOnce, Descending
<1>16. \A k \in DOMAIN l : f # "" => l[k].status = f
  <2> SUFFICES ASSUME NEW a \in 1..Len(l), f # "" PROVE l[a].status = f
    BY <1>13
  <2>1. PICK k \in 1..n : l[a] = HomeJob(order[k]) /\ Shows(order[k])
    BY <1>14
  <2>2. order[k] \in 1..n
    BY <1>3
  <2>. QED
    BY <1>5, <2>1, <2>2
<1>. QED
  BY <1>12, <1>15, <1>16 DEF l

(* Rows in a set, each once: as many as their numbers.                     *)
LEMMA AsManyAsRows ==
  ASSUME NEW rows \in Seq(HomeRows), EachJobOnce(rows)
  PROVE  IsFiniteSet(Range(rows)) /\ Cardinality(Range(rows)) = Len(rows)
<1>1. DOMAIN rows = 1..Len(rows) /\ Len(rows) \in Nat
  BY LenProperties
<1>2. IsFiniteSet(1..Len(rows)) /\ Cardinality(1..Len(rows)) = Len(rows)
  <2>1. 1 \in Int /\ Len(rows) \in Int
    BY <1>1
  <2>2. /\ IsFiniteSet(1..Len(rows))
        /\ Cardinality(1..Len(rows)) = IF 1 > Len(rows) THEN 0 ELSE Len(rows) - 1 + 1
    BY <2>1, FS_Interval
  <2>. QED
    BY <1>1, <2>2
<1>3. rows \in [1..Len(rows) -> Range(rows)]
  <2>1. \A k \in 1..Len(rows) : rows[k] \in Range(rows)
    BY <1>1 DEF Range
  <2>. QED
    BY <1>1, <2>1
<1>4. rows \in Surjection(1..Len(rows), Range(rows))
  BY <1>1, <1>3 DEF Surjection, Range
<1>5. rows \in Injection(1..Len(rows), Range(rows))
  BY <1>1, <1>3 DEF Injection, IsInjective, EachJobOnce
<1>. QED
  BY <1>2, <1>4, <1>5, FS_Surjection

(* The first rows of a list that does not go back to a later row are not   *)
(* older than the others.                                                  *)
LEMMA FirstRowsAreTheNewest ==
  ASSUME NEW rows \in Seq(HomeRows), Descending(rows), EachJobOnce(rows), NEW m \in 0..Len(rows)
  PROVE  /\ \A r \in Range(rows) \ Range(SubSeq(rows, 1, m)), s \in Range(SubSeq(rows, 1, m)) : r.at <= s.at
         /\ SubSeq(rows, 1, m) \in Seq(HomeRows) /\ EachJobOnce(SubSeq(rows, 1, m))
         /\ Range(SubSeq(rows, 1, m)) \subseteq Range(rows) /\ Len(SubSeq(rows, 1, m)) = m
<1>. DEFINE first == SubSeq(rows, 1, m)
<1>1. /\ first \in Seq(HomeRows) /\ Len(first) = m /\ \A k \in 1..m : first[k] = rows[k]
  BY Beginning
<1>2. /\ DOMAIN rows = 1..Len(rows) /\ Len(rows) \in Nat /\ DOMAIN first = 1..m
      /\ 1..m \subseteq 1..Len(rows) /\ \A i \in 1..Len(rows) : rows[i] \in HomeRows
  BY <1>1, LenProperties, ElementOfSeq
<1>. HIDE DEF first
<1>3. EachJobOnce(first)
  BY <1>1, <1>2 DEF EachJobOnce
<1>4. Range(first) = {rows[k] : k \in 1..m}
  BY <1>1, <1>2 DEF Range
<1>5. ASSUME NEW r \in Range(rows) \ Range(first), NEW s \in Range(first) PROVE r.at <= s.at
  <2>1. PICK i \in 1..Len(rows) : r = rows[i]
    BY <1>2 DEF Range
  <2>2. PICK k \in 1..m : s = rows[k]
    BY <1>4
  <2>3. i \notin 1..m
    BY <1>4, <2>1
  <2>4. k < i /\ k \in 1..Len(rows)
    BY <1>2, <2>3
  <2>. QED
    BY <1>2, <2>1, <2>2, <2>4 DEF Descending
<1>6. Range(first) \subseteq Range(rows)
  BY <1>2, <1>4 DEF Range
<1>. QED
  BY <1>1, <1>3, <1>5, <1>6 DEF first

(* The strip sorts: the same rows, the latest first.                       *)
LEMMA StripSorts ==
  ASSUME HomeAssumption, NEW rows \in Seq(HomeRows), EachJobOnce(rows)
  PROVE  /\ StripSorted(rows) \in Seq(HomeRows) /\ Len(StripSorted(rows)) = Len(rows)
         /\ EachJobOnce(StripSorted(rows)) /\ Descending(StripSorted(rows))
         /\ Range(StripSorted(rows)) = Range(rows)
<1>. DEFINE n == Len(rows)
            order == LatestFirst(rows)
            sorted == StripSorted(rows)
<1>1. n \in Nat /\ DOMAIN rows = 1..n /\ \A i \in 1..n : rows[i] \in HomeRows
  BY LenProperties, ElementOfSeq
<1>2. \A i \in DOMAIN rows : rows[i].at \in Int
  BY <1>1 DEF HomeRows, HomeAssumption
<1>3. /\ order \in [1..n -> 1..n]
      /\ \A j, k \in 1..n : j # k => order[j] # order[k]
      /\ \A i \in 1..n : \E k \in 1..n : order[k] = i
      /\ \A j, k \in 1..n : j < k => rows[order[k]].at <= rows[order[j]].at
  BY <1>2, LatestComeFirst
<1>4. sorted = [k \in 1..n |-> rows[order[k]]]
  BY <1>1 DEF StripSorted
<1>. HIDE DEF n, order, sorted
<1>5. sorted \in [1..n -> HomeRows] /\ \A k \in 1..n : sorted[k] = rows[order[k]] /\ order[k] \in 1..n
  BY <1>1, <1>3, <1>4
<1>6. sorted \in Seq(HomeRows) /\ Len(sorted) = n /\ DOMAIN sorted = 1..n
  BY <1>1, <1>5, TableIsSequence
<1>7. EachJobOnce(sorted)
  <2> SUFFICES ASSUME NEW i \in 1..n, NEW j \in 1..n, i # j PROVE sorted[i].n # sorted[j].n
    BY <1>6 DEF EachJobOnce
  <2>1. order[i] # order[j] /\ order[i] \in 1..n /\ order[j] \in 1..n
    BY <1>3, <1>5
  <2>2. rows[order[i]].n # rows[order[j]].n
    BY <1>1, <2>1 DEF EachJobOnce
  <2>. QED
    BY <1>5, <2>2
<1>8. Descending(sorted)
  <2> SUFFICES ASSUME NEW i \in 1..n, NEW j \in 1..n, i < j PROVE sorted[j].at <= sorted[i].at
    BY <1>6 DEF Descending
  <2>1. rows[order[j]].at <= rows[order[i]].at
    BY <1>3
  <2>2. sorted[i] = rows[order[i]] /\ sorted[j] = rows[order[j]]
    BY <1>5
  <2>. QED
    BY <2>1, <2>2
<1>9. Range(sorted) = Range(rows)
  <2>1. Range(sorted) \subseteq Range(rows)
    BY <1>1, <1>5, <1>6 DEF Range
  <2>2. ASSUME NEW r \in Range(rows) PROVE r \in Range(sorted)
    <3>1. PICK i \in 1..n : r = rows[i]
      BY <1>1 DEF Range
    <3>2. PICK k \in 1..n : order[k] = i
      BY <1>3
    <3>3. r = sorted[k]
      BY <1>5, <3>1, <3>2
    <3>. QED
      BY <1>6, <3>3 DEF Range
  <2>. QED
    BY <2>1, <2>2
<1>. QED
  BY <1>6, <1>7, <1>8, <1>9 DEF n, sorted

(* No second is reached before a job for each second but the first, so the *)
(* time of a job stays below its number; an answer has each job once, the  *)
(* latest first; and an answer for a status has only jobs of it.           *)
HomeInv ==
  /\ HomeTypeOK
  /\ Len(homeJobs) <= ListedJobs
  /\ \A n \in DOMAIN homeJobs : homeJobs[n].at < n
  /\ EachJobOnce(homeSeenJobs) /\ Descending(homeSeenJobs)
  /\ \A k \in DOMAIN homeListed : homeFilter # "" => homeListed[k].status = homeFilter

HomeSpec == HomeInit /\ [][HomeNext]_homeVars

LEMMA HomeStart == HomeInit => HomeInv
<1> SUFFICES ASSUME HomeInit PROVE HomeInv
  OBVIOUS
<1>1. ListedJobs \in Nat /\ MaxHomeOps \in Nat
  BY HomeAssumption
<1>2. \A S : <<>> \in Seq(S)
  BY EmptySeq
<1>3. /\ homeJobs \in Seq([at : 0..ListedJobs, status : HomeJobStatuses])
      /\ homeSeenJobs \in Seq(HomeRows) /\ homeListed \in Seq(HomeRows)
      /\ DOMAIN homeJobs = {} /\ DOMAIN homeSeenJobs = {} /\ DOMAIN homeListed = {} /\ Len(homeJobs) = 0
  <2>1. homeJobs = <<>> /\ homeSeenJobs = <<>> /\ homeListed = <<>>
    BY DEF HomeInit
  <2>2. DOMAIN <<>> = {} /\ Len(<<>>) = 0
    OBVIOUS
  <2>. QED
    BY <1>2, <2>1, <2>2, Zenon
<1>4. homeOps \in 0..MaxHomeOps /\ Len(homeJobs) <= ListedJobs
  <2>1. homeOps = 0 /\ Len(homeJobs) = 0
    BY <1>3 DEF HomeInit
  <2>. QED
    BY ONLY <1>1, <2>1
<1>5. HomeTypeOK
  BY <1>3, <1>4 DEF HomeInit, HomeTypeOK, HomeRows
<1>. QED
  BY <1>3, <1>4, <1>5 DEF HomeInv, EachJobOnce, Descending

LEMMA HomeStep == HomeInv /\ [HomeNext]_homeVars => HomeInv'
<1> SUFFICES ASSUME HomeInv, [HomeNext]_homeVars PROVE HomeInv'
  OBVIOUS
<1>. DEFINE Jobs == [at : 0..ListedJobs, status : HomeJobStatuses]
<1>1. ListedJobs \in Nat /\ MaxHomeOps \in Nat
  BY HomeAssumption
<1>2. /\ homeUp \in BOOLEAN /\ homeExpanded \in BOOLEAN /\ homeOps \in 0..MaxHomeOps
      /\ homeAgent \in {"none", "starting", "ready", "stopped"}
      /\ homeSeenAgent \in {"none", "starting", "ready", "stopped"}
      /\ homeJobs \in Seq(Jobs)
      /\ homeInfo \in {"loading", "answered", "error"}
      /\ homeSeenJobs \in Seq(HomeRows) /\ homeListed \in Seq(HomeRows)
      /\ homeFilter \in HomeJobStatuses \cup {"", "_all"}
  BY DEF HomeInv, HomeTypeOK, HomeRows
<1>3. /\ Len(homeJobs) <= ListedJobs
      /\ \A n \in DOMAIN homeJobs : homeJobs[n].at < n
      /\ EachJobOnce(homeSeenJobs) /\ Descending(homeSeenJobs)
      /\ \A k \in DOMAIN homeListed : homeFilter # "" => homeListed[k].status = homeFilter
  BY DEF HomeInv
<1>4. /\ Len(homeJobs) \in Nat /\ DOMAIN homeJobs = 1..Len(homeJobs)
      /\ \A n \in 1..Len(homeJobs) : homeJobs[n] \in Jobs
  BY <1>2, LenProperties, ElementOfSeq
<1>0. homeOps \in 0..MaxHomeOps /\ homeJobs \in Seq(Jobs)
  BY <1>2
<1>. DEFINE Kept == homeJobs' \in Seq(Jobs) /\ Len(homeJobs') <= ListedJobs
                    /\ \A n \in DOMAIN homeJobs' : homeJobs'[n].at < n
<1>5. CASE UNCHANGED homeVars
  BY <1>2, <1>3, <1>5 DEF homeVars, HomeInv, HomeTypeOK, HomeRows, EachJobOnce, Descending
<1>6. CASE HomeDaemon
  <2>1. Kept
    <3>1. CASE UNCHANGED homeJobs
      BY <1>2, <1>3, <3>1
    <3>2. CASE /\ Len(homeJobs) < ListedJobs
               /\ \E later \in {0, 1} :
                    homeJobs' = Append(homeJobs, [at |-> IF homeJobs = <<>> THEN 0 ELSE Last(homeJobs).at + later,
                                                  status |-> "pending"])
      <4>1. PICK at : /\ at \in 0..Len(homeJobs)
                      /\ homeJobs' = Append(homeJobs, [at |-> at, status |-> "pending"])
        <5>1. CASE homeJobs = <<>>
          BY <1>4, <3>2, <5>1
        <5>2. CASE homeJobs # <<>>
          <6>1. Len(homeJobs) \in 1..Len(homeJobs)
            <7>1. Len(homeJobs) # 0
              BY <1>2, <5>2, EmptySeq
            <7>. QED
              BY <1>4, <7>1
          <6>2. Last(homeJobs) = homeJobs[Len(homeJobs)]
            BY DEF Last
          <6>3. Last(homeJobs).at \in Nat /\ Last(homeJobs).at < Len(homeJobs)
            <7>1. Last(homeJobs) \in Jobs
              BY <1>4, <6>1, <6>2
            <7>2. homeJobs[Len(homeJobs)].at < Len(homeJobs)
              BY <1>3, <1>4, <6>1
            <7>. QED
              BY <6>2, <7>1, <7>2
          <6>4. \A later \in {0, 1} : Last(homeJobs).at + later \in 0..Len(homeJobs)
            BY <1>4, <6>3
          <6>. QED
            BY <3>2, <5>2, <6>4
        <5>. QED
          BY <5>1, <5>2
      <4>. DEFINE job == [at |-> at, status |-> "pending"]
      <4>2. job \in Jobs /\ job.at = at
        BY <1>1, <1>4, <3>2, <4>1 DEF HomeJobStatuses
      <4>3. homeJobs' = Append(homeJobs, job)
        BY <4>1
      <4>. HIDE DEF job, Jobs
      <4>7. /\ Append(homeJobs, job) \in Seq(Jobs) /\ Len(Append(homeJobs, job)) = Len(homeJobs) + 1
            /\ \A n \in 1..Len(homeJobs) : Append(homeJobs, job)[n] = homeJobs[n]
            /\ Append(homeJobs, job)[Len(homeJobs) + 1] = job
        BY ONLY <1>0, <4>2, AppendProperties
      <4>8. /\ homeJobs' \in Seq(Jobs) /\ Len(homeJobs') = Len(homeJobs) + 1
            /\ \A n \in 1..Len(homeJobs) : homeJobs'[n] = homeJobs[n]
            /\ homeJobs'[Len(homeJobs) + 1] = job
        BY <4>3, <4>7
      <4>4. DOMAIN homeJobs' = 1..Len(homeJobs) + 1
        BY <4>8, LenProperties
      <4>5. ASSUME NEW n \in 1..Len(homeJobs) + 1 PROVE homeJobs'[n].at < n
        <5>1. CASE n \in 1..Len(homeJobs)
          BY <1>3, <1>4, <4>8, <5>1
        <5>2. CASE n = Len(homeJobs) + 1
          BY <1>4, <4>1, <4>2, <4>8, <5>2
        <5>. QED
          BY <1>4, <5>1, <5>2
      <4>6. Len(homeJobs') <= ListedJobs
        BY <1>1, <1>4, <3>2, <4>8
      <4>. QED
        BY <4>4, <4>5, <4>6, <4>8
    <3>3. ASSUME NEW n \in DOMAIN homeJobs, NEW s \in {"running", "done"},
                 homeJobs' = [homeJobs EXCEPT ![n].status = s]
          PROVE  Kept
      <4>. DEFINE job == [at |-> homeJobs[n].at, status |-> s]
      <4>1. n \in 1..Len(homeJobs) /\ homeJobs[n] \in Jobs
        BY <1>4
      <4>2. job \in Jobs /\ job.at = homeJobs[n].at
        BY <4>1 DEF HomeJobStatuses
      <4>3. homeJobs' = [homeJobs EXCEPT ![n] = job]
        <5>1. [homeJobs[n] EXCEPT !.status = s] = job
          BY <4>1
        <5>. QED
          BY <3>3, <5>1
      <4>. HIDE DEF job, Jobs
      <4>7. /\ [homeJobs EXCEPT ![n] = job] \in Seq(Jobs) /\ Len([homeJobs EXCEPT ![n] = job]) = Len(homeJobs)
            /\ \A i \in 1..Len(homeJobs) : [homeJobs EXCEPT ![n] = job][i] = IF i = n THEN job ELSE homeJobs[i]
        BY ONLY <1>0, <4>1, <4>2, ExceptSeq
      <4>4. /\ homeJobs' \in Seq(Jobs) /\ Len(homeJobs') = Len(homeJobs)
            /\ \A i \in 1..Len(homeJobs) : homeJobs'[i] = IF i = n THEN job ELSE homeJobs[i]
        BY <4>3, <4>7
      <4>5. DOMAIN homeJobs' = 1..Len(homeJobs)
        BY <4>4, LenProperties
      <4>6. \A i \in 1..Len(homeJobs) : homeJobs'[i].at < i
        BY <1>3, <1>4, <4>2, <4>4
      <4>. QED
        BY <1>3, <4>4, <4>5, <4>6
    <3>. HIDE DEF Kept
    <3>. QED
      BY <1>6, <3>1, <3>2, <3>3 DEF HomeDaemon
  <2>2. homeUp' \in BOOLEAN /\ homeAgent' \in {"none", "starting", "ready", "stopped"}
    BY <1>2, <1>6 DEF HomeDaemon
  <2>3. homeOps' \in 0..MaxHomeOps
    <3>1. homeOps < MaxHomeOps /\ homeOps' = homeOps + 1
      BY <1>6 DEF HomeDaemon, CountHomeOp
    <3>. QED
      BY ONLY <1>0, <1>1, <3>1
  <2>4. UNCHANGED <<homeInfo, homeSeenAgent, homeSeenJobs, homeFilter, homeListed, homeExpanded>>
    BY <1>6 DEF HomeDaemon
  <2>. QED
    BY <1>2, <1>3, <2>1, <2>2, <2>3, <2>4 DEF HomeInv, HomeTypeOK, HomeRows, EachJobOnce, Descending
<1>7. CASE FetchInfo
  BY <1>2, <1>3, <1>7 DEF FetchInfo, HomeInv, HomeTypeOK, HomeRows, EachJobOnce, Descending
<1>8. CASE FetchLists
  <2>1. /\ homeSeenJobs' \in Seq(HomeRows)
        /\ EachJobOnce(homeSeenJobs)' /\ Descending(homeSeenJobs)'
    <3>1. homeSeenJobs' = ListAsyncJobs("")
      BY <1>8 DEF FetchLists
    <3>2. /\ ListAsyncJobs("") \in Seq(HomeRows)
          /\ EachJobOnce(ListAsyncJobs("")) /\ Descending(ListAsyncJobs(""))
      BY <1>2, <1>3, HomeAssumption, ListedRows
    <3>. QED
      BY <3>1, <3>2 DEF EachJobOnce, Descending
  <2>. QED
    BY <1>2, <1>3, <1>8, <2>1 DEF FetchLists, HomeInv, HomeTypeOK, HomeRows
<1>9. CASE FetchFiltered
  <2>1. homeListed' = ListAsyncJobs(homeFilter)
    BY <1>9 DEF FetchFiltered
  <2>2. /\ ListAsyncJobs(homeFilter) \in Seq(HomeRows)
        /\ \A k \in DOMAIN ListAsyncJobs(homeFilter) :
             homeFilter # "" => ListAsyncJobs(homeFilter)[k].status = homeFilter
    BY <1>2, <1>3, HomeAssumption, ListedRows
  <2>3. /\ homeListed' \in Seq(HomeRows)
        /\ \A k \in DOMAIN homeListed' : homeFilter # "" => homeListed'[k].status = homeFilter
    BY <2>1, <2>2
  <2>. QED
    BY <1>2, <1>3, <1>9, <2>3 DEF FetchFiltered, HomeInv, HomeTypeOK, HomeRows, EachJobOnce, Descending
<1>10. ASSUME NEW f \in HomeJobStatuses \cup {"_all"}, PickFilter(f) PROVE HomeInv'
  <2>1. homeListed' \in Seq(HomeRows) /\ DOMAIN homeListed' = {}
    BY <1>10, EmptySeq DEF PickFilter
  <2>. QED
    BY <1>2, <1>3, <1>10, <2>1 DEF PickFilter, HomeInv, HomeTypeOK, HomeRows, EachJobOnce, Descending
<1>11. CASE ToggleStrip
  BY <1>2, <1>3, <1>11 DEF ToggleStrip, HomeInv, HomeTypeOK, HomeRows, EachJobOnce, Descending
<1>. QED
  BY <1>5, <1>6, <1>7, <1>8, <1>9, <1>10, <1>11 DEF HomeNext

LEMMA HomeInvHolds == HomeSpec => []HomeInv
BY HomeStart, HomeStep, PTL DEF HomeSpec

(* The answers that the overview keeps are rows of the daemon's jobs, under *)
(* whatever filter and at whatever time they were asked for                *)
(* (app/page.tsx, jobs/page.tsx, session-jobs-strip.tsx).                  *)
THEOREM HomeTypeHolds == HomeSpec => []HomeTypeOK
<1>1. HomeInv => HomeTypeOK
  BY DEF HomeInv
<1>. QED
  BY <1>1, HomeInvHolds, PTL

(* Whatever was answered in whatever order, the short lists leave out the  *)
(* oldest only, and the strip says how many (session-jobs-strip.tsx,       *)
(* app/page.tsx).                                                          *)
THEOREM ShortListsHold == HomeSpec => []ShortListsAreTheNewest
<1>1. HomeInv => ShortListsAreTheNewest
  <2> SUFFICES ASSUME HomeInv PROVE ShortListsAreTheNewest
    OBVIOUS
  <2>. DEFINE seen == homeSeenJobs
              sorted == StripSorted(homeSeenJobs)
              recent == IF Len(seen) < RecentSize THEN Len(seen) ELSE RecentSize
              size == IF homeExpanded \/ Len(sorted) <= StripSize THEN Len(sorted) ELSE StripSize
  <2>1. seen \in Seq(HomeRows) /\ EachJobOnce(seen) /\ Descending(seen)
    BY DEF HomeInv, HomeTypeOK, HomeRows
  <2>2. Len(seen) \in Nat /\ RecentSize \in Nat \ {0} /\ StripSize \in Nat
    BY <2>1, LenProperties, HomeAssumption
  <2>3. /\ sorted \in Seq(HomeRows) /\ Len(sorted) = Len(seen) /\ EachJobOnce(sorted)
        /\ Descending(sorted) /\ Range(sorted) = Range(seen)
    BY <2>1, HomeAssumption, StripSorts
  <2>. HIDE DEF sorted
  <2>4. recent \in 0..Len(seen) /\ size \in 0..Len(sorted)
    BY <2>2, <2>3
  <2>5. StripVisible = SubSeq(sorted, 1, size)
    <3>1. SubSeq(sorted, 1, Len(sorted)) = sorted
      BY <2>3, SubSeqFull
    <3>. QED
      BY <3>1 DEF StripVisible, sorted
  <2>6. RecentJobs = SubSeq(seen, 1, recent)
    BY DEF RecentJobs
  <2>. HIDE DEF recent, size
  <2>7. \A r \in Range(seen) \ Range(RecentJobs), s \in Range(RecentJobs) : r.at <= s.at
    BY <2>1, <2>4, <2>6, FirstRowsAreTheNewest
  <2>8. /\ \A r \in Range(sorted) \ Range(StripVisible), s \in Range(StripVisible) : r.at <= s.at
        /\ StripVisible \in Seq(HomeRows) /\ EachJobOnce(StripVisible)
        /\ Range(StripVisible) \subseteq Range(sorted)
    BY <2>3, <2>4, <2>5, FirstRowsAreTheNewest
  <2>9. Cardinality(StripHidden) + Len(StripVisible) = Len(seen)
    <3>1. IsFiniteSet(Range(seen)) /\ Cardinality(Range(seen)) = Len(seen)
      BY <2>1, AsManyAsRows
    <3>2. IsFiniteSet(Range(StripVisible)) /\ Cardinality(Range(StripVisible)) = Len(StripVisible)
      BY <2>8, AsManyAsRows
    <3>3. Range(seen) \cap Range(StripVisible) = Range(StripVisible)
      BY <2>3, <2>8
    <3>4. Cardinality(StripHidden) = Cardinality(Range(seen)) - Cardinality(Range(seen) \cap Range(StripVisible))
      BY <3>1, FS_Difference DEF StripHidden
    <3>5. Len(StripVisible) \in Nat
      BY <2>8, LenProperties
    <3>6. Cardinality(StripHidden) = Len(seen) - Len(StripVisible)
      BY <3>1, <3>2, <3>3, <3>4
    <3>. HIDE DEF seen
    <3>. QED
      BY <2>2, <3>5, <3>6
  <2>. QED
    BY <2>3, <2>7, <2>8, <2>9 DEF ShortListsAreTheNewest, StripHidden
<1>. QED
  BY <1>1, HomeInvHolds, PTL

(* What is drawn from one answer agrees; no row is listed that the filter  *)
(* does not ask for, and none at all once "All statuses" is picked again   *)
(* (app/page.tsx, resource-stats.tsx, jobs/page.tsx).                      *)
THEOREM HomeAddsUpHolds == HomeSpec => []HomeAddsUp
<1>1. HomeInv => HomeAddsUp
  <2> SUFFICES ASSUME HomeInv PROVE HomeAddsUp
    OBVIOUS
  <2>1. homeSeenJobs \in Seq(HomeRows) /\ homeListed \in Seq(HomeRows)
    BY DEF HomeInv, HomeTypeOK, HomeRows
  <2>2. Len(homeSeenJobs) \in Nat /\ RecentSize \in Nat \ {0}
    BY <2>1, LenProperties, HomeAssumption
  <2>3. AgentsPage = "cards" <=> ResourceStats.agents = 1
    BY DEF AgentsPage, ResourceStats
  <2>4. DaemonStatus = "Daemon" <=> HealthBadge = "Healthy"
    BY DEF DaemonStatus, HealthBadge, HomeInv, HomeTypeOK
  <2>5. RecentJobs = <<>> <=> homeSeenJobs = <<>>
    <3>. DEFINE m == IF Len(homeSeenJobs) < RecentSize THEN Len(homeSeenJobs) ELSE RecentSize
    <3>1. m \in 0..Len(homeSeenJobs) /\ (m = 0 <=> Len(homeSeenJobs) = 0)
      BY <2>2
    <3>2. RecentJobs = SubSeq(homeSeenJobs, 1, m)
      BY DEF RecentJobs
    <3>. HIDE DEF m
    <3>3. RecentJobs \in Seq(HomeRows) /\ Len(RecentJobs) = m
      BY <2>1, <3>1, <3>2, Beginning
    <3>. QED
      BY <2>1, <3>1, <3>3, EmptySeq
  <2>6. JobsTable(RecentJobs) = JobsTable(homeSeenJobs)
    BY <2>5 DEF JobsTable
  <2>7. JobsPage.rows = homeListed /\ DOMAIN homeListed = 1..Len(homeListed) /\ Len(homeListed) \in Nat
        /\ \A k \in DOMAIN homeListed : homeListed[k] \in HomeRows
    BY <2>1, LenProperties, ElementOfSeq DEF JobsPage
  <2>8. \A r \in Range(JobsPage.rows) : homeFilter \in {"", r.status}
    BY <2>7 DEF Range, HomeInv
  <2>9. homeFilter = "_all" => JobsTable(JobsPage.rows) = "No jobs yet"
    <3> SUFFICES ASSUME homeFilter = "_all" PROVE homeListed = <<>>
      BY <2>7 DEF JobsTable
    <3>1. \A k \in DOMAIN homeListed : homeListed[k].status = "_all" /\ homeListed[k].status \in HomeJobStatuses
      BY <2>7 DEF HomeInv, HomeRows
    <3>2. "_all" \notin HomeJobStatuses
      BY DEF HomeJobStatuses
    <3>3. Len(homeListed) = 0
      BY <2>7, <3>1, <3>2
    <3>. QED
      BY <2>1, <3>3, EmptySeq
  <2>. QED
    BY <2>3, <2>4, <2>6, <2>8, <2>9 DEF HomeAddsUp
<1>. QED
  BY <1>1, HomeInvHolds, PTL
=============================================================================

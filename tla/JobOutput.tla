------------------------------ MODULE JobOutput ------------------------------
(***************************************************************************)
(* The output of one running job on its way into the stdout column: the    *)
(* executor writes into a streamSink, the sink's goroutine flushes it into *)
(* the row on a ticker, and runOne closes the sink and makes the row       *)
(* terminal with the output the executor captured.  stderr has a sink and  *)
(* a column of its own and takes the same steps.                           *)
(*                                                                         *)
(* The n-th byte the BIN writes is the number n, so that a text shows what *)
(* was lost, repeated or reordered in it.                                  *)
(*                                                                         *)
(* Sources: internal/asyncjobs/stream.go; store.go (AppendStdout, MarkDone,*)
(* MarkError, MarkCancelled, MarkOrphaned); pool.go (runOne).              *)
(***************************************************************************)
EXTENDS Naturals, Sequences, SequencesExt

CONSTANTS
  MaxBytes,     (* bound: how much the BIN writes                          *)
  MaxFailures   (* bound: how many append statements fail                  *)

ASSUME JobOutputAssumption == MaxBytes \in Nat /\ MaxFailures \in Nat

VARIABLES
  binWritten,   (* how many bytes the BIN has written                      *)
  sinkBuf,      (* streamSink.buf                                          *)
  sinkChunk,    (* flushOnce's local chunk, of run and of Close            *)
  sinkRun,      (* where the goroutine of run is; "gone" is stopped closed *)
  runAt,        (* where runOne is, from Exec on; "over" when it returned  *)
  execResult,   (* how Exec ended, and the output it captured              *)
  jobStatus,    (* status column                                           *)
  jobStdout,    (* stdout column                                           *)
  appendFailures  (* how many appends failed                               *)

sinkVars == <<sinkBuf, sinkChunk, sinkRun>>
outputVars == <<binWritten, sinkBuf, sinkChunk, sinkRun, runAt, execResult, jobStatus, jobStdout, appendFailures>>

TerminalStatus == {"done", "error", "cancelled", "orphaned"}

BinText(n) == [i \in 1..n |-> i]

Outcome == {"ok", "failed", "canceled"}

OutputInit ==
  /\ binWritten = 0
  /\ sinkBuf = <<>>
  /\ sinkChunk = [f \in {"run", "close"} |-> <<>>]
  /\ sinkRun = "wait"
  /\ runAt = "exec"
  /\ execResult = [end |-> "none", text |-> <<>>]
  /\ jobStatus = "running"
  /\ jobStdout = <<>>
  /\ appendFailures = 0

-----------------------------------------------------------------------------
(* streamSink.Write, called by the executor until Exec returns.            *)
BinWrite ==
  /\ runAt = "exec"
  /\ binWritten < MaxBytes
  /\ binWritten' = binWritten + 1
  /\ sinkBuf' = Append(sinkBuf, binWritten + 1)
  /\ UNCHANGED <<sinkChunk, sinkRun, runAt, execResult, jobStatus, jobStdout, appendFailures>>

(* flushOnce's critical section: the buffer is swapped for an empty one.   *)
Swap(f) ==
  /\ sinkChunk' = [sinkChunk EXCEPT ![f] = sinkBuf]
  /\ sinkBuf' = <<>>

(* UPDATE ... SET stdout = stdout || chunk WHERE status = 'running'.       *)
AppendToRow(f) ==
  /\ jobStdout' = IF jobStatus = "running" THEN jobStdout \o sinkChunk[f] ELSE jobStdout
  /\ sinkChunk' = [sinkChunk EXCEPT ![f] = <<>>]

(* The statement fails; the error is logged and the chunk dropped.         *)
AppendFails(f) ==
  /\ appendFailures < MaxFailures
  /\ appendFailures' = appendFailures + 1
  /\ sinkChunk' = [sinkChunk EXCEPT ![f] = <<>>]
  /\ UNCHANGED jobStdout

(* Mutant: a tick waits until there is enough to write.                    *)
TickLazy ==
  /\ sinkRun = "wait"
  /\ Len(sinkBuf) > 1
  /\ sinkRun' = "append"
  /\ Swap("run")
  /\ UNCHANGED <<binWritten, runAt, execResult, jobStatus, jobStdout, appendFailures>>

(* run: the ticker fires and there is something to flush.                  *)
Tick ==
  /\ sinkRun = "wait"
  /\ sinkBuf # <<>>
  /\ sinkRun' = "append"
  /\ Swap("run")
  /\ UNCHANGED <<binWritten, runAt, execResult, jobStatus, jobStdout, appendFailures>>

FlushTick ==
  /\ sinkRun = "append"
  /\ sinkRun' = "wait"
  /\ (AppendToRow("run") /\ UNCHANGED appendFailures) \/ AppendFails("run")
  /\ UNCHANGED <<binWritten, sinkBuf, runAt, execResult, jobStatus>>

(* run: stop is closed.                                                    *)
StopFlusher ==
  /\ sinkRun = "wait"
  /\ runAt = "closing"
  /\ sinkRun' = "gone"
  /\ UNCHANGED <<binWritten, sinkBuf, sinkChunk, runAt, execResult, jobStatus, jobStdout, appendFailures>>

(* Exec returns and Close closes stop.  The executor's captured text may   *)
(* be behind what the sink was given.                                      *)
ExecReturn ==
  /\ runAt = "exec"
  /\ runAt' = "closing"
  /\ \E end \in Outcome, n \in 0..binWritten :
       execResult' = [end |-> end, text |-> BinText(n)]
  /\ UNCHANGED <<binWritten, sinkVars, jobStatus, jobStdout, appendFailures>>

(* Mutant: Close does not wait for the goroutine.                          *)
CloseFlushEager ==
  /\ runAt = "closing"
  /\ runAt' = IF sinkBuf = <<>> THEN "finish" ELSE "tail"
  /\ Swap("close")
  /\ UNCHANGED <<binWritten, sinkRun, execResult, jobStatus, jobStdout, appendFailures>>

(* Close has received from stopped and flushes the tail.                   *)
CloseFlush ==
  /\ runAt = "closing"
  /\ sinkRun = "gone"
  /\ runAt' = IF sinkBuf = <<>> THEN "finish" ELSE "tail"
  /\ Swap("close")
  /\ UNCHANGED <<binWritten, sinkRun, execResult, jobStatus, jobStdout, appendFailures>>

CloseTail ==
  /\ runAt = "tail"
  /\ runAt' = "finish"
  /\ (AppendToRow("close") /\ UNCHANGED appendFailures) \/ AppendFails("close")
  /\ UNCHANGED <<binWritten, sinkBuf, sinkRun, execResult, jobStatus>>

(* Mutant: the captured text always overwrites the column.                 *)
FinalTextCaptured == execResult.text

(* CASE WHEN length(captured) >= length(stdout).                           *)
FinalText == IF Len(execResult.text) >= Len(jobStdout) THEN execResult.text ELSE jobStdout

(* MarkDone, MarkError or MarkCancelled; a deleted row is not found.       *)
FinishJob ==
  /\ runAt = "finish"
  /\ runAt' = "over"
  /\ IF jobStatus = "running"
       THEN /\ jobStatus' = CASE execResult.end = "ok"     -> "done"
                           [] execResult.end = "failed" -> "error"
                           [] OTHER                 -> "cancelled"
            /\ jobStdout' = IF execResult.end = "failed" THEN jobStdout ELSE FinalText
       ELSE UNCHANGED <<jobStatus, jobStdout>>
  /\ UNCHANGED <<binWritten, sinkVars, execResult, appendFailures>>

(* DeleteByAgent, or the cascade of the agent's row.                       *)
DeleteRow ==
  /\ jobStatus # "deleted"
  /\ jobStatus' = "deleted"
  /\ jobStdout' = <<>>
  /\ UNCHANGED <<binWritten, sinkVars, runAt, execResult, appendFailures>>

(* The daemon dies: goroutines and buffers are lost.                       *)
DaemonCrash ==
  /\ runAt # "over"
  /\ runAt' = "over"
  /\ sinkRun' = "gone"
  /\ sinkBuf' = <<>>
  /\ sinkChunk' = [f \in {"run", "close"} |-> <<>>]
  /\ UNCHANGED <<binWritten, execResult, jobStatus, jobStdout, appendFailures>>

(* Boot's MarkOrphaned, after a crash.                                     *)
MarkOrphaned ==
  /\ runAt = "over"
  /\ jobStatus = "running"
  /\ jobStatus' = "orphaned"
  /\ UNCHANGED <<binWritten, sinkVars, runAt, execResult, jobStdout, appendFailures>>

-----------------------------------------------------------------------------
(* Steps of the sink's goroutine and of runOne, from Exec's return on.     *)
Flusher == Tick \/ FlushTick \/ StopFlusher
Closer  == CloseFlush \/ CloseTail \/ FinishJob

-----------------------------------------------------------------------------
(* The sets every variable stays in.                                       *)
OutputTypeOK ==
  /\ binWritten \in 0..MaxBytes
  /\ sinkBuf \in Seq(1..MaxBytes)
  /\ sinkChunk \in [{"run", "close"} -> Seq(1..MaxBytes)]
  /\ sinkRun \in {"wait", "append", "gone"}
  /\ runAt \in {"exec", "closing", "tail", "finish", "over"}
  /\ execResult \in [end : Outcome \cup {"none"}, text : Seq(1..MaxBytes)]
  /\ jobStatus \in TerminalStatus \cup {"running", "deleted"}
  /\ jobStdout \in Seq(1..MaxBytes)
  /\ appendFailures \in 0..MaxFailures

(* What an observer reads is the BIN's output in order, nothing repeated,  *)
(* although a ticker flush may be in flight when Close flushes the tail;   *)
(* bytes are missing only where an append failed.                          *)
InOrder ==
  /\ \A i, k \in DOMAIN jobStdout : i < k => jobStdout[i] < jobStdout[k]
  /\ appendFailures = 0 => jobStdout = BinText(Len(jobStdout))

(* Once the job has ended and no append failed, the column holds all the   *)
(* BIN wrote, however far behind the executor's captured text is.          *)
NothingLost ==
  jobStatus \in {"done", "error", "cancelled"} /\ appendFailures = 0
    => jobStdout = BinText(binWritten)

(* Both: the column is a faithful copy of the output.                      *)
OutputIntact == InOrder /\ NothingLost

(* The column never gets shorter, and without a failed append it is only   *)
(* ever extended: an observer never sees output disappear.                 *)
NeverShrinks ==
  [][jobStatus' # "deleted" =>
       /\ Len(jobStdout') >= Len(jobStdout)
       /\ appendFailures = 0 => IsPrefix(jobStdout, jobStdout')]_outputVars

(* While the job runs, what it wrote becomes visible without waiting for   *)
(* its end, unless an append fails.                                        *)
VisibleSoon ==
  \A n \in 1..MaxBytes :
    []<>(binWritten >= n =>
           \/ Len(jobStdout) >= n \/ appendFailures > 0
           \/ jobStatus # "running" \/ runAt = "over")
=============================================================================

------------------------------- MODULE JobWatch -------------------------------
(***************************************************************************)
(* WatchAsyncJob beside the job it watches: the handler reads the row on a *)
(* ticker, sends a snapshot when something changed, and ends the stream    *)
(* with the terminal one.  Of a snapshot's fields the status and the       *)
(* output are kept.                                                        *)
(*                                                                         *)
(* Source: internal/asyncjobs_handlers.go.                                 *)
(***************************************************************************)
EXTENDS JobOutput

VARIABLES
  watchAt,      (* where the handler is, or how the stream ended           *)
  watchSeen     (* the last snapshot sent                                  *)

watchVars == <<watchAt, watchSeen>>
watchedVars   == <<outputVars, watchVars>>

JobRow == [status |-> jobStatus, stdout |-> jobStdout]

IsTerminal(s) == s \in TerminalStatus

MateriallyChanged(a, b) == a # b

WatchInit ==
  /\ OutputInit
  /\ watchAt = "idle"
  /\ watchSeen = [status |-> "none", stdout |-> <<>>]

(* The snapshot r is sent, and the stream ended if the job is.             *)
SendSnapshot(r) ==
  /\ watchSeen' = r
  /\ watchAt' = IF IsTerminal(r.status) THEN "closed" ELSE "watching"

(* The first Get: NotFound, or a snapshot at once.                         *)
StartWatch ==
  /\ watchAt = "idle"
  /\ runAt # "over" \/ jobStatus # "running"
  /\ IF jobStatus = "deleted"
       THEN watchAt' = "not found" /\ UNCHANGED watchSeen
       ELSE SendSnapshot(JobRow)
  /\ UNCHANGED outputVars

(* A tick that finds the row gone, or changed; one that finds it as it was *)
(* does nothing.                                                           *)
WatchTick ==
  /\ watchAt = "watching"
  /\ \/ /\ jobStatus = "deleted"
        /\ watchAt' = "not found"
        /\ UNCHANGED watchSeen
     \/ /\ jobStatus # "deleted"
        /\ MateriallyChanged(watchSeen, JobRow)
        /\ SendSnapshot(JobRow)
  /\ UNCHANGED outputVars

(* The client goes away, or a send fails.                                  *)
Disconnect ==
  /\ watchAt = "watching"
  /\ watchAt' = "left"
  /\ UNCHANGED <<outputVars, watchSeen>>

(* A step of the job; the stream does not survive a crash of the daemon.   *)
WatchedJobStep ==
  \/ /\ BinWrite \/ ExecReturn \/ Flusher \/ Closer \/ DeleteRow \/ MarkOrphaned
     /\ UNCHANGED watchVars
  \/ /\ DaemonCrash
     /\ watchAt' = IF watchAt = "watching" THEN "left" ELSE watchAt
     /\ UNCHANGED watchSeen

WatchNext == StartWatch \/ WatchTick \/ Disconnect \/ WatchedJobStep

-----------------------------------------------------------------------------
(* A stream that ends without an error ended on the whole truth: the last  *)
(* snapshot sent is terminal and is what the row says for ever after,      *)
(* unless the row is deleted.                                              *)
ClosesOnTheResult ==
  watchAt = "closed" =>
    /\ IsTerminal(watchSeen.status)
    /\ jobStatus # "deleted" => watchSeen = JobRow

(* Successive snapshots only ever add output while no append fails, and    *)
(* none follows a terminal one.                                            *)
SnapshotsGrow ==
  [][watchSeen' # watchSeen /\ watchSeen.status # "none" =>
       /\ ~IsTerminal(watchSeen.status)
       /\ Len(watchSeen'.stdout) >= Len(watchSeen.stdout)
       /\ appendFailures = 0 => IsPrefix(watchSeen.stdout, watchSeen'.stdout)]_watchedVars

(* Neither a reader of the row nor a watcher sees output taken back.       *)
OutputGrows == NeverShrinks /\ SnapshotsGrow
=============================================================================

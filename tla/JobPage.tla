-------------------------------- MODULE JobPage --------------------------------
(***************************************************************************)
(* The page of one job, beside the job's output and a watch of it: it      *)
(* repeats GetAsyncJob until the answer is terminal.                       *)
(*                                                                         *)
(* Source: app/app/jobs/[job]/view.tsx; internal/asyncjobs_handlers.go.    *)
(***************************************************************************)
EXTENDS JobWatch

VARIABLES
  jobSeen,       (* the last row answered; its status is "none" before     *)
  jobMissing,    (* the last answer was an error                           *)
  jobCancelling  (* the cancel mutation is under way                       *)

jobPageOnly == <<jobSeen, jobMissing, jobCancelling>>
jobPageVars == <<watchedVars, jobPageOnly>>

JobPageInit ==
  /\ WatchInit
  /\ jobSeen = [status |-> "none", stdout |-> <<>>]
  /\ jobMissing = FALSE
  /\ jobCancelling = FALSE

-----------------------------------------------------------------------------
(* What is drawn: an error hides the row of an earlier answer.             *)
JobShown ==
  CASE jobMissing                                    -> "Failed to load job"
    [] jobSeen.status = "none" /\ ~jobMissing        -> "Loading job"
    [] jobSeen.status # "none" /\ ~jobMissing        -> "job"

CancelOffered == JobShown = "job" /\ ~IsTerminal(jobSeen.status) /\ ~jobCancelling

(* An empty pane of a job that has ended says so.                          *)
LogStream ==
  CASE jobSeen.stdout # <<>>                                    -> "text"
    [] jobSeen.stdout = <<>> /\ IsTerminal(jobSeen.status)      -> "no output"
    [] jobSeen.stdout = <<>> /\ ~IsTerminal(jobSeen.status)     -> "streaming"

-----------------------------------------------------------------------------
(* Mutant: a row that was shown once is not asked for again.               *)
PollsJobOnce == jobSeen.status = "none"

(* Mutant: the page stops once there is something to show.                 *)
PollsJobUntilShown == jobSeen.stdout = <<>> /\ ~IsTerminal(jobSeen.status)

(* refetchInterval: the last row answered decides, an error does not.      *)
PollsJob == ~IsTerminal(jobSeen.status)

(* The pane of a tool row of the chat reads the same cached row, with a    *)
(* list of final statuses of its own; it never says that nothing was       *)
(* written.                                                                *)
PollsLiveJob == jobSeen.status \notin {"done", "error", "cancelled", "orphaned"}
LiveJobLogs == IF jobSeen.stdout # <<>> THEN "text" ELSE "streaming"

(* Between a crash of the daemon and the orphans of its next boot a        *)
(* request may find nobody.                                                *)
MayBeDown == runAt = "over" /\ jobStatus = "running"

FetchJob ==
  /\ PollsJob
  /\ \/ /\ jobStatus = "deleted" \/ MayBeDown
        /\ jobMissing' = TRUE
        /\ UNCHANGED jobSeen
     \/ /\ jobStatus # "deleted"
        /\ jobMissing' = FALSE
        /\ jobSeen' = JobRow
  /\ UNCHANGED <<watchedVars, jobCancelling>>

(* Cancel asks the pool to cancel; whether Exec ends canceled or by itself *)
(* is the job's affair.                                                    *)
AskCancel ==
  /\ CancelOffered
  /\ jobCancelling' = TRUE
  /\ UNCHANGED <<watchedVars, jobSeen, jobMissing>>

(* A pool that no longer has the job answers with an error; the page waits *)
(* for its next poll in both cases.                                        *)
CancelAnswered ==
  /\ jobCancelling
  /\ jobCancelling' = FALSE
  /\ UNCHANGED <<watchedVars, jobSeen, jobMissing>>

-----------------------------------------------------------------------------
JobPageNext ==
  \/ WatchNext /\ UNCHANGED jobPageOnly
  \/ FetchJob \/ AskCancel \/ CancelAnswered

-----------------------------------------------------------------------------
(* The sets the page's variables stay in.                                  *)
JobPageTypeOK ==
  /\ OutputTypeOK
  /\ jobSeen \in [status : TerminalStatus \cup {"none", "running"}, stdout : Seq(1..MaxBytes)]
  /\ jobMissing \in BOOLEAN /\ jobCancelling \in BOOLEAN

(* An observer that stops looking by itself has seen the whole truth: the  *)
(* watcher's last snapshot and the row the pages keep are what the row     *)
(* says for ever after, unless the row is deleted; and the page says of a  *)
(* job that it wrote nothing only if it did, unless an append failed or    *)
(* the daemon went down under it.                                          *)
ObserversSeeTheEnd ==
  /\ ClosesOnTheResult
  /\ (~(PollsJob /\ PollsLiveJob) /\ jobStatus # "deleted") => jobSeen = JobRow
  /\ LiveJobLogs = "streaming" <=> LogStream \in {"streaming", "no output"}
  /\ (LogStream = "no output" /\ appendFailures = 0 /\ jobSeen.status # "orphaned")
       => binWritten = 0

(* A job that has ended is known to have: the sink is closed, the watcher  *)
(* is told, and the page shows the end or that the job is gone.            *)
EndIsKnown ==
  /\ runAt \in {"exec", "over"}
  /\ watchAt = "watching" => jobStatus = "running"
  /\ jobStatus # "running" => IsTerminal(jobSeen.status) \/ jobMissing
=============================================================================

---------------------------- MODULE JobLifecycle ----------------------------
(***************************************************************************)
(* What the record of an asynchronous job promises to whoever polls it:    *)
(* the life of one row of the async_jobs table, without goroutines,        *)
(* semaphore or restarts.  A job is inserted pending, claimed once, and     *)
(* ends in exactly one terminal status, which it keeps until the row is    *)
(* deleted together with its agent.  Its BIN is launched at most once, and *)
(* only on behalf of a claimed job.                                        *)
(*                                                                         *)
(* Source: internal/asyncjobs/store.go (Status, IsTerminal, Mark methods).     *)
(***************************************************************************)
CONSTANT Job

VARIABLES
  status,     (* status column of each job's row, or "none" / "deleted"    *)
  launched    (* jobs whose BIN was ever started                           *)

lifeVars == <<status, launched>>

Terminal == {"done", "error", "cancelled", "orphaned"}

LifeInit ==
  /\ status = [j \in Job |-> "none"]
  /\ launched = {}

Move(j, from, to) ==
  /\ status[j] \in from
  /\ \E s \in to : status' = [status EXCEPT ![j] = s]
  /\ UNCHANGED launched

Insert(j) == Move(j, {"none"}, {"pending"})

Claim(j) == Move(j, {"pending"}, {"running"})

(* An error needs no claim: the agent may be unavailable at dispatch.      *)
Fail(j) == Move(j, {"pending", "running"}, {"error"})

Finish(j) == Move(j, {"running"}, {"done", "cancelled"})

(* The agent may be removed between the claim and the launch: the row is   *)
(* gone and the BIN still starts.                                          *)
Launch(j) ==
  /\ status[j] \in {"running", "deleted"}
  /\ j \notin launched
  /\ launched' = launched \cup {j}
  /\ UNCHANGED status

(* A restarted daemon gives up every job that was running, in one UPDATE.  *)
Orphan ==
  /\ status' = [j \in Job |-> IF status[j] = "running" THEN "orphaned" ELSE status[j]]
  /\ UNCHANGED launched

(* The jobs of a removed agent disappear together, whatever their status.  *)
Delete(S) ==
  /\ \A j \in S : status[j] # "none"
  /\ status' = [j \in Job |-> IF j \in S THEN "deleted" ELSE status[j]]
  /\ UNCHANGED launched

LifeNext ==
  \/ \E j \in Job : Insert(j) \/ Claim(j) \/ Fail(j) \/ Finish(j) \/ Launch(j)
  \/ Orphan
  \/ \E S \in SUBSET Job : Delete(S)

LifeSpec == LifeInit /\ [][LifeNext]_lifeVars
=============================================================================

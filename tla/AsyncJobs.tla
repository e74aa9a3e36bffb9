------------------------------ MODULE AsyncJobs ------------------------------
(***************************************************************************)
(* The asynchronous-job dispatcher of ottersd: the async_jobs table, the   *)
(* goroutine that Pool.dispatch starts for each job, the semaphore, the    *)
(* cancels map, the boot replay, the shutdown and the removal of an agent, *)
(* under process crashes and restarts.                                     *)
(*                                                                         *)
(* Each action is one access to state that another goroutine, another      *)
(* request or a crash can see: one SQL statement, one sync.Map or channel  *)
(* operation, one lookup in the agent pool.                                *)
(*                                                                         *)
(* Sources: internal/asyncjobs/pool.go, internal/asyncjobs/store.go,       *)
(* internal/asyncjobs_handlers.go, internal/daemon.go (Restore, Stop,      *)
(* Start, Remove), cmd/ottersd/commands/serve.go (order of boot and        *)
(* shutdown).                                                              *)
(***************************************************************************)
EXTENDS Naturals, FiniteSets

CONSTANTS
  Job,            (* job ids; an id names one job for ever (uuid)          *)
  Agent,          (* agents present in the agents table at the start       *)
  AgentOf,        (* agent_id of each job                                  *)
  MaxConcurrent,  (* capacity of Pool.sem                                  *)
  ReplayLimit,    (* limit Boot passes to ListPending                      *)
  ForeignKeys,    (* whether SQLite enforces foreign keys                  *)
  MaxBoots        (* bound: how often the daemon is started                *)

ASSUME AsyncJobsAssumption ==
  /\ IsFiniteSet(Job)
  /\ AgentOf \in [Job -> Agent]
  /\ MaxConcurrent \in Nat \ {0}
  /\ ReplayLimit \in Nat \ {0}
  /\ ForeignKeys \in BOOLEAN
  /\ MaxBoots \in Nat

VARIABLES
  (* on disk: survives a crash *)
  row,        (* status column of each job, "none" before, "deleted" after *)
  removal,    (* progress of Daemon.Remove: "kept", "jobs", "row", "gone"  *)
  stopped,    (* agents whose persisted status is stopped                  *)
  (* in memory *)
  phase,      (* where the daemon process is                               *)
  boots,      (* how many times it was started                             *)
  restoring,  (* agents whose runNew has not registered them yet           *)
  live,       (* keys of the supervision pool's agents map                 *)
  pc,         (* where each job's submit handler, then goroutine, is       *)
  sem,        (* slots taken: len(Pool.sem)                                *)
  cancels,    (* keys of Pool.cancels                                      *)
  cancelled,  (* jobs whose jobCtx is cancelled                            *)
  result,     (* what agent.Exec returned                                  *)
  replay,     (* pending rows Boot has listed and not dispatched yet       *)
  todo,       (* keys Shutdown's Range still has to visit                  *)
  (* history *)
  launches    (* how many times each job's BIN was started                 *)

disk   == <<row, removal, stopped>>
agents == <<removal, stopped, restoring, live>>
daemon == <<phase, boots, replay, todo>>
vars   == <<row, removal, stopped, phase, boots, restoring, live, pc, sem,
            cancels, cancelled, result, replay, todo, launches>>

-----------------------------------------------------------------------------
(* Store: the row states and the WHERE guards of the Mark methods.         *)

Terminal  == {"done", "error", "cancelled", "orphaned"}
RowStates == {"none", "pending", "running", "deleted"} \cup Terminal

HasRow(j) == row[j] \notin {"none", "deleted"}

(* Mutant: the WHERE guard on the status is dropped.                       *)
MarkUnguarded(j, from, to) == row' = [row EXCEPT ![j] = to]

(* UPDATE ... SET status = to WHERE id = j AND status IN from: no row, no  *)
(* effect (ErrNotFound, which every caller but runOne's MarkRunning drops) *)
Mark(j, from, to) ==
  row' = IF row[j] \in from THEN [row EXCEPT ![j] = to] ELSE row

DeleteRows(S) ==
  row' = [j \in Job |-> IF j \in S /\ HasRow(j) THEN "deleted" ELSE row[j]]

JobsOf(a) == {j \in Job : AgentOf[j] = a}

Pending == {j \in Job : row[j] = "pending"}

(* Mutants of the boot pass: running rows are queued again; rows that are  *)
(* no longer running are flipped too; the pass is skipped.                 *)
AfterBootRequeue(s) == IF s = "running" THEN "pending" ELSE s
AfterBootAll(s) == IF s \in {"none", "pending", "deleted"} THEN s ELSE "orphaned"
AfterBootSkip(s) == s

(* What MarkOrphaned("") makes of a status.                                *)
AfterBoot(s) == IF s = "running" THEN "orphaned" ELSE s

(* Mutant: the foreign key is not declared.                                *)
InsertableAlways(j) == TRUE

(* The foreign key async_jobs.agent_id accepts the row.                    *)
Insertable(j) == ForeignKeys => removal[AgentOf[j]] # "gone"

(* Mutant: the semaphore send never blocks.                                *)
SlotFreeAlways == TRUE

(* Pool.sem <- struct{}{} does not block.                                  *)
SlotFree == sem < MaxConcurrent

-----------------------------------------------------------------------------
(* Places of a job's control flow.                                         *)

Handler   == {"validated", "inserted"}              (* SubmitAsyncJob      *)
Claiming  == {"fetch", "lookup", "register", "mark"} (* before MarkRunning  *)
Claimed   == {"launch", "exec", "finish"}            (* after MarkRunning   *)
HoldsSlot == Claiming \cup Claimed \cup {"refuse", "unregister", "release"}
Places    == {"idle", "queued"} \cup Handler \cup HoldsSlot

Phases == {"down", "restore", "orphan", "list", "redispatch",
           "serving", "ranging", "draining"}

(* The listeners accept requests from the end of Boot until Shutdown has   *)
(* returned: serve.go stops them only then.                                *)
Accepting == phase \in {"serving", "ranging", "draining"}

Goto(j, from, to) ==
  /\ pc[j] = from
  /\ pc' = [pc EXCEPT ![j] = to]

Init ==
  /\ row = [j \in Job |-> "none"]
  /\ removal = [a \in Agent |-> "kept"]
  /\ stopped = {}
  /\ phase = "down"
  /\ boots = 0
  /\ restoring = {}
  /\ live = {}
  /\ pc = [j \in Job |-> "idle"]
  /\ sem = 0
  /\ cancels = {}
  /\ cancelled = {}
  /\ result = [j \in Job |-> "none"]
  /\ replay = {}
  /\ todo = {}
  /\ launches = [j \in Job |-> 0]

-----------------------------------------------------------------------------
(* Boot: Serve runs Daemon.Run, Daemon.Restore, Pool.Boot, then listens.   *)

StartDaemon ==
  /\ phase = "down"
  /\ boots < MaxBoots
  /\ phase' = "restore"
  /\ boots' = boots + 1
  /\ UNCHANGED <<disk, restoring, live, pc, sem, cancels, cancelled, result,
                 replay, todo, launches>>

(* Restore hands every agent that is not persisted as stopped to Pool.Add, *)
(* which only starts a goroutine.                                          *)
Restore ==
  /\ phase = "restore"
  /\ phase' = "orphan"
  /\ restoring' = {a \in Agent : removal[a] # "gone" /\ a \notin stopped}
  /\ UNCHANGED <<disk, boots, live, pc, sem, cancels, cancelled, result,
                 replay, todo, launches>>

(* runNew: provider.Create succeeds and the agent enters the map, or fails *)
(* and the goroutine gives up.                                             *)
RegisterAgent(a) ==
  /\ a \in restoring
  /\ restoring' = restoring \ {a}
  /\ live' \in {live, live \cup {a}}
  /\ UNCHANGED <<disk, daemon, pc, sem, cancels, cancelled, result, launches>>

(* MarkOrphaned(ctx, ""): one UPDATE over the table.                       *)
MarkOrphaned ==
  /\ phase = "orphan"
  /\ phase' = "list"
  /\ row' = [j \in Job |-> AfterBoot(row[j])]
  /\ UNCHANGED <<agents, boots, replay, todo, pc, sem, cancels, cancelled,
                 result, launches>>

(* ListPending(ctx, limit): the oldest rows.  created_at counts seconds    *)
(* and ties fall in any order, so the cut may fall anywhere.               *)
ListPending ==
  /\ phase = "list"
  /\ phase' = "redispatch"
  /\ \E S \in SUBSET Pending :
       /\ Cardinality(S) <= ReplayLimit
       /\ Cardinality(S) < ReplayLimit => S = Pending
       /\ replay' = S
  /\ UNCHANGED <<disk, boots, restoring, live, todo, pc, sem, cancels,
                 cancelled, result, launches>>

(* dispatch(j): go, one row after the other.                               *)
Redispatch(j) ==
  /\ phase = "redispatch"
  /\ j \in replay
  /\ replay' = replay \ {j}
  /\ pc' = [pc EXCEPT ![j] = "queued"]
  /\ UNCHANGED <<disk, phase, boots, restoring, live, todo, sem, cancels,
                 cancelled, result, launches>>

(* Mutant: the listeners are opened before the replay is over.             *)
ListenEarly ==
  /\ phase = "redispatch"
  /\ phase' = "serving"
  /\ UNCHANGED <<disk, boots, restoring, live, replay, todo, pc, sem, cancels,
                 cancelled, result, launches>>

(* Boot returns, and Serve opens the listeners.                            *)
Listen ==
  /\ phase = "redispatch"
  /\ replay = {}
  /\ phase' = "serving"
  /\ UNCHANGED <<disk, boots, restoring, live, replay, todo, pc, sem, cancels,
                 cancelled, result, launches>>

-----------------------------------------------------------------------------
(* SubmitAsyncJob: resolve and validateAgentBin, Insert, dispatch.         *)

ValidateSubmit(j) ==
  /\ Accepting
  /\ row[j] = "none"
  /\ removal[AgentOf[j]] = "kept"
  /\ AgentOf[j] \in live
  /\ Goto(j, "idle", "validated")
  /\ UNCHANGED <<disk, daemon, restoring, live, sem, cancels, cancelled,
                 result, launches>>

InsertRow(j) ==
  /\ \/ /\ Insertable(j)
        /\ Goto(j, "validated", "inserted")
        /\ row' = [row EXCEPT ![j] = "pending"]
     \/ /\ ~Insertable(j)
        /\ Goto(j, "validated", "idle")
        /\ UNCHANGED row
  /\ UNCHANGED <<agents, daemon, sem, cancels, cancelled, result, launches>>

Dispatch(j) ==
  /\ Goto(j, "inserted", "queued")
  /\ UNCHANGED <<disk, daemon, restoring, live, sem, cancels, cancelled,
                 result, launches>>

-----------------------------------------------------------------------------
(* dispatch's goroutine and runOne.                                        *)

Acquire(j) ==
  /\ SlotFree
  /\ sem' = sem + 1
  /\ Goto(j, "queued", "fetch")
  /\ UNCHANGED <<disk, daemon, restoring, live, cancels, cancelled, result,
                 launches>>

(* store.Get: "job vanished before dispatch" or go on.                     *)
Fetch(j) ==
  /\ Goto(j, "fetch", IF HasRow(j) THEN "lookup" ELSE "release")
  /\ UNCHANGED <<disk, daemon, restoring, live, sem, cancels, cancelled,
                 result, launches>>

(* agents.Get                                                              *)
Lookup(j) ==
  /\ Goto(j, "lookup", IF AgentOf[j] \in live THEN "register" ELSE "refuse")
  /\ UNCHANGED <<disk, daemon, restoring, live, sem, cancels, cancelled,
                 result, launches>>

(* Mutant: the early return gives the slot back, and so does the defer.    *)
RefuseReleases(j) ==
  /\ Goto(j, "refuse", "release")
  /\ Mark(j, {"pending", "running"}, "error")
  /\ sem' = sem - 1
  /\ UNCHANGED <<agents, daemon, cancels, cancelled, result, launches>>

(* MarkError "agent not running at dispatch"                               *)
Refuse(j) ==
  /\ Goto(j, "refuse", "release")
  /\ Mark(j, {"pending", "running"}, "error")
  /\ UNCHANGED <<agents, daemon, sem, cancels, cancelled, result, launches>>

(* jobCtx is made and its cancel function stored.                          *)
RegisterCancel(j) ==
  /\ Goto(j, "register", "mark")
  /\ cancels' = cancels \cup {j}
  /\ cancelled' = cancelled \ {j}
  /\ UNCHANGED <<disk, daemon, restoring, live, sem, result, launches>>

(* Mutant: the context the BIN gets is made after the claim, so a cancel   *)
(* that came before it is lost.                                            *)
MarkRunningFreshContext(j) ==
  /\ Goto(j, "mark", IF row[j] \in {"pending", "running"}
                     THEN "launch" ELSE "unregister")
  /\ Mark(j, {"pending", "running"}, "running")
  /\ cancelled' = cancelled \ {j}
  /\ UNCHANGED <<agents, daemon, sem, cancels, result, launches>>

MarkRunning(j) ==
  /\ Goto(j, "mark", IF row[j] \in {"pending", "running"}
                     THEN "launch" ELSE "unregister")
  /\ Mark(j, {"pending", "running"}, "running")
  /\ UNCHANGED <<agents, daemon, sem, cancels, cancelled, result, launches>>

(* agent.Exec is called: the BIN starts.                                   *)
Launch(j) ==
  /\ Goto(j, "launch", "exec")
  /\ launches' = [launches EXCEPT ![j] = @ + 1]
  /\ UNCHANGED <<disk, daemon, restoring, live, sem, cancels, cancelled, result>>

(* Exec returns; context.Canceled only if jobCtx is cancelled, and a BIN   *)
(* that ends just then may still report success or another error.          *)
ExecReturn(j) ==
  /\ Goto(j, "exec", "finish")
  /\ \E r \in {"ok", "failed"} \cup (IF j \in cancelled THEN {"canceled"} ELSE {}) :
       result' = [result EXCEPT ![j] = r]
  /\ UNCHANGED <<disk, daemon, restoring, live, sem, cancels, cancelled, launches>>

Finish(j) ==
  /\ Goto(j, "finish", "unregister")
  /\ CASE result[j] = "canceled" -> Mark(j, {"pending", "running"}, "cancelled")
       [] result[j] = "failed"   -> Mark(j, {"pending", "running"}, "error")
       [] OTHER                  -> Mark(j, {"running"}, "done")
  /\ result' = [result EXCEPT ![j] = "none"]
  /\ UNCHANGED <<agents, daemon, sem, cancels, cancelled, launches>>

(* runOne's deferred cancels.Delete and cancel(): nobody reads the context *)
(* afterwards, so it is forgotten.                                         *)
Unregister(j) ==
  /\ Goto(j, "unregister", "release")
  /\ cancels' = cancels \ {j}
  /\ cancelled' = cancelled \ {j}
  /\ UNCHANGED <<disk, daemon, restoring, live, sem, result, launches>>

(* Mutant: the slot is not given back.                                     *)
ReleaseLeak(j) ==
  /\ Goto(j, "release", "idle")
  /\ UNCHANGED <<disk, daemon, restoring, live, sem, cancels, cancelled,
                 result, launches>>

Release(j) ==
  /\ Goto(j, "release", "idle")
  /\ sem' = sem - 1
  /\ UNCHANGED <<disk, daemon, restoring, live, cancels, cancelled, result,
                 launches>>

(* Mutant: Cancel takes the entry out of the map.                          *)
CancelAndDelete(j) ==
  /\ Accepting
  /\ j \in cancels \ cancelled
  /\ cancelled' = cancelled \cup {j}
  /\ cancels' = cancels \ {j}
  /\ UNCHANGED <<disk, daemon, restoring, live, pc, sem, result, launches>>

(* Pool.Cancel: an entry of the map is required (else ErrNotRunning).      *)
Cancel(j) ==
  /\ Accepting
  /\ j \in cancels \ cancelled
  /\ cancelled' = cancelled \cup {j}
  /\ UNCHANGED <<disk, daemon, restoring, live, pc, sem, cancels, result,
                 launches>>

-----------------------------------------------------------------------------
(* Requests about agents, as far as jobs see them.                         *)

(* Daemon.Stop: the agent stays in the pool's map.                         *)
StopAgent(a) ==
  /\ Accepting
  /\ removal[a] = "kept"
  /\ stopped' = stopped \cup {a}
  /\ UNCHANGED <<row, removal, daemon, restoring, live, pc, sem, cancels,
                 cancelled, result, launches>>

(* Daemon.Start: pool.Start refuses an agent that is not in the map.       *)
StartAgent(a) ==
  /\ Accepting
  /\ removal[a] = "kept"
  /\ a \in live
  /\ stopped' = stopped \ {a}
  /\ UNCHANGED <<row, removal, daemon, restoring, live, pc, sem, cancels,
                 cancelled, result, launches>>

(* Daemon.Remove, step by step: pool.Remove (which does nothing to an      *)
(* agent that is still being restored) and delete from d.agents,           *)
(* DeleteByAgent, RemoveAgent.                                             *)
RemoveFromPool(a) ==
  /\ Accepting
  /\ removal[a] = "kept"
  /\ removal' = [removal EXCEPT ![a] = "jobs"]
  /\ live' = live \ {a}
  /\ UNCHANGED <<row, stopped, daemon, restoring, pc, sem, cancels, cancelled,
                 result, launches>>

DeleteByAgent(a) ==
  /\ removal[a] = "jobs"
  /\ removal' = [removal EXCEPT ![a] = "row"]
  /\ DeleteRows(JobsOf(a))
  /\ UNCHANGED <<stopped, daemon, restoring, live, pc, sem, cancels, cancelled,
                 result, launches>>

RemoveAgentRow(a) ==
  /\ removal[a] = "row"
  /\ removal' = [removal EXCEPT ![a] = "gone"]
  /\ IF ForeignKeys THEN DeleteRows(JobsOf(a)) ELSE UNCHANGED row
  /\ UNCHANGED <<stopped, daemon, restoring, live, pc, sem, cancels, cancelled,
                 result, launches>>

-----------------------------------------------------------------------------
(* Shutdown and crash.                                                     *)

(* The signal context fires and Pool.Shutdown starts cancels.Range.        *)
Signal ==
  /\ phase = "serving"
  /\ phase' = "ranging"
  /\ todo' = cancels
  /\ UNCHANGED <<disk, boots, restoring, live, replay, pc, sem, cancels,
                 cancelled, result, launches>>

(* Range visits the keys present at its start that are still there, and    *)
(* may or may not meet one stored since.                                   *)
ShutdownVisit(j) ==
  /\ phase = "ranging"
  /\ j \in todo \cup (cancels \ cancelled)
  /\ todo' = todo \ {j}
  /\ cancelled' = IF j \in cancels THEN cancelled \cup {j} ELSE cancelled
  /\ UNCHANGED <<disk, phase, boots, restoring, live, replay, pc, sem, cancels,
                 result, launches>>

RangeDone ==
  /\ phase = "ranging"
  /\ todo = {}
  /\ phase' = "draining"
  /\ UNCHANGED <<disk, boots, restoring, live, replay, todo, pc, sem, cancels,
                 cancelled, result, launches>>

(* What is lost with the process.  A Remove in progress is lost with it,   *)
(* and its agent is restored from its row.                                 *)
Halt ==
  /\ phase' = "down"
  /\ removal' = [a \in Agent |-> IF removal[a] = "gone" THEN "gone" ELSE "kept"]
  /\ restoring' = {}
  /\ live' = {}
  /\ pc' = [j \in Job |-> "idle"]
  /\ sem' = 0
  /\ cancels' = {}
  /\ cancelled' = {}
  /\ result' = [j \in Job |-> "none"]
  /\ replay' = {}
  /\ todo' = {}
  /\ UNCHANGED <<row, stopped, boots, launches>>

(* Shutdown returned, drained or at its deadline; the process exits.       *)
Exit ==
  /\ phase = "draining"
  /\ Halt

Crash ==
  /\ phase # "down"
  /\ Halt

-----------------------------------------------------------------------------
SubmitStep(j) == ValidateSubmit(j) \/ InsertRow(j) \/ Dispatch(j)

(* Every step of a job's goroutine but the two that wait: for a slot, and  *)
(* for the BIN.                                                            *)
WorkerStep(j) ==
  \/ Fetch(j) \/ Lookup(j) \/ Refuse(j) \/ RegisterCancel(j) \/ MarkRunning(j)
  \/ Launch(j) \/ Finish(j) \/ Unregister(j) \/ Release(j)

BootStep ==
  \/ Restore \/ MarkOrphaned \/ ListPending \/ Listen
  \/ \E j \in Job : Redispatch(j)

ShutdownStep == RangeDone \/ Exit \/ \E j \in todo : ShutdownVisit(j)

RemoveStep(a) == RemoveFromPool(a) \/ DeleteByAgent(a) \/ RemoveAgentRow(a)

Next ==
  \/ StartDaemon \/ BootStep \/ Signal \/ RangeDone \/ Exit \/ Crash
  \/ \E j \in Job : \/ SubmitStep(j) \/ Acquire(j) \/ WorkerStep(j)
                    \/ ExecReturn(j) \/ Cancel(j) \/ ShutdownVisit(j)
  \/ \E a \in Agent : \/ RegisterAgent(a) \/ StopAgent(a) \/ StartAgent(a)
                      \/ RemoveStep(a)

Spec == Init /\ [][Next]_vars

(* Goroutines that are runnable run; a goroutine blocked on the channel    *)
(* gets a slot if slots keep coming free (the runtime queues senders in    *)
(* order); a cancelled Exec returns.  Requests, signals and crashes are    *)
(* not forced.                                                             *)
Fairness ==
  /\ WF_vars(BootStep)
  /\ WF_vars(ShutdownStep)
  /\ \A a \in Agent : WF_vars(RegisterAgent(a))
  /\ \A j \in Job :
       /\ WF_vars(Dispatch(j))
       /\ SF_vars(Acquire(j))
       /\ WF_vars(WorkerStep(j))
       /\ WF_vars(j \in cancelled /\ ExecReturn(j))

FairSpec == Spec /\ Fairness

-----------------------------------------------------------------------------
(* Properties.                                                             *)

(* The sets every variable stays in.                                       *)
TypeOK ==
  /\ row \in [Job -> RowStates]
  /\ removal \in [Agent -> {"kept", "jobs", "row", "gone"}]
  /\ stopped \subseteq Agent
  /\ phase \in Phases
  /\ boots \in 0..MaxBoots
  /\ restoring \subseteq Agent
  /\ live \subseteq Agent
  /\ pc \in [Job -> Places]
  /\ sem \in Nat
  /\ cancels \subseteq Job
  /\ cancelled \subseteq Job
  /\ result \in [Job -> {"none", "ok", "failed", "canceled"}]
  /\ replay \subseteq Job
  /\ todo \subseteq Job
  /\ launches \in [Job -> Nat]

Running == {j \in Job : pc[j] = "exec"}

(* No more BINs run at once than WithMaxConcurrent allows, however submit, *)
(* boot replay, early returns and restarts follow each other.              *)
ExecBound == Cardinality(Running) <= MaxConcurrent

(* A job's BIN is started at most once, over all restarts: a running row   *)
(* is given up by Boot, a pending one was never started.                   *)
AtMostOnce == \A j \in Job : launches[j] <= 1

(* Once Boot has passed, a row that says running has a goroutine of this   *)
(* process behind it: observers never poll a perpetually running ghost.    *)
RunningIsOwned ==
  phase \notin {"down", "restore", "orphan"} =>
    \A j \in Job : row[j] = "running" => pc[j] \in Claimed

(* While requests are served, a pending row is in the hands of a submit    *)
(* handler or of a goroutine: nobody waits for a job nobody will run.      *)
PendingIsOwned ==
  Accepting =>
    \A j \in Job : row[j] = "pending" =>
      pc[j] \in {"inserted", "queued", "refuse"} \cup Claiming

(* A job that runs can be cancelled, and an entry of the cancels map       *)
(* belongs to a goroutine that holds a slot: none leaks, none is taken     *)
(* away early.                                                             *)
CancelCoherent ==
  \A j \in Job :
    /\ pc[j] \in Claimed => j \in cancels
    /\ j \in cancels => pc[j] \in Claimed \cup {"mark", "unregister"}

(* With foreign keys enforced no job outlives its agent's row, although    *)
(* SubmitAsyncJob checks the agent before it inserts.                      *)
JobsHaveAgent == \A j \in Job : HasRow(j) => removal[AgentOf[j]] # "gone"

(* A terminal status is final: the row keeps it until it is deleted,       *)
(* across late results, cancels, shutdown and the boot pass.               *)
TerminalIsFinal ==
  [][\A j \in Job : row[j] \in Terminal => row'[j] \in {row[j], "deleted"}]_vars

(* The table implements the abstract life of a job.                        *)
Lifecycle == INSTANCE JobLifecycle
  WITH status <- row, launched <- {j \in Job : launches[j] > 0}
ImplementsLifecycle == Lifecycle!LifeSpec

(* A cancel that was accepted ends the job, unless the process ends first: *)
(* it is not lost between registration, claim and launch.                  *)
CancelIsHonoured ==
  \A j \in Job :
    j \in cancelled ~> (row[j] \notin {"pending", "running"} \/ phase = "down")

(* A pending job gets its turn and its result, unless the process ends     *)
(* first or a BIN never ends: no slot is lost and no wake-up missed.       *)
PendingResolves ==
  \A j \in Job :
    row[j] = "pending" ~> \/ row[j] \notin {"pending", "running"}
                          \/ phase = "down"
                          \/ \E i \in Job : [](pc[i] = "exec")

-----------------------------------------------------------------------------
(* Statements of the repository that the code does not keep.               *)

(* serve.go: Boot "runs after agent Restore so any boot-time delivery has  *)
(* the agents back online".  A job is refused only if its agent has been   *)
(* stopped or removed, not because it is still being restored.             *)
ReplayFindsAgents ==
  [][\A j \in Job : pc[j] = "lookup" /\ pc'[j] = "refuse"
                      => AgentOf[j] \notin restoring]_vars
=============================================================================

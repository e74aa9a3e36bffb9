------------------------------ MODULE AgentPool ------------------------------
(***************************************************************************)
(* The supervision pool of ottersd: one pooledAgent per agent, a           *)
(* supervisor goroutine that runs attempts and retries them, its readiness *)
(* probe, and the Start, Stop and Remove calls of concurrent requests.     *)
(*                                                                         *)
(* A supervisor is named by a number; its retryCtx and done channel go by  *)
(* the same number, 0 standing for nil.  The executor's Agent (Run, Start, *)
(* Stop, Probe, the status tracker) is outside the repository and modelled *)
(* from how pool.go uses it and the fake of pool_test.go.                  *)
(*                                                                         *)
(* Source: internal/pool.go.                                               *)
(***************************************************************************)
EXTENDS Naturals, FiniteSets

CONSTANTS
  Agent,          (* agents, each handed to Pool.Add once                  *)
  Client,         (* request goroutines                                    *)
  Ops,            (* the operations requests ask for                       *)
  MaxConcurrent,  (* capacity of Pool.sem                                  *)
  Probed,         (* bound: agents whose readiness probe is followed       *)
  MaxSup,         (* bound: how many supervisors are spawned               *)
  MaxCalls        (* bound: how many requests are made                     *)

ASSUME AgentPoolAssumption ==
  /\ IsFiniteSet(Agent)
  /\ Ops \subseteq {"Start", "Stop", "Remove"}
  /\ MaxConcurrent \in Nat \ {0}
  /\ Probed \subseteq Agent
  /\ MaxSup \in Nat
  /\ MaxCalls \in Nat

Sup == 1..MaxSup

VARIABLES
  rootDone,   (* the pool's root context is cancelled                      *)
  sem,        (* slots taken                                               *)
  added,      (* agents handed to Pool.Add                                 *)
  inMap,      (* keys of Pool.agents                                       *)
  retry,      (* pooledAgent.retryCancel                                   *)
  done,       (* pooledAgent.done                                          *)
  spawned,    (* how many supervisors were spawned                         *)
  of,         (* each supervisor's agent                                   *)
  pc,         (* where each supervisor is                                  *)
  cancelled,  (* supervisors whose retryCtx was cancelled                  *)
  killed,     (* attempts Agent.Stop has signalled                         *)
  probe,      (* where each supervisor's readiness probe is                *)
  status,     (* the executor's status of each agent                       *)
  call,       (* each client's call                                        *)
  calls,      (* how many calls were made                                  *)
  (* history *)
  asked       (* the last of Start and Stop that was called, or returned   *)

pool  == <<rootDone, sem, added, inMap, retry, done, spawned, of>>
sups  == <<pc, cancelled, killed>>
reqs  == <<call, calls, asked>>
vars  == <<rootDone, sem, added, inMap, retry, done, spawned, of, pc,
           cancelled, killed, probe, status, call, calls, asked>>

Statuses == {"none", "pulling", "starting", "ready", "stopped",
             "transient", "crashed", "readiness timeout"}

(* Where a call is, by what it does next.                                  *)
Places == {"none", "Start", "Stop", "Remove", "StartWait", "Cancel", "Signal",
           "Signalled", "RemoveWait"}

Calls == [op : Ops \cup {"none"}, agent : Agent \cup {"none"}, at : Places,
          wait : SUBSET (0..MaxSup)]

NoCall == [op |-> "none", agent |-> "none", at |-> "none", wait |-> {}]

Init ==
  /\ rootDone = FALSE
  /\ sem = 0
  /\ added = {}
  /\ inMap = {}
  /\ retry = [a \in Agent |-> 0]
  /\ done = [a \in Agent |-> 0]
  /\ spawned = 0
  /\ of = [k \in Sup |-> "none"]
  /\ pc = [k \in Sup |-> "unused"]
  /\ cancelled = {}
  /\ killed = {}
  /\ probe = [k \in Sup |-> "off"]
  /\ status = [a \in Agent |-> "none"]
  /\ call = [c \in Client |-> NoCall]
  /\ calls = 0
  /\ asked = [a \in Agent |-> "Start"]

(* Mutant: retryCtx is not a child of the root context.                    *)
CtxDoneDetached(k) == k \in cancelled

(* retryCtx.Done() is ready.                                               *)
CtxDone(k) == rootDone \/ k \in cancelled

Goto(k, from, to) == pc[k] = from /\ pc' = [pc EXCEPT ![k] = to]

Arm(k) == probe' = IF of[k] \in Probed THEN [probe EXCEPT ![k] = "armed"] ELSE probe

SetStatus(a, s) == status' = [status EXCEPT ![a] = s]

(* Mutant: a send on the semaphore never blocks.                           *)
SlotFreeAlways == TRUE

(* p.sem <- struct{}{} does not block.                                     *)
SlotFree == sem < MaxConcurrent

-----------------------------------------------------------------------------
(* runNew                                                                  *)

Spawn(a, at) ==
  /\ spawned < MaxSup
  /\ spawned' = spawned + 1
  /\ of' = [of EXCEPT ![spawned + 1] = a]
  /\ pc' = [pc EXCEPT ![spawned + 1] = at]

(* Pool.Add: go p.runNew.                                                  *)
Add(a) ==
  /\ a \notin added
  /\ ~rootDone
  /\ added' = added \cup {a}
  /\ Spawn(a, "new")
  /\ UNCHANGED <<rootDone, sem, inMap, retry, done, cancelled, killed, probe,
                 status, reqs>>

(* A slot for createAgent, or the pool is shut down.                       *)
NewSlot(k) ==
  /\ \/ SlotFree /\ sem' = sem + 1 /\ Goto(k, "new", "create")
     \/ rootDone /\ UNCHANGED sem /\ Goto(k, "new", "over")
  /\ UNCHANGED <<rootDone, added, inMap, retry, done, spawned, of, cancelled,
                 killed, probe, status, reqs>>

(* createAgent fails, or the agent is created.                             *)
Created(k) ==
  /\ sem' = sem - 1
  /\ Goto(k, "create", "register") \/ Goto(k, "create", "over")
  /\ UNCHANGED <<rootDone, added, inMap, retry, done, spawned, of, cancelled,
                 killed, probe, status, reqs>>

(* The pooledAgent enters the map with its retryCancel and done.           *)
Register(k) ==
  /\ Goto(k, "register", "acquire")
  /\ inMap' = inMap \cup {of[k]}
  /\ retry' = [retry EXCEPT ![of[k]] = k]
  /\ done' = [done EXCEPT ![of[k]] = k]
  /\ Arm(k)
  /\ UNCHANGED <<rootDone, sem, added, spawned, of, cancelled, killed, status,
                 reqs>>

(* Mutant: it is not installed.                                            *)
InstallNot(k) ==
  /\ Goto(k, "existing", "acquire")
  /\ Arm(k)
  /\ UNCHANGED <<rootDone, sem, added, inMap, retry, done, spawned, of,
                 cancelled, killed, status, reqs>>

(* runExisting installs its retryCancel, if the agent is still there.      *)
Install(k) ==
  /\ Goto(k, "existing", "acquire")
  /\ retry' = IF of[k] \in inMap THEN [retry EXCEPT ![of[k]] = k] ELSE retry
  /\ Arm(k)
  /\ UNCHANGED <<rootDone, sem, added, inMap, done, spawned, of, cancelled,
                 killed, status, reqs>>

-----------------------------------------------------------------------------
(* runLoop.  A select with several ready cases takes any of them.          *)

(* Mutant: the semaphore is awaited without retryCtx.Done.                 *)
AcquireBlocking(k) ==
  /\ SlotFree /\ sem' = sem + 1 /\ Goto(k, "acquire", "attempt")
  /\ SetStatus(of[k], "pulling")
  /\ UNCHANGED <<rootDone, added, inMap, retry, done, spawned, of, cancelled,
                 killed, probe, reqs>>

(* A slot for the attempt, which Run or Start begins; or the end.          *)
Acquire(k) ==
  /\ \/ /\ SlotFree /\ sem' = sem + 1 /\ Goto(k, "acquire", "attempt")
        /\ SetStatus(of[k], "pulling")
     \/ /\ CtxDone(k) /\ Goto(k, "acquire", "over")
        /\ UNCHANGED <<sem, status>>
  /\ UNCHANGED <<rootDone, added, inMap, retry, done, spawned, of, cancelled,
                 killed, probe, reqs>>

(* External: the runtime subprocess is up.                                 *)
Serve(k) ==
  /\ Goto(k, "attempt", "serve")
  /\ SetStatus(of[k], "starting")
  /\ UNCHANGED <<pool, cancelled, killed, probe, reqs>>

(* External: the attempt ends before or after the subprocess was started,  *)
(* by itself or because it was told to.                                    *)
AttemptEnds(k) ==
  /\ \/ /\ Goto(k, "attempt", "returned")
        /\ \E s \in {"transient", "stopped"} : SetStatus(of[k], s)
     \/ /\ Goto(k, "serve", "returned")
        /\ \E s \in {"crashed", "stopped"} : SetStatus(of[k], s)
  /\ killed' = killed \ {k}
  /\ UNCHANGED <<pool, cancelled, probe, reqs>>

(* Mutant: the slot is kept over the backoff.                              *)
ReturnedLeak(k) ==
  /\ Goto(k, "returned", IF status[of[k]] = "transient" THEN "backoff" ELSE "over")
  /\ UNCHANGED <<pool, cancelled, killed, probe, status, reqs>>

(* The slot is given back and the status decides: shouldRetry.             *)
Returned(k) ==
  /\ Goto(k, "returned", IF status[of[k]] = "transient" THEN "backoff" ELSE "over")
  /\ sem' = sem - 1
  /\ UNCHANGED <<rootDone, added, inMap, retry, done, spawned, of, cancelled,
                 killed, probe, status, reqs>>

(* The delay elapses, or the supervisor is told to end.                    *)
Backoff(k) ==
  /\ Goto(k, "backoff", "acquire") \/ (CtxDone(k) /\ Goto(k, "backoff", "over"))
  /\ UNCHANGED <<pool, cancelled, killed, probe, status, reqs>>

-----------------------------------------------------------------------------
(* readinessProbe and probeOnce                                            *)

(* probeCtx is a child of retryCtx, and cancelled when runLoop returns.    *)
ProbeDone(k) == CtxDone(k) \/ pc[k] = "over"

ProbeAt(k, from, to) == probe[k] = from /\ probe' = [probe EXCEPT ![k] = to]

(* The status is checked, once per round.                                  *)
ProbeStart(k) ==
  /\ ProbeAt(k, "armed", "asking")
  /\ status[of[k]] = "starting"
  /\ UNCHANGED <<pool, sups, status, reqs>>

(* a.Probe answers: the runtime was up at that moment.                     *)
ProbeAnswered(k) ==
  /\ ProbeAt(k, "asking", "answered")
  /\ status[of[k]] = "starting"
  /\ UNCHANGED <<pool, sups, status, reqs>>

(* StatusTracker().Set(StatusReady)                                        *)
ProbeReady(k) ==
  /\ ProbeAt(k, "answered", "armed")
  /\ SetStatus(of[k], "ready")
  /\ UNCHANGED <<pool, sups, reqs>>

(* a.Probe failed and the delay elapsed: the status is checked again.      *)
ProbeAgain(k) ==
  /\ ProbeAt(k, "asking", "armed")
  /\ UNCHANGED <<pool, sups, status, reqs>>

(* a.Probe failed and probeCtx has ended, at its deadline or before.       *)
ProbeGivesUp(k) ==
  /\ ProbeAt(k, "asking", "armed")
  /\ SetStatus(of[k], "readiness timeout")
  /\ UNCHANGED <<pool, sups, reqs>>

ProbeEnds(k) ==
  /\ ProbeDone(k)
  /\ ProbeAt(k, "armed", "off")
  /\ UNCHANGED <<pool, sups, status, reqs>>

-----------------------------------------------------------------------------
(* Start, Stop and Remove.                                                 *)

(* Supervisors with an attempt Agent.Stop can signal.                      *)
Attempts(a) == {k \in Sup : of[k] = a /\ pc[k] \in {"attempt", "serve"}}

At(c, here) == call[c].at = here

Move(c, there, wait) ==
  call' = [call EXCEPT ![c].at = there, ![c].wait = wait]

Return(c) == call' = [call EXCEPT ![c] = NoCall]

CancelCtx(k) == cancelled' = IF k = 0 THEN cancelled ELSE cancelled \cup {k}

(* A request arrives for an agent of the map.  (For another one Start      *)
(* fails, Stop and Remove return nil, and nothing changes.)                *)
Call(c, op, a) ==
  /\ call[c] = NoCall
  /\ calls < MaxCalls
  /\ ~rootDone
  /\ a \in inMap
  /\ calls' = calls + 1
  /\ call' = [call EXCEPT ![c] = [op |-> op, agent |-> a, at |-> op, wait |-> {}]]
  /\ asked' = [asked EXCEPT ![a] = IF op = "Start" THEN "Start" ELSE "stopping"]
  /\ UNCHANGED <<pool, sups, probe, status>>

(* Start: read the pooledAgent and cancel the prior supervisor.  The read  *)
(* and the cancel are two steps in the code; a cancel is final, so nothing *)
(* between them can tell.                                                  *)
StartCancel(c) ==
  /\ At(c, "Start")
  /\ LET a == call[c].agent IN
       IF a \in inMap
         THEN CancelCtx(retry[a]) /\ Move(c, "StartWait", {done[a]})
         ELSE UNCHANGED cancelled /\ Return(c)
  /\ UNCHANGED <<pool, pc, killed, probe, status, calls, asked>>

(* Mutant: Start does not wait for the prior supervisor.                   *)
StartSpawnEager(c) ==
  /\ At(c, "StartWait")
  /\ LET a == call[c].agent IN
       /\ Spawn(a, "existing")
       /\ done' = [done EXCEPT ![a] = spawned + 1]
       /\ retry' = [retry EXCEPT ![a] = 0]
  /\ Return(c)
  /\ UNCHANGED <<rootDone, sem, added, inMap, cancelled, killed, probe, status,
                 calls, asked>>

(* The prior done channel is closed: a fresh supervisor is spawned.        *)
StartSpawn(c) ==
  /\ At(c, "StartWait")
  /\ \A k \in call[c].wait : pc[k] = "over"
  /\ LET a == call[c].agent IN
       /\ Spawn(a, "existing")
       /\ done' = [done EXCEPT ![a] = spawned + 1]
       /\ retry' = [retry EXCEPT ![a] = 0]
  /\ Return(c)
  /\ UNCHANGED <<rootDone, sem, added, inMap, cancelled, killed, probe, status,
                 calls, asked>>

(* "previous supervisor did not exit" within five seconds.                 *)
StartTimeout(c) ==
  /\ At(c, "StartWait")
  /\ \E k \in call[c].wait : pc[k] # "over"
  /\ Return(c)
  /\ UNCHANGED <<pool, sups, probe, status, calls, asked>>

(* Stop: look up; then, outside the mutex, read retryCancel and cancel.    *)
StopLookup(c) ==
  /\ At(c, "Stop")
  /\ IF call[c].agent \in inMap THEN Move(c, "Cancel", {}) ELSE Return(c)
  /\ UNCHANGED <<pool, sups, probe, status, calls, asked>>

(* Remove: delete from the map; then cancel as Stop does.                  *)
RemoveDelete(c) ==
  /\ At(c, "Remove")
  /\ LET a == call[c].agent IN
       IF a \in inMap THEN inMap' = inMap \ {a} /\ Move(c, "Cancel", {})
                      ELSE UNCHANGED inMap /\ Return(c)
  /\ UNCHANGED <<rootDone, sem, added, retry, done, spawned, of, sups, probe,
                 status, calls, asked>>

(* if pa.retryCancel != nil { pa.retryCancel() }                           *)
CancelRetry(c) ==
  /\ At(c, "Cancel")
  /\ CancelCtx(retry[call[c].agent])
  /\ Move(c, "Signal", {})
  /\ UNCHANGED <<pool, pc, killed, probe, status, calls, asked>>

(* External: Agent.Stop signals the attempts it finds.                     *)
Signal(c) ==
  /\ At(c, "Signal")
  /\ killed' = killed \cup Attempts(call[c].agent)
  /\ Move(c, "Signalled", Attempts(call[c].agent))
  /\ UNCHANGED <<pool, pc, cancelled, probe, status, calls, asked>>

(* Agent.Stop returns when they have ended; Remove goes on to wait for the *)
(* done channel.                                                           *)
Signalled(c) ==
  /\ At(c, "Signalled")
  /\ \A k \in call[c].wait : k \notin killed
  /\ LET a == call[c].agent IN
       IF call[c].op = "Stop"
         THEN /\ Return(c)
              /\ asked' = [asked EXCEPT ![a] = IF @ = "stopping" THEN "Stop" ELSE @]
         ELSE Move(c, "RemoveWait", {}) /\ UNCHANGED asked
  /\ UNCHANGED <<pool, sups, probe, status, calls>>

(* The supervisor has exited, and agent.Remove cleans the disk up; or the  *)
(* request's context ends first.  Nothing of the pool tells the two apart. *)
RemoveReturn(c) ==
  /\ At(c, "RemoveWait")
  /\ Return(c)
  /\ UNCHANGED <<pool, sups, probe, status, calls, asked>>

(* The daemon shuts down: the root context is cancelled, and with it every *)
(* retryCtx.  (stopAll signals the agents as well.)                        *)
Shutdown ==
  /\ ~rootDone
  /\ rootDone' = TRUE
  /\ UNCHANGED <<sem, added, inMap, retry, done, spawned, of, sups, probe,
                 status, reqs>>

-----------------------------------------------------------------------------
(* The pool's own steps of a supervisor; an attempt's end is one only when *)
(* its context is done or Agent.Stop has signalled it.                     *)
Step(k) ==
  \/ NewSlot(k) \/ Created(k) \/ Register(k) \/ Install(k) \/ Acquire(k)
  \/ Returned(k) \/ Backoff(k)
  \/ (CtxDone(k) \/ k \in killed) /\ AttemptEnds(k)

ProbeStep(k) ==
  \/ ProbeStart(k) \/ ProbeAnswered(k) \/ ProbeReady(k) \/ ProbeAgain(k)
  \/ ProbeGivesUp(k) \/ ProbeEnds(k)

CallStep(c) ==
  \/ StartCancel(c) \/ StartSpawn(c) \/ StartTimeout(c) \/ StopLookup(c)
  \/ RemoveDelete(c) \/ CancelRetry(c) \/ Signal(c) \/ Signalled(c)
  \/ RemoveReturn(c)

Next ==
  \/ Shutdown
  \/ \E a \in Agent : Add(a)
  \/ \E k \in Sup : Step(k) \/ Serve(k) \/ AttemptEnds(k) \/ ProbeStep(k)
  \/ \E c \in Client : CallStep(c) \/ \E op \in Ops, a \in Agent : Call(c, op, a)

Spec == Init /\ [][Next]_vars

(* Runnable goroutines run, an attempt whose context is done or that was   *)
(* signalled ends, and a select does not pass over the same ready case for *)
(* ever (it chooses among the ready ones at random).                       *)
FairSpec ==
  /\ Spec
  /\ \A k \in Sup : WF_vars(Step(k)) /\ SF_vars(Step(k) /\ pc'[k] = "over")

-----------------------------------------------------------------------------
(* Properties.                                                             *)

(* The sets every variable stays in.                                       *)
TypeOK ==
  /\ rootDone \in BOOLEAN
  /\ sem \in 0..MaxConcurrent
  /\ inMap \subseteq added /\ added \subseteq Agent
  /\ retry \in [Agent -> 0..MaxSup]
  /\ done \in [Agent -> 0..MaxSup]
  /\ spawned \in 0..MaxSup
  /\ of \in [Sup -> Agent \cup {"none"}]
  /\ pc \in [Sup -> {"unused", "new", "create", "register", "existing", "acquire",
                     "attempt", "serve", "returned", "backoff", "over"}]
  /\ cancelled \subseteq Sup
  /\ killed \subseteq Sup
  /\ probe \in [Sup -> {"off", "armed", "asking", "answered"}]
  /\ status \in [Agent -> Statuses]
  /\ call \in [Client -> Calls]
  /\ calls \in 0..MaxCalls
  /\ asked \in [Agent -> {"Start", "stopping", "Stop"}]

Active(k) == pc[k] \notin {"unused", "over"}

InAttempt(k) == pc[k] \in {"attempt", "serve"}

(* The supervisors between the semaphore's send and its receive.           *)
Holders == {k \in Sup : pc[k] \in {"create", "attempt", "serve", "returned"}}

(* No more agents run, or are being created, than WithMaxConcurrent allows *)
(* and every slot taken is held by one: none leaks over retries, failed    *)
(* creates and cancelled waits.                                            *)
SlotsAccounted ==
  /\ sem = Cardinality(Holders)
  /\ sem <= MaxConcurrent

(* Cancels any prior supervisor, waits for it to exit, then spawns: an     *)
(* agent never has two supervisors.  It takes two overlapping Starts to    *)
(* break it.                                                               *)
OneSupervisor ==
  \A j, k \in Sup : j # k /\ Active(j) /\ Active(k) => of[j] # of[k]

(* A supervisor nobody can cancel through the map exists only before it    *)
(* has installed its cancel function, or after it was cancelled.           *)
Cancellable ==
  \A k \in Sup :
    pc[k] \in {"acquire", "attempt", "serve", "returned", "backoff"} /\ of[k] \in inMap
      => CtxDone(k) \/ retry[of[k]] = k

(* Shutdown reaches every goroutine of the pool, those of agents that were *)
(* removed, replaced or never registered included.                         *)
ShutdownDrains ==
  rootDone ~> \A k \in Sup : ~Active(k)

(* A cancelled supervisor ends, wherever the cancel meets it: waiting for  *)
(* a slot others hold, in an attempt, or in its backoff.                   *)
CancelEnds == \A k \in Sup : k \in cancelled ~> ~Active(k)
=============================================================================

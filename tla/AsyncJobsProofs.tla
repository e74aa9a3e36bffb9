--------------------------- MODULE AsyncJobsProofs ---------------------------
(***************************************************************************)
(* Proofs about the job dispatcher, for every set of jobs and agents,      *)
(* every capacity and every number of restarts.                            *)
(*                                                                         *)
(* The argument has two inductive invariants.  SlotInv ties the semaphore  *)
(* to the goroutines that hold a slot; with TypeOK it gives the bound on   *)
(* running BINs.  JobInv ties each row to the place of its job's           *)
(* goroutine; it gives at-most-once launch, ownership of the rows, their   *)
(* finality and the refinement of JobLifecycle.                            *)
(***************************************************************************)
EXTENDS AsyncJobs, FiniteSetTheorems, TLAPS

(* The goroutines between the semaphore's send and its receive.            *)
Holders == {j \in Job : pc[j] \in HoldsSlot}

(* len(Pool.sem) counts them.                                              *)
SlotInv == sem = Cardinality(Holders) /\ sem <= MaxConcurrent

-----------------------------------------------------------------------------
(* Slots.                                                                  *)

LEMMA HoldersFinite == IsFiniteSet(Holders)
  BY FS_Subset, AsyncJobsAssumption DEF Holders, AsyncJobsAssumption

-----------------------------------------------------------------------------
(* Rows and goroutines.                                                    *)

(* The places of a job whose row is inserted and not yet claimed.          *)
Unclaimed == {"inserted", "queued", "refuse"} \cup Claiming

BootPending == {"down", "restore", "orphan", "list"}

(* What the place of a job's goroutine says about its row and its BIN.     *)
PlaceInv(j) ==
  /\ pc[j] = "validated" => row[j] = "none"
  /\ pc[j] \in Unclaimed => row[j] \in {"pending", "deleted"} /\ launches[j] = 0
  /\ pc[j] \in Claimed => row[j] \in {"running", "deleted"}
  /\ pc[j] = "launch" => launches[j] = 0

(* What the row says about the BIN and the goroutine.                      *)
RowInv(j) ==
  /\ row[j] \in {"none", "pending"} => launches[j] = 0
  /\ launches[j] \in {0, 1}
  /\ row[j] = "running" /\ phase \notin {"down", "restore", "orphan"}
       => pc[j] \in Claimed

(* No goroutine runs before Boot has listed the pending rows, and a row on *)
(* that list still waits for its goroutine.                                *)
BootInv(j) ==
  /\ phase \in BootPending => pc[j] = "idle"
  /\ j \in replay => row[j] = "pending" /\ pc[j] = "idle" /\ phase = "redispatch"

(* Removals happen only while requests are served.                         *)
RemovalInv ==
  ~Accepting => \A a \in Agent : removal[a] \in {"kept", "gone"}

JobInv ==
  /\ \A j \in Job : PlaceInv(j) /\ RowInv(j) /\ BootInv(j)
  /\ RemovalInv

LEMMA JobInit == Init => JobInv
  BY DEF Init, JobInv, PlaceInv, RowInv, BootInv, RemovalInv, Unclaimed, Claiming,
         Claimed, BootPending

LEMMA JobInductive == TypeOK /\ JobInv /\ [Next]_vars => JobInv'
<1> SUFFICES ASSUME TypeOK, JobInv, [Next]_vars PROVE JobInv'
  OBVIOUS
<1> USE DEF TypeOK, RowStates, Terminal, Phases, Places, Handler, Claiming, Claimed,
        Unclaimed, HoldsSlot, BootPending, Accepting, JobInv, PlaceInv, RowInv, BootInv,
        RemovalInv, disk, agents, daemon
<1>1. CASE StartDaemon
  BY <1>1 DEF StartDaemon
<1>2. CASE Restore
  BY <1>2 DEF Restore
<1>3. CASE MarkOrphaned
  BY <1>3 DEF MarkOrphaned, AfterBoot
<1>4. CASE ListPending
  BY <1>4 DEF ListPending, Pending
<1>5. CASE Listen
  BY <1>5 DEF Listen
<1>6. CASE Signal
  BY <1>6 DEF Signal
<1>7. CASE RangeDone
  BY <1>7 DEF RangeDone
<1>8. CASE Exit
  BY <1>8 DEF Exit, Halt
<1>9. CASE Crash
  BY <1>9 DEF Crash, Halt
<1>10. ASSUME NEW i \in Job, Redispatch(i) PROVE JobInv'
  BY <1>10 DEF Redispatch
<1>11. ASSUME NEW i \in Job, ValidateSubmit(i) PROVE JobInv'
  BY <1>11 DEF ValidateSubmit, Goto
<1>12. ASSUME NEW i \in Job, InsertRow(i) PROVE JobInv'
  BY <1>12 DEF InsertRow, Goto, Insertable
<1>13. ASSUME NEW i \in Job, Dispatch(i) PROVE JobInv'
  BY <1>13 DEF Dispatch, Goto
<1>14. ASSUME NEW i \in Job, Acquire(i) PROVE JobInv'
  BY <1>14 DEF Acquire, Goto, SlotFree
<1>15. ASSUME NEW i \in Job, Fetch(i) PROVE JobInv'
  BY <1>15 DEF Fetch, Goto
<1>16. ASSUME NEW i \in Job, Lookup(i) PROVE JobInv'
  BY <1>16 DEF Lookup, Goto
<1>17. ASSUME NEW i \in Job, Refuse(i) PROVE JobInv'
  BY <1>17 DEF Refuse, Goto, Mark
<1>18. ASSUME NEW i \in Job, RegisterCancel(i) PROVE JobInv'
  BY <1>18 DEF RegisterCancel, Goto
<1>19. ASSUME NEW i \in Job, MarkRunning(i) PROVE JobInv'
  BY <1>19 DEF MarkRunning, Goto, Mark
<1>20. ASSUME NEW i \in Job, Launch(i) PROVE JobInv'
  BY <1>20 DEF Launch, Goto
<1>21. ASSUME NEW i \in Job, ExecReturn(i) PROVE JobInv'
  BY <1>21 DEF ExecReturn, Goto
<1>22. ASSUME NEW i \in Job, Finish(i) PROVE JobInv'
  BY <1>22 DEF Finish, Goto, Mark
<1>23. ASSUME NEW i \in Job, Unregister(i) PROVE JobInv'
  BY <1>23 DEF Unregister, Goto
<1>24. ASSUME NEW i \in Job, Release(i) PROVE JobInv'
  BY <1>24 DEF Release, Goto
<1>25. ASSUME NEW i \in Job, Cancel(i) PROVE JobInv'
  BY <1>25 DEF Cancel
<1>26. ASSUME NEW i \in Job, ShutdownVisit(i) PROVE JobInv'
  BY <1>26 DEF ShutdownVisit
<1>27. ASSUME NEW a \in Agent, RegisterAgent(a) PROVE JobInv'
  BY <1>27 DEF RegisterAgent
<1>28. ASSUME NEW a \in Agent, StopAgent(a) PROVE JobInv'
  BY <1>28 DEF StopAgent
<1>29. ASSUME NEW a \in Agent, StartAgent(a) PROVE JobInv'
  BY <1>29 DEF StartAgent
<1>30. ASSUME NEW a \in Agent, RemoveFromPool(a) PROVE JobInv'
  BY <1>30 DEF RemoveFromPool
<1>31. ASSUME NEW a \in Agent, DeleteByAgent(a) PROVE JobInv'
  BY <1>31 DEF DeleteByAgent, DeleteRows, HasRow, JobsOf
<1>32. ASSUME NEW a \in Agent, RemoveAgentRow(a) PROVE JobInv'
  BY <1>32 DEF RemoveAgentRow, DeleteRows, HasRow, JobsOf
<1>33. CASE UNCHANGED vars
  BY <1>33 DEF vars
<1>. QED
  BY <1>1, <1>2, <1>3, <1>4, <1>5, <1>6, <1>7, <1>8, <1>9, <1>10, <1>11,
     <1>12, <1>13, <1>14, <1>15, <1>16, <1>17, <1>18, <1>19, <1>20,
     <1>21, <1>22, <1>23, <1>24, <1>25, <1>26, <1>27, <1>28, <1>29,
     <1>30, <1>31, <1>32, <1>33
  DEF Next, BootStep, SubmitStep, WorkerStep, RemoveStep

LEMMA SlotInit == Init => SlotInv
<1> SUFFICES ASSUME Init PROVE SlotInv
  OBVIOUS
<1>1. Holders = {}
  BY DEF Init, Holders, HoldsSlot, Claiming, Claimed
<1>. QED
  BY <1>1, FS_EmptySet, AsyncJobsAssumption DEF Init, SlotInv, AsyncJobsAssumption

LEMMA SlotInductive == TypeOK /\ SlotInv /\ JobInv /\ [Next]_vars => SlotInv'
<1> SUFFICES ASSUME TypeOK, SlotInv, JobInv, [Next]_vars PROVE SlotInv'
  OBVIOUS
<1> USE DEF TypeOK, RowStates, Terminal, Phases, Places, Handler, Claiming, Claimed,
        HoldsSlot, disk, agents, daemon
<1>1. CASE StartDaemon
  BY <1>1 DEF StartDaemon, SlotInv, Holders
<1>2. CASE Restore
  BY <1>2 DEF Restore, SlotInv, Holders
<1>3. CASE MarkOrphaned
  BY <1>3 DEF MarkOrphaned, AfterBoot, SlotInv, Holders
<1>4. CASE ListPending
  BY <1>4 DEF ListPending, Pending, SlotInv, Holders
<1>5. CASE Listen
  BY <1>5 DEF Listen, SlotInv, Holders
<1>6. CASE Signal
  BY <1>6 DEF Signal, SlotInv, Holders
<1>7. CASE RangeDone
  BY <1>7 DEF RangeDone, SlotInv, Holders
<1>8. CASE Exit
  <2>1. Holders' = {}
    BY <1>8 DEF Exit, Halt, Holders
  <2>. QED
    BY <1>8, <2>1, FS_EmptySet, AsyncJobsAssumption DEF Exit, Halt, SlotInv, AsyncJobsAssumption
<1>9. CASE Crash
  <2>1. Holders' = {}
    BY <1>9 DEF Crash, Halt, Holders
  <2>. QED
    BY <1>9, <2>1, FS_EmptySet, AsyncJobsAssumption DEF Crash, Halt, SlotInv, AsyncJobsAssumption
<1>10. ASSUME NEW i \in Job, Redispatch(i) PROVE SlotInv'
  <2>1. Holders' = Holders
    BY <1>10 DEF Redispatch, Holders, JobInv, BootInv
  <2>. QED
    BY <1>10, <2>1 DEF Redispatch, SlotInv
<1>11. ASSUME NEW i \in Job, ValidateSubmit(i) PROVE SlotInv'
  <2>1. Holders' = Holders
    BY <1>11 DEF ValidateSubmit, Holders, Goto
  <2>. QED
    BY <1>11, <2>1 DEF ValidateSubmit, SlotInv
<1>12. ASSUME NEW i \in Job, InsertRow(i) PROVE SlotInv'
  <2>1. Holders' = Holders
    BY <1>12 DEF InsertRow, Holders, Goto, Insertable
  <2>. QED
    BY <1>12, <2>1 DEF InsertRow, SlotInv
<1>13. ASSUME NEW i \in Job, Dispatch(i) PROVE SlotInv'
  <2>1. Holders' = Holders
    BY <1>13 DEF Dispatch, Holders, Goto
  <2>. QED
    BY <1>13, <2>1 DEF Dispatch, SlotInv
<1>14. ASSUME NEW i \in Job, Acquire(i) PROVE SlotInv'
  <2>1. i \notin Holders /\ Holders' = Holders \cup {i}
    BY <1>14 DEF Acquire, Goto, Holders
  <2>2. Cardinality(Holders') = Cardinality(Holders) + 1
    BY <2>1, HoldersFinite, FS_AddElement
  <2>. QED
    BY <1>14, <2>2, AsyncJobsAssumption DEF Acquire, SlotFree, SlotInv, AsyncJobsAssumption
<1>15. ASSUME NEW i \in Job, Fetch(i) PROVE SlotInv'
  <2>1. Holders' = Holders
    BY <1>15 DEF Fetch, Holders, Goto
  <2>. QED
    BY <1>15, <2>1 DEF Fetch, SlotInv
<1>16. ASSUME NEW i \in Job, Lookup(i) PROVE SlotInv'
  <2>1. Holders' = Holders
    BY <1>16 DEF Lookup, Holders, Goto
  <2>. QED
    BY <1>16, <2>1 DEF Lookup, SlotInv
<1>17. ASSUME NEW i \in Job, Refuse(i) PROVE SlotInv'
  <2>1. Holders' = Holders
    BY <1>17 DEF Refuse, Holders, Goto, Mark
  <2>. QED
    BY <1>17, <2>1 DEF Refuse, SlotInv
<1>18. ASSUME NEW i \in Job, RegisterCancel(i) PROVE SlotInv'
  <2>1. Holders' = Holders
    BY <1>18 DEF RegisterCancel, Holders, Goto
  <2>. QED
    BY <1>18, <2>1 DEF RegisterCancel, SlotInv
<1>19. ASSUME NEW i \in Job, MarkRunning(i) PROVE SlotInv'
  <2>1. Holders' = Holders
    BY <1>19 DEF MarkRunning, Holders, Goto, Mark
  <2>. QED
    BY <1>19, <2>1 DEF MarkRunning, SlotInv
<1>20. ASSUME NEW i \in Job, Launch(i) PROVE SlotInv'
  <2>1. Holders' = Holders
    BY <1>20 DEF Launch, Holders, Goto
  <2>. QED
    BY <1>20, <2>1 DEF Launch, SlotInv
<1>21. ASSUME NEW i \in Job, ExecReturn(i) PROVE SlotInv'
  <2>1. Holders' = Holders
    BY <1>21 DEF ExecReturn, Holders, Goto
  <2>. QED
    BY <1>21, <2>1 DEF ExecReturn, SlotInv
<1>22. ASSUME NEW i \in Job, Finish(i) PROVE SlotInv'
  <2>1. Holders' = Holders
    BY <1>22 DEF Finish, Holders, Goto, Mark
  <2>. QED
    BY <1>22, <2>1 DEF Finish, SlotInv
<1>23. ASSUME NEW i \in Job, Unregister(i) PROVE SlotInv'
  <2>1. Holders' = Holders
    BY <1>23 DEF Unregister, Holders, Goto
  <2>. QED
    BY <1>23, <2>1 DEF Unregister, SlotInv
<1>24. ASSUME NEW i \in Job, Release(i) PROVE SlotInv'
  <2>1. i \in Holders /\ Holders' = Holders \ {i}
    BY <1>24 DEF Release, Goto, Holders
  <2>2. Cardinality(Holders') = Cardinality(Holders) - 1
    BY <2>1, HoldersFinite, FS_RemoveElement
  <2>. QED
    BY <1>24, <2>2, AsyncJobsAssumption DEF Release, SlotInv, AsyncJobsAssumption
<1>25. ASSUME NEW i \in Job, Cancel(i) PROVE SlotInv'
  <2>1. Holders' = Holders
    BY <1>25 DEF Cancel, Holders
  <2>. QED
    BY <1>25, <2>1 DEF Cancel, SlotInv
<1>26. ASSUME NEW i \in Job, ShutdownVisit(i) PROVE SlotInv'
  <2>1. Holders' = Holders
    BY <1>26 DEF ShutdownVisit, Holders
  <2>. QED
    BY <1>26, <2>1 DEF ShutdownVisit, SlotInv
<1>27. ASSUME NEW a \in Agent, RegisterAgent(a) PROVE SlotInv'
  BY <1>27 DEF RegisterAgent, SlotInv, Holders
<1>28. ASSUME NEW a \in Agent, StopAgent(a) PROVE SlotInv'
  BY <1>28 DEF StopAgent, SlotInv, Holders
<1>29. ASSUME NEW a \in Agent, StartAgent(a) PROVE SlotInv'
  BY <1>29 DEF StartAgent, SlotInv, Holders
<1>30. ASSUME NEW a \in Agent, RemoveFromPool(a) PROVE SlotInv'
  BY <1>30 DEF RemoveFromPool, SlotInv, Holders
<1>31. ASSUME NEW a \in Agent, DeleteByAgent(a) PROVE SlotInv'
  BY <1>31 DEF DeleteByAgent, DeleteRows, HasRow, JobsOf, SlotInv, Holders
<1>32. ASSUME NEW a \in Agent, RemoveAgentRow(a) PROVE SlotInv'
  BY <1>32 DEF RemoveAgentRow, DeleteRows, HasRow, JobsOf, SlotInv, Holders
<1>33. CASE UNCHANGED vars
  BY <1>33 DEF vars, SlotInv, Holders
<1>. QED
  BY <1>1, <1>2, <1>3, <1>4, <1>5, <1>6, <1>7, <1>8, <1>9, <1>10, <1>11,
     <1>12, <1>13, <1>14, <1>15, <1>16, <1>17, <1>18, <1>19, <1>20,
     <1>21, <1>22, <1>23, <1>24, <1>25, <1>26, <1>27, <1>28, <1>29,
     <1>30, <1>31, <1>32, <1>33
  DEF Next, BootStep, SubmitStep, WorkerStep, RemoveStep

-----------------------------------------------------------------------------
(* Types.                                                                  *)

LEMMA TypeInit == Init => TypeOK
  BY AsyncJobsAssumption DEF Init, TypeOK, AsyncJobsAssumption, RowStates, Phases, Places

LEMMA TypeInductive == TypeOK /\ SlotInv /\ [Next]_vars => TypeOK'
<1> SUFFICES ASSUME TypeOK, SlotInv, [Next]_vars PROVE TypeOK'
  OBVIOUS
<1> USE DEF TypeOK, RowStates, Terminal, Phases, Places, Handler, Claiming, Claimed,
        HoldsSlot, disk, agents, daemon
<1>1. CASE StartDaemon
  BY <1>1, AsyncJobsAssumption DEF StartDaemon, AsyncJobsAssumption
<1>2. CASE Restore
  BY <1>2 DEF Restore
<1>3. CASE MarkOrphaned
  BY <1>3 DEF MarkOrphaned, AfterBoot
<1>4. CASE ListPending
  BY <1>4 DEF ListPending, Pending
<1>5. CASE Listen
  BY <1>5 DEF Listen
<1>6. CASE Signal
  BY <1>6 DEF Signal
<1>7. CASE RangeDone
  BY <1>7 DEF RangeDone
<1>8. CASE Exit
  BY <1>8 DEF Exit, Halt
<1>9. CASE Crash
  BY <1>9 DEF Crash, Halt
<1>10. ASSUME NEW i \in Job, Redispatch(i) PROVE TypeOK'
  BY <1>10 DEF Redispatch
<1>11. ASSUME NEW i \in Job, ValidateSubmit(i) PROVE TypeOK'
  BY <1>11 DEF ValidateSubmit, Goto
<1>12. ASSUME NEW i \in Job, InsertRow(i) PROVE TypeOK'
  BY <1>12 DEF InsertRow, Goto, Insertable
<1>13. ASSUME NEW i \in Job, Dispatch(i) PROVE TypeOK'
  BY <1>13 DEF Dispatch, Goto
<1>14. ASSUME NEW i \in Job, Acquire(i) PROVE TypeOK'
  BY <1>14 DEF Acquire, Goto, SlotFree
<1>15. ASSUME NEW i \in Job, Fetch(i) PROVE TypeOK'
  BY <1>15 DEF Fetch, Goto
<1>16. ASSUME NEW i \in Job, Lookup(i) PROVE TypeOK'
  BY <1>16 DEF Lookup, Goto
<1>17. ASSUME NEW i \in Job, Refuse(i) PROVE TypeOK'
  BY <1>17 DEF Refuse, Goto, Mark
<1>18. ASSUME NEW i \in Job, RegisterCancel(i) PROVE TypeOK'
  BY <1>18 DEF RegisterCancel, Goto
<1>19. ASSUME NEW i \in Job, MarkRunning(i) PROVE TypeOK'
  BY <1>19 DEF MarkRunning, Goto, Mark
<1>20. ASSUME NEW i \in Job, Launch(i) PROVE TypeOK'
  BY <1>20 DEF Launch, Goto
<1>21. ASSUME NEW i \in Job, ExecReturn(i) PROVE TypeOK'
  BY <1>21 DEF ExecReturn, Goto
<1>22. ASSUME NEW i \in Job, Finish(i) PROVE TypeOK'
  BY <1>22 DEF Finish, Goto, Mark
<1>23. ASSUME NEW i \in Job, Unregister(i) PROVE TypeOK'
  BY <1>23 DEF Unregister, Goto
<1>24. ASSUME NEW i \in Job, Release(i) PROVE TypeOK'
  <2>1. i \in Holders
    BY <1>24 DEF Release, Goto, Holders
  <2>2. sem - 1 \in Nat
    BY <2>1, HoldersFinite, FS_EmptySet, FS_CardinalityType DEF SlotInv
  <2>. QED
    BY <1>24, <2>2 DEF Release, Goto
<1>25. ASSUME NEW i \in Job, Cancel(i) PROVE TypeOK'
  BY <1>25 DEF Cancel
<1>26. ASSUME NEW i \in Job, ShutdownVisit(i) PROVE TypeOK'
  BY <1>26 DEF ShutdownVisit
<1>27. ASSUME NEW a \in Agent, RegisterAgent(a) PROVE TypeOK'
  BY <1>27 DEF RegisterAgent
<1>28. ASSUME NEW a \in Agent, StopAgent(a) PROVE TypeOK'
  BY <1>28 DEF StopAgent
<1>29. ASSUME NEW a \in Agent, StartAgent(a) PROVE TypeOK'
  BY <1>29 DEF StartAgent
<1>30. ASSUME NEW a \in Agent, RemoveFromPool(a) PROVE TypeOK'
  BY <1>30 DEF RemoveFromPool
<1>31. ASSUME NEW a \in Agent, DeleteByAgent(a) PROVE TypeOK'
  BY <1>31 DEF DeleteByAgent, DeleteRows, HasRow, JobsOf
<1>32. ASSUME NEW a \in Agent, RemoveAgentRow(a) PROVE TypeOK'
  BY <1>32 DEF RemoveAgentRow, DeleteRows, HasRow, JobsOf
<1>33. CASE UNCHANGED vars
  BY <1>33 DEF vars
<1>. QED
  BY <1>1, <1>2, <1>3, <1>4, <1>5, <1>6, <1>7, <1>8, <1>9, <1>10, <1>11,
     <1>12, <1>13, <1>14, <1>15, <1>16, <1>17, <1>18, <1>19, <1>20,
     <1>21, <1>22, <1>23, <1>24, <1>25, <1>26, <1>27, <1>28, <1>29,
     <1>30, <1>31, <1>32, <1>33
  DEF Next, BootStep, SubmitStep, WorkerStep, RemoveStep

-----------------------------------------------------------------------------
(* The inductive invariant.                                                *)

Inv == TypeOK /\ SlotInv /\ JobInv

LEMMA InvInductive == Inv /\ [Next]_vars => Inv'
  BY TypeInductive, SlotInductive, JobInductive DEF Inv

(* Every reachable state has the declared type, its slots counted and      *)
(* every row matched by its goroutine.                                     *)
THEOREM Invariance == Spec => []Inv
<1>1. Init => Inv
  BY TypeInit, SlotInit, JobInit DEF Inv
<1>. QED
  BY <1>1, InvInductive, PTL DEF Spec

(* The variables stay in their sets, the semaphore's counter included.     *)
THEOREM TypeCorrect == Spec => []TypeOK
<1>1. Inv => TypeOK
  BY DEF Inv
<1>. QED
  BY <1>1, Invariance, PTL

(* WithMaxConcurrent bounds the BINs that run at once, whatever is         *)
(* submitted, replayed, cancelled or restarted.                            *)
THEOREM ExecBoundHolds == Spec => []ExecBound
<1>1. Inv => ExecBound
  <2> SUFFICES ASSUME Inv PROVE ExecBound
    OBVIOUS
  <2>1. Running \subseteq Holders
    BY DEF Running, Holders, HoldsSlot, Claimed
  <2>2. Cardinality(Running) <= Cardinality(Holders)
    BY <2>1, HoldersFinite, FS_Subset
  <2>3. Cardinality(Running) \in Nat
    BY <2>1, HoldersFinite, FS_Subset, FS_CardinalityType
  <2>. QED
    BY <2>2, <2>3, AsyncJobsAssumption
    DEF ExecBound, Inv, SlotInv, TypeOK, AsyncJobsAssumption
<1>. QED
  BY <1>1, Invariance, PTL

(* No job's BIN is started twice, over any number of crashes and replays.  *)
THEOREM AtMostOnceHolds == Spec => []AtMostOnce
<1>1. Inv => AtMostOnce
  BY DEF Inv, JobInv, RowInv, AtMostOnce
<1>. QED
  BY <1>1, Invariance, PTL

(* After the boot pass a running row always has a live goroutine.          *)
THEOREM RunningIsOwnedHolds == Spec => []RunningIsOwned
<1>1. Inv => RunningIsOwned
  BY DEF Inv, JobInv, RowInv, RunningIsOwned
<1>. QED
  BY <1>1, Invariance, PTL

(* A terminal row changes only by being deleted.                           *)
THEOREM TerminalIsFinalHolds == Spec => TerminalIsFinal
<1> DEFINE Final == \A j \in Job : row[j] \in Terminal => row'[j] \in {row[j], "deleted"}
<1>1. Inv /\ [Next]_vars => [Final]_vars
  <2> SUFFICES ASSUME Inv, [Next]_vars PROVE Final
    OBVIOUS
  <2> USE DEF Inv, TypeOK, RowStates, Terminal, disk, agents
  <2>1. CASE StartDaemon
    BY <2>1 DEF StartDaemon
  <2>2. CASE Restore
    BY <2>2 DEF Restore
  <2>3. CASE MarkOrphaned
    BY <2>3 DEF MarkOrphaned, AfterBoot
  <2>4. CASE ListPending
    BY <2>4 DEF ListPending, Pending
  <2>5. CASE Listen
    BY <2>5 DEF Listen
  <2>6. CASE Signal
    BY <2>6 DEF Signal
  <2>7. CASE RangeDone
    BY <2>7 DEF RangeDone
  <2>8. CASE Exit
    BY <2>8 DEF Exit, Halt
  <2>9. CASE Crash
    BY <2>9 DEF Crash, Halt
  <2>10. ASSUME NEW i \in Job, Redispatch(i) PROVE Final
    BY <2>10 DEF Redispatch
  <2>11. ASSUME NEW i \in Job, ValidateSubmit(i) PROVE Final
    BY <2>11 DEF ValidateSubmit, Goto
  <2>12. ASSUME NEW i \in Job, InsertRow(i) PROVE Final
    BY <2>12 DEF InsertRow, Goto, Insertable, JobInv, PlaceInv
  <2>13. ASSUME NEW i \in Job, Dispatch(i) PROVE Final
    BY <2>13 DEF Dispatch, Goto
  <2>14. ASSUME NEW i \in Job, Acquire(i) PROVE Final
    BY <2>14 DEF Acquire, Goto, SlotFree
  <2>15. ASSUME NEW i \in Job, Fetch(i) PROVE Final
    BY <2>15 DEF Fetch, Goto
  <2>16. ASSUME NEW i \in Job, Lookup(i) PROVE Final
    BY <2>16 DEF Lookup, Goto
  <2>17. ASSUME NEW i \in Job, Refuse(i) PROVE Final
    BY <2>17 DEF Refuse, Goto, Mark
  <2>18. ASSUME NEW i \in Job, RegisterCancel(i) PROVE Final
    BY <2>18 DEF RegisterCancel, Goto
  <2>19. ASSUME NEW i \in Job, MarkRunning(i) PROVE Final
    BY <2>19 DEF MarkRunning, Goto, Mark
  <2>20. ASSUME NEW i \in Job, Launch(i) PROVE Final
    BY <2>20 DEF Launch, Goto
  <2>21. ASSUME NEW i \in Job, ExecReturn(i) PROVE Final
    BY <2>21 DEF ExecReturn, Goto
  <2>22. ASSUME NEW i \in Job, Finish(i) PROVE Final
    BY <2>22 DEF Finish, Goto, Mark
  <2>23. ASSUME NEW i \in Job, Unregister(i) PROVE Final
    BY <2>23 DEF Unregister, Goto
  <2>24. ASSUME NEW i \in Job, Release(i) PROVE Final
    BY <2>24 DEF Release, Goto
  <2>25. ASSUME NEW i \in Job, Cancel(i) PROVE Final
    BY <2>25 DEF Cancel
  <2>26. ASSUME NEW i \in Job, ShutdownVisit(i) PROVE Final
    BY <2>26 DEF ShutdownVisit
  <2>27. ASSUME NEW a \in Agent, RegisterAgent(a) PROVE Final
    BY <2>27 DEF RegisterAgent
  <2>28. ASSUME NEW a \in Agent, StopAgent(a) PROVE Final
    BY <2>28 DEF StopAgent
  <2>29. ASSUME NEW a \in Agent, StartAgent(a) PROVE Final
    BY <2>29 DEF StartAgent
  <2>30. ASSUME NEW a \in Agent, RemoveFromPool(a) PROVE Final
    BY <2>30 DEF RemoveFromPool
  <2>31. ASSUME NEW a \in Agent, DeleteByAgent(a) PROVE Final
    BY <2>31 DEF DeleteByAgent, DeleteRows, HasRow, JobsOf
  <2>32. ASSUME NEW a \in Agent, RemoveAgentRow(a) PROVE Final
    BY <2>32 DEF RemoveAgentRow, DeleteRows, HasRow, JobsOf
  <2>33. CASE UNCHANGED vars
    BY <2>33 DEF vars
  <2>. QED
    BY <2>1, <2>2, <2>3, <2>4, <2>5, <2>6, <2>7, <2>8, <2>9, <2>10, <2>11,
       <2>12, <2>13, <2>14, <2>15, <2>16, <2>17, <2>18, <2>19,
       <2>20, <2>21, <2>22, <2>23, <2>24, <2>25, <2>26, <2>27,
       <2>28, <2>29, <2>30, <2>31, <2>32, <2>33
    DEF Next, BootStep, SubmitStep, WorkerStep, RemoveStep
<1>. QED
  BY <1>1, Invariance, PTL DEF Spec, TerminalIsFinal

-----------------------------------------------------------------------------
(* The cancels map.                                                        *)

(* Exactly the goroutines between Store and Delete have an entry.          *)
CancelInv ==
  \A j \in Job : j \in cancels <=> pc[j] \in Claimed \cup {"mark", "unregister"}

LEMMA CancelInductive == Inv /\ CancelInv /\ [Next]_vars => CancelInv'
<1> SUFFICES ASSUME Inv, CancelInv, [Next]_vars PROVE CancelInv'
  OBVIOUS
<1> USE DEF Inv, TypeOK, Places, Handler, Claiming, Claimed, HoldsSlot, CancelInv,
        disk, agents, daemon
<1>1. CASE StartDaemon
  BY <1>1 DEF StartDaemon
<1>2. CASE Restore
  BY <1>2 DEF Restore
<1>3. CASE MarkOrphaned
  BY <1>3 DEF MarkOrphaned, AfterBoot
<1>4. CASE ListPending
  BY <1>4 DEF ListPending, Pending
<1>5. CASE Listen
  BY <1>5 DEF Listen
<1>6. CASE Signal
  BY <1>6 DEF Signal
<1>7. CASE RangeDone
  BY <1>7 DEF RangeDone
<1>8. CASE Exit
  BY <1>8 DEF Exit, Halt
<1>9. CASE Crash
  BY <1>9 DEF Crash, Halt
<1>10. ASSUME NEW i \in Job, Redispatch(i) PROVE CancelInv'
  BY <1>10 DEF Redispatch, JobInv, BootInv
<1>11. ASSUME NEW i \in Job, ValidateSubmit(i) PROVE CancelInv'
  BY <1>11 DEF ValidateSubmit, Goto
<1>12. ASSUME NEW i \in Job, InsertRow(i) PROVE CancelInv'
  BY <1>12 DEF InsertRow, Goto, Insertable
<1>13. ASSUME NEW i \in Job, Dispatch(i) PROVE CancelInv'
  BY <1>13 DEF Dispatch, Goto
<1>14. ASSUME NEW i \in Job, Acquire(i) PROVE CancelInv'
  BY <1>14 DEF Acquire, Goto, SlotFree
<1>15. ASSUME NEW i \in Job, Fetch(i) PROVE CancelInv'
  BY <1>15 DEF Fetch, Goto
<1>16. ASSUME NEW i \in Job, Lookup(i) PROVE CancelInv'
  BY <1>16 DEF Lookup, Goto
<1>17. ASSUME NEW i \in Job, Refuse(i) PROVE CancelInv'
  BY <1>17 DEF Refuse, Goto, Mark
<1>18. ASSUME NEW i \in Job, RegisterCancel(i) PROVE CancelInv'
  BY <1>18 DEF RegisterCancel, Goto
<1>19. ASSUME NEW i \in Job, MarkRunning(i) PROVE CancelInv'
  BY <1>19 DEF MarkRunning, Goto, Mark
<1>20. ASSUME NEW i \in Job, Launch(i) PROVE CancelInv'
  BY <1>20 DEF Launch, Goto
<1>21. ASSUME NEW i \in Job, ExecReturn(i) PROVE CancelInv'
  BY <1>21 DEF ExecReturn, Goto
<1>22. ASSUME NEW i \in Job, Finish(i) PROVE CancelInv'
  BY <1>22 DEF Finish, Goto, Mark
<1>23. ASSUME NEW i \in Job, Unregister(i) PROVE CancelInv'
  BY <1>23 DEF Unregister, Goto
<1>24. ASSUME NEW i \in Job, Release(i) PROVE CancelInv'
  BY <1>24 DEF Release, Goto
<1>25. ASSUME NEW i \in Job, Cancel(i) PROVE CancelInv'
  BY <1>25 DEF Cancel
<1>26. ASSUME NEW i \in Job, ShutdownVisit(i) PROVE CancelInv'
  BY <1>26 DEF ShutdownVisit
<1>27. ASSUME NEW a \in Agent, RegisterAgent(a) PROVE CancelInv'
  BY <1>27 DEF RegisterAgent
<1>28. ASSUME NEW a \in Agent, StopAgent(a) PROVE CancelInv'
  BY <1>28 DEF StopAgent
<1>29. ASSUME NEW a \in Agent, StartAgent(a) PROVE CancelInv'
  BY <1>29 DEF StartAgent
<1>30. ASSUME NEW a \in Agent, RemoveFromPool(a) PROVE CancelInv'
  BY <1>30 DEF RemoveFromPool
<1>31. ASSUME NEW a \in Agent, DeleteByAgent(a) PROVE CancelInv'
  BY <1>31 DEF DeleteByAgent, DeleteRows, HasRow, JobsOf
<1>32. ASSUME NEW a \in Agent, RemoveAgentRow(a) PROVE CancelInv'
  BY <1>32 DEF RemoveAgentRow, DeleteRows, HasRow, JobsOf
<1>33. CASE UNCHANGED vars
  BY <1>33 DEF vars
<1>. QED
  BY <1>1, <1>2, <1>3, <1>4, <1>5, <1>6, <1>7, <1>8, <1>9, <1>10, <1>11,
     <1>12, <1>13, <1>14, <1>15, <1>16, <1>17, <1>18, <1>19, <1>20,
     <1>21, <1>22, <1>23, <1>24, <1>25, <1>26, <1>27, <1>28, <1>29,
     <1>30, <1>31, <1>32, <1>33
  DEF Next, BootStep, SubmitStep, WorkerStep, RemoveStep

(* A claimed job can always be cancelled, and no entry outlives its        *)
(* goroutine.                                                              *)
THEOREM CancelCoherentHolds == Spec => []CancelCoherent
<1>1. Init => CancelInv
  BY DEF Init, CancelInv, Claimed
<1>2. CancelInv => CancelCoherent
  BY DEF CancelInv, CancelCoherent
<1>. QED
  BY <1>1, <1>2, Invariance, CancelInductive, PTL DEF Spec

-----------------------------------------------------------------------------
(* Jobs and agents.                                                        *)

LEMMA JobsHaveAgentInductive ==
  ForeignKeys /\ Inv /\ JobsHaveAgent /\ [Next]_vars => JobsHaveAgent'
<1> SUFFICES ASSUME ForeignKeys, Inv, JobsHaveAgent, [Next]_vars PROVE JobsHaveAgent'
  OBVIOUS
<1> USE AsyncJobsAssumption
<1> USE DEF Inv, TypeOK, RowStates, Terminal, JobsHaveAgent, HasRow, AsyncJobsAssumption,
        disk, agents
<1>1. CASE StartDaemon
  BY <1>1 DEF StartDaemon
<1>2. CASE Restore
  BY <1>2 DEF Restore
<1>3. CASE MarkOrphaned
  BY <1>3 DEF MarkOrphaned, AfterBoot
<1>4. CASE ListPending
  BY <1>4 DEF ListPending, Pending
<1>5. CASE Listen
  BY <1>5 DEF Listen
<1>6. CASE Signal
  BY <1>6 DEF Signal
<1>7. CASE RangeDone
  BY <1>7 DEF RangeDone
<1>8. CASE Exit
  BY <1>8 DEF Exit, Halt
<1>9. CASE Crash
  BY <1>9 DEF Crash, Halt
<1>10. ASSUME NEW i \in Job, Redispatch(i) PROVE JobsHaveAgent'
  BY <1>10 DEF Redispatch
<1>11. ASSUME NEW i \in Job, ValidateSubmit(i) PROVE JobsHaveAgent'
  BY <1>11 DEF ValidateSubmit, Goto
<1>12. ASSUME NEW i \in Job, InsertRow(i) PROVE JobsHaveAgent'
  BY <1>12 DEF InsertRow, Goto, Insertable
<1>13. ASSUME NEW i \in Job, Dispatch(i) PROVE JobsHaveAgent'
  BY <1>13 DEF Dispatch, Goto
<1>14. ASSUME NEW i \in Job, Acquire(i) PROVE JobsHaveAgent'
  BY <1>14 DEF Acquire, Goto, SlotFree
<1>15. ASSUME NEW i \in Job, Fetch(i) PROVE JobsHaveAgent'
  BY <1>15 DEF Fetch, Goto
<1>16. ASSUME NEW i \in Job, Lookup(i) PROVE JobsHaveAgent'
  BY <1>16 DEF Lookup, Goto
<1>17. ASSUME NEW i \in Job, Refuse(i) PROVE JobsHaveAgent'
  BY <1>17 DEF Refuse, Goto, Mark
<1>18. ASSUME NEW i \in Job, RegisterCancel(i) PROVE JobsHaveAgent'
  BY <1>18 DEF RegisterCancel, Goto
<1>19. ASSUME NEW i \in Job, MarkRunning(i) PROVE JobsHaveAgent'
  BY <1>19 DEF MarkRunning, Goto, Mark
<1>20. ASSUME NEW i \in Job, Launch(i) PROVE JobsHaveAgent'
  BY <1>20 DEF Launch, Goto
<1>21. ASSUME NEW i \in Job, ExecReturn(i) PROVE JobsHaveAgent'
  BY <1>21 DEF ExecReturn, Goto
<1>22. ASSUME NEW i \in Job, Finish(i) PROVE JobsHaveAgent'
  BY <1>22 DEF Finish, Goto, Mark
<1>23. ASSUME NEW i \in Job, Unregister(i) PROVE JobsHaveAgent'
  BY <1>23 DEF Unregister, Goto
<1>24. ASSUME NEW i \in Job, Release(i) PROVE JobsHaveAgent'
  BY <1>24 DEF Release, Goto
<1>25. ASSUME NEW i \in Job, Cancel(i) PROVE JobsHaveAgent'
  BY <1>25 DEF Cancel
<1>26. ASSUME NEW i \in Job, ShutdownVisit(i) PROVE JobsHaveAgent'
  BY <1>26 DEF ShutdownVisit
<1>27. ASSUME NEW a \in Agent, RegisterAgent(a) PROVE JobsHaveAgent'
  BY <1>27 DEF RegisterAgent
<1>28. ASSUME NEW a \in Agent, StopAgent(a) PROVE JobsHaveAgent'
  BY <1>28 DEF StopAgent
<1>29. ASSUME NEW a \in Agent, StartAgent(a) PROVE JobsHaveAgent'
  BY <1>29 DEF StartAgent
<1>30. ASSUME NEW a \in Agent, RemoveFromPool(a) PROVE JobsHaveAgent'
  BY <1>30 DEF RemoveFromPool
<1>31. ASSUME NEW a \in Agent, DeleteByAgent(a) PROVE JobsHaveAgent'
  BY <1>31 DEF DeleteByAgent, DeleteRows, HasRow, JobsOf
<1>32. ASSUME NEW a \in Agent, RemoveAgentRow(a) PROVE JobsHaveAgent'
  BY <1>32 DEF RemoveAgentRow, DeleteRows, HasRow, JobsOf
<1>33. CASE UNCHANGED vars
  BY <1>33 DEF vars
<1>. QED
  BY <1>1, <1>2, <1>3, <1>4, <1>5, <1>6, <1>7, <1>8, <1>9, <1>10, <1>11,
     <1>12, <1>13, <1>14, <1>15, <1>16, <1>17, <1>18, <1>19, <1>20,
     <1>21, <1>22, <1>23, <1>24, <1>25, <1>26, <1>27, <1>28, <1>29,
     <1>30, <1>31, <1>32, <1>33
  DEF Next, BootStep, SubmitStep, WorkerStep, RemoveStep

(* With foreign keys enforced a submit that raced with the removal of its  *)
(* agent leaves no row behind.                                             *)
THEOREM JobsHaveAgentHolds == ForeignKeys => (Spec => []JobsHaveAgent)
<1> SUFFICES ASSUME ForeignKeys PROVE Spec => []JobsHaveAgent
  OBVIOUS
<1>1. Init => JobsHaveAgent
  BY DEF Init, JobsHaveAgent, HasRow
<1>2. Inv /\ JobsHaveAgent /\ [Next]_vars => JobsHaveAgent'
  BY JobsHaveAgentInductive
<1>. QED
  BY <1>1, <1>2, Invariance, PTL DEF Spec

-----------------------------------------------------------------------------
(* The boot replay.                                                        *)

(* A pending row is on Boot's list or in somebody's hands.                 *)
ReplayInv ==
  \A j \in Job : row[j] = "pending" =>
    \/ phase \in BootPending
    \/ j \in replay
    \/ pc[j] \in Unclaimed

LEMMA ReplayInductive ==
  Cardinality(Job) <= ReplayLimit /\ Inv /\ ReplayInv /\ [Next]_vars => ReplayInv'
<1> SUFFICES ASSUME Cardinality(Job) <= ReplayLimit, Inv, ReplayInv, [Next]_vars
             PROVE  ReplayInv'
  OBVIOUS
<1> USE DEF Inv, TypeOK, RowStates, Terminal, Phases, Places, Handler, Claiming, Claimed,
        Unclaimed, BootPending, ReplayInv, disk, agents, daemon
<1>1. CASE StartDaemon
  BY <1>1 DEF StartDaemon
<1>2. CASE Restore
  BY <1>2 DEF Restore
<1>3. CASE MarkOrphaned
  BY <1>3 DEF MarkOrphaned, AfterBoot
<1>4. CASE ListPending
  <2>1. IsFiniteSet(Job) /\ ReplayLimit \in Nat /\ Pending \subseteq Job
    BY AsyncJobsAssumption DEF AsyncJobsAssumption, Pending
  <2>2. ASSUME NEW S \in SUBSET Pending, ~(Cardinality(S) < ReplayLimit)
        PROVE  S = Pending
    <3>1. Cardinality(S) \in Nat /\ Cardinality(Job) \in Nat
      BY <2>1, FS_Subset, FS_CardinalityType
    <3>2. Cardinality(S) = Cardinality(Job)
      BY <2>1, <2>2, <3>1, FS_Subset
    <3>3. S = Job
      BY <2>1, <3>2, FS_Subset
    <3>. QED
      BY <2>1, <3>3
  <2>. QED
    BY <1>4, <2>2 DEF ListPending, Pending
<1>5. CASE Listen
  BY <1>5 DEF Listen
<1>6. CASE Signal
  BY <1>6 DEF Signal
<1>7. CASE RangeDone
  BY <1>7 DEF RangeDone
<1>8. CASE Exit
  BY <1>8 DEF Exit, Halt
<1>9. CASE Crash
  BY <1>9 DEF Crash, Halt
<1>10. ASSUME NEW i \in Job, Redispatch(i) PROVE ReplayInv'
  BY <1>10 DEF Redispatch, JobInv, BootInv
<1>11. ASSUME NEW i \in Job, ValidateSubmit(i) PROVE ReplayInv'
  BY <1>11 DEF ValidateSubmit, Goto
<1>12. ASSUME NEW i \in Job, InsertRow(i) PROVE ReplayInv'
  BY <1>12 DEF InsertRow, Goto, Insertable
<1>13. ASSUME NEW i \in Job, Dispatch(i) PROVE ReplayInv'
  BY <1>13 DEF Dispatch, Goto
<1>14. ASSUME NEW i \in Job, Acquire(i) PROVE ReplayInv'
  BY <1>14 DEF Acquire, Goto, SlotFree
<1>15. ASSUME NEW i \in Job, Fetch(i) PROVE ReplayInv'
  BY <1>15 DEF Fetch, Goto, HasRow
<1>16. ASSUME NEW i \in Job, Lookup(i) PROVE ReplayInv'
  BY <1>16 DEF Lookup, Goto
<1>17. ASSUME NEW i \in Job, Refuse(i) PROVE ReplayInv'
  BY <1>17 DEF Refuse, Goto, Mark
<1>18. ASSUME NEW i \in Job, RegisterCancel(i) PROVE ReplayInv'
  BY <1>18 DEF RegisterCancel, Goto
<1>19. ASSUME NEW i \in Job, MarkRunning(i) PROVE ReplayInv'
  BY <1>19 DEF MarkRunning, Goto, Mark
<1>20. ASSUME NEW i \in Job, Launch(i) PROVE ReplayInv'
  BY <1>20 DEF Launch, Goto
<1>21. ASSUME NEW i \in Job, ExecReturn(i) PROVE ReplayInv'
  BY <1>21 DEF ExecReturn, Goto
<1>22. ASSUME NEW i \in Job, Finish(i) PROVE ReplayInv'
  BY <1>22 DEF Finish, Goto, Mark
<1>23. ASSUME NEW i \in Job, Unregister(i) PROVE ReplayInv'
  BY <1>23 DEF Unregister, Goto
<1>24. ASSUME NEW i \in Job, Release(i) PROVE ReplayInv'
  BY <1>24 DEF Release, Goto
<1>25. ASSUME NEW i \in Job, Cancel(i) PROVE ReplayInv'
  BY <1>25 DEF Cancel
<1>26. ASSUME NEW i \in Job, ShutdownVisit(i) PROVE ReplayInv'
  BY <1>26 DEF ShutdownVisit
<1>27. ASSUME NEW a \in Agent, RegisterAgent(a) PROVE ReplayInv'
  BY <1>27 DEF RegisterAgent
<1>28. ASSUME NEW a \in Agent, StopAgent(a) PROVE ReplayInv'
  BY <1>28 DEF StopAgent
<1>29. ASSUME NEW a \in Agent, StartAgent(a) PROVE ReplayInv'
  BY <1>29 DEF StartAgent
<1>30. ASSUME NEW a \in Agent, RemoveFromPool(a) PROVE ReplayInv'
  BY <1>30 DEF RemoveFromPool
<1>31. ASSUME NEW a \in Agent, DeleteByAgent(a) PROVE ReplayInv'
  BY <1>31 DEF DeleteByAgent, DeleteRows, HasRow, JobsOf
<1>32. ASSUME NEW a \in Agent, RemoveAgentRow(a) PROVE ReplayInv'
  BY <1>32 DEF RemoveAgentRow, DeleteRows, HasRow, JobsOf
<1>33. CASE UNCHANGED vars
  BY <1>33 DEF vars
<1>. QED
  BY <1>1, <1>2, <1>3, <1>4, <1>5, <1>6, <1>7, <1>8, <1>9, <1>10, <1>11,
     <1>12, <1>13, <1>14, <1>15, <1>16, <1>17, <1>18, <1>19, <1>20,
     <1>21, <1>22, <1>23, <1>24, <1>25, <1>26, <1>27, <1>28, <1>29,
     <1>30, <1>31, <1>32, <1>33
  DEF Next, BootStep, SubmitStep, WorkerStep, RemoveStep

(* As long as Boot's limit covers the table, no pending row is forgotten.  *)
THEOREM PendingIsOwnedHolds ==
  Cardinality(Job) <= ReplayLimit => (Spec => []PendingIsOwned)
<1> SUFFICES ASSUME Cardinality(Job) <= ReplayLimit PROVE Spec => []PendingIsOwned
  OBVIOUS
<1>1. Init => ReplayInv
  BY DEF Init, ReplayInv
<1>2. Inv /\ ReplayInv /\ [Next]_vars => ReplayInv'
  BY ReplayInductive
<1>3. Inv /\ ReplayInv => PendingIsOwned
  BY DEF Inv, JobInv, BootInv, ReplayInv, PendingIsOwned, Accepting, BootPending, Unclaimed
<1>. QED
  BY <1>1, <1>2, <1>3, Invariance, PTL DEF Spec

-----------------------------------------------------------------------------
(* Refinement.                                                             *)

Started == {j \in Job : launches[j] > 0}

(* The table, with the BINs started, implements JobLifecycle: every step   *)
(* of the daemon is a step of one row's life, the loss of all running rows *)
(* at once, the deletion of an agent's rows, or invisible.                 *)
THEOREM LifecycleRefinement == Spec => ImplementsLifecycle
<1>1. Init => Lifecycle!LifeInit
  BY DEF Init, Lifecycle!LifeInit
<1>2. Inv /\ [Next]_vars => [Lifecycle!LifeNext]_(Lifecycle!lifeVars)
  <2> SUFFICES ASSUME Inv, [Next]_vars
               PROVE  Lifecycle!LifeNext \/ UNCHANGED <<row, Started>>
    BY DEF Lifecycle!lifeVars, Started
  <2> USE DEF Inv, TypeOK, RowStates, Terminal, Started, disk, agents
  <2>1. CASE StartDaemon
    BY <2>1 DEF StartDaemon
  <2>2. CASE Restore
    BY <2>2 DEF Restore
  <2>3. CASE MarkOrphaned
    BY <2>3 DEF MarkOrphaned, AfterBoot, Lifecycle!LifeNext, Lifecycle!Orphan
  <2>4. CASE ListPending
    BY <2>4 DEF ListPending, Pending
  <2>5. CASE Listen
    BY <2>5 DEF Listen
  <2>6. CASE Signal
    BY <2>6 DEF Signal
  <2>7. CASE RangeDone
    BY <2>7 DEF RangeDone
  <2>8. CASE Exit
    BY <2>8 DEF Exit, Halt
  <2>9. CASE Crash
    BY <2>9 DEF Crash, Halt
  <2>10. ASSUME NEW i \in Job, Redispatch(i) PROVE Lifecycle!LifeNext \/ UNCHANGED <<row, Started>>
    BY <2>10 DEF Redispatch
  <2>11. ASSUME NEW i \in Job, ValidateSubmit(i) PROVE Lifecycle!LifeNext \/ UNCHANGED <<row, Started>>
    BY <2>11 DEF ValidateSubmit, Goto
  <2>12. ASSUME NEW i \in Job, InsertRow(i) PROVE Lifecycle!LifeNext \/ UNCHANGED <<row, Started>>
    <3>1. CASE row' = [row EXCEPT ![i] = "pending"] /\ row[i] = "none" /\ UNCHANGED launches
      BY <3>1 DEF Lifecycle!LifeNext, Lifecycle!Insert, Lifecycle!Move
    <3>2. CASE UNCHANGED <<row, launches>>
      BY <3>2
    <3>. QED
      BY <2>12, <3>1, <3>2 DEF InsertRow, Goto, JobInv, PlaceInv
  <2>13. ASSUME NEW i \in Job, Dispatch(i) PROVE Lifecycle!LifeNext \/ UNCHANGED <<row, Started>>
    BY <2>13 DEF Dispatch, Goto
  <2>14. ASSUME NEW i \in Job, Acquire(i) PROVE Lifecycle!LifeNext \/ UNCHANGED <<row, Started>>
    BY <2>14 DEF Acquire, Goto, SlotFree
  <2>15. ASSUME NEW i \in Job, Fetch(i) PROVE Lifecycle!LifeNext \/ UNCHANGED <<row, Started>>
    BY <2>15 DEF Fetch, Goto
  <2>16. ASSUME NEW i \in Job, Lookup(i) PROVE Lifecycle!LifeNext \/ UNCHANGED <<row, Started>>
    BY <2>16 DEF Lookup, Goto
  <2>17. ASSUME NEW i \in Job, Refuse(i) PROVE Lifecycle!LifeNext \/ UNCHANGED <<row, Started>>
    <3>1. CASE row[i] = "pending"
      BY <2>17, <3>1 DEF Refuse, Mark, Lifecycle!LifeNext, Lifecycle!Fail, Lifecycle!Move
    <3>2. CASE row[i] # "pending"
      BY <2>17, <3>2 DEF Refuse, Goto, Mark, JobInv, PlaceInv, Unclaimed
    <3>. QED
      BY <3>1, <3>2
  <2>18. ASSUME NEW i \in Job, RegisterCancel(i) PROVE Lifecycle!LifeNext \/ UNCHANGED <<row, Started>>
    BY <2>18 DEF RegisterCancel, Goto
  <2>19. ASSUME NEW i \in Job, MarkRunning(i) PROVE Lifecycle!LifeNext \/ UNCHANGED <<row, Started>>
    <3>1. CASE row[i] = "pending"
      BY <2>19, <3>1 DEF MarkRunning, Mark, Lifecycle!LifeNext, Lifecycle!Claim, Lifecycle!Move
    <3>2. CASE row[i] # "pending"
      BY <2>19, <3>2 DEF MarkRunning, Goto, Mark, JobInv, PlaceInv, Unclaimed, Claiming
    <3>. QED
      BY <3>1, <3>2
  <2>20. ASSUME NEW i \in Job, Launch(i) PROVE Lifecycle!LifeNext \/ UNCHANGED <<row, Started>>
    <3>1. launches[i] = 0 /\ row[i] \in {"running", "deleted"}
      BY <2>20 DEF Launch, Goto, JobInv, PlaceInv, Claimed
    <3>2. Started' = Started \cup {i} /\ i \notin Started
      BY <2>20, <3>1 DEF Launch
    <3>3. Lifecycle!Launch(i)
      BY <2>20, <3>1, <3>2 DEF Launch, Lifecycle!Launch
    <3>. QED
      BY <3>3 DEF Lifecycle!LifeNext
  <2>21. ASSUME NEW i \in Job, ExecReturn(i) PROVE Lifecycle!LifeNext \/ UNCHANGED <<row, Started>>
    BY <2>21 DEF ExecReturn, Goto
  <2>22. ASSUME NEW i \in Job, Finish(i) PROVE Lifecycle!LifeNext \/ UNCHANGED <<row, Started>>
    <3>1. row[i] \in {"running", "deleted"}
      BY <2>22 DEF Finish, Goto, JobInv, PlaceInv, Claimed
    <3>2. CASE row[i] = "deleted"
      BY <2>22, <3>2 DEF Finish, Mark
    <3>3. CASE row[i] = "running" /\ row' = [row EXCEPT ![i] = "error"]
      BY <2>22, <3>3 DEF Finish, Lifecycle!LifeNext, Lifecycle!Fail, Lifecycle!Move
    <3>4. CASE row[i] = "running" /\ row' \in {[row EXCEPT ![i] = s] : s \in {"done", "cancelled"}}
      BY <2>22, <3>4 DEF Finish, Lifecycle!LifeNext, Lifecycle!Finish, Lifecycle!Move
    <3>. QED
      BY <2>22, <3>1, <3>2, <3>3, <3>4 DEF Finish, Mark
  <2>23. ASSUME NEW i \in Job, Unregister(i) PROVE Lifecycle!LifeNext \/ UNCHANGED <<row, Started>>
    BY <2>23 DEF Unregister, Goto
  <2>24. ASSUME NEW i \in Job, Release(i) PROVE Lifecycle!LifeNext \/ UNCHANGED <<row, Started>>
    BY <2>24 DEF Release, Goto
  <2>25. ASSUME NEW i \in Job, Cancel(i) PROVE Lifecycle!LifeNext \/ UNCHANGED <<row, Started>>
    BY <2>25 DEF Cancel
  <2>26. ASSUME NEW i \in Job, ShutdownVisit(i) PROVE Lifecycle!LifeNext \/ UNCHANGED <<row, Started>>
    BY <2>26 DEF ShutdownVisit
  <2>27. ASSUME NEW a \in Agent, RegisterAgent(a) PROVE Lifecycle!LifeNext \/ UNCHANGED <<row, Started>>
    BY <2>27 DEF RegisterAgent
  <2>28. ASSUME NEW a \in Agent, StopAgent(a) PROVE Lifecycle!LifeNext \/ UNCHANGED <<row, Started>>
    BY <2>28 DEF StopAgent
  <2>29. ASSUME NEW a \in Agent, StartAgent(a) PROVE Lifecycle!LifeNext \/ UNCHANGED <<row, Started>>
    BY <2>29 DEF StartAgent
  <2>30. ASSUME NEW a \in Agent, RemoveFromPool(a) PROVE Lifecycle!LifeNext \/ UNCHANGED <<row, Started>>
    BY <2>30 DEF RemoveFromPool
  <2>31. ASSUME NEW a \in Agent, DeleteByAgent(a) PROVE Lifecycle!LifeNext \/ UNCHANGED <<row, Started>>
    <3> DEFINE S == {j \in JobsOf(a) : HasRow(j)}
    <3>1. CASE UNCHANGED <<row, launches>>
      BY <3>1
    <3>2. CASE DeleteRows(JobsOf(a)) /\ UNCHANGED launches
      <4>1. Lifecycle!Delete(S)
        BY <3>2 DEF DeleteRows, JobsOf, HasRow, Lifecycle!Delete
      <4>2. S \in SUBSET Job
        BY DEF JobsOf
      <4>. QED
        BY <4>1, <4>2 DEF Lifecycle!LifeNext
    <3>. QED
      BY <2>31, <3>1, <3>2 DEF DeleteByAgent
  <2>32. ASSUME NEW a \in Agent, RemoveAgentRow(a) PROVE Lifecycle!LifeNext \/ UNCHANGED <<row, Started>>
    <3> DEFINE S == {j \in JobsOf(a) : HasRow(j)}
    <3>1. CASE UNCHANGED <<row, launches>>
      BY <3>1
    <3>2. CASE DeleteRows(JobsOf(a)) /\ UNCHANGED launches
      <4>1. Lifecycle!Delete(S)
        BY <3>2 DEF DeleteRows, JobsOf, HasRow, Lifecycle!Delete
      <4>2. S \in SUBSET Job
        BY DEF JobsOf
      <4>. QED
        BY <4>1, <4>2 DEF Lifecycle!LifeNext
    <3>. QED
      BY <2>32, <3>1, <3>2 DEF RemoveAgentRow
  <2>33. CASE UNCHANGED vars
    BY <2>33 DEF vars
  <2>. QED
    BY <2>1, <2>2, <2>3, <2>4, <2>5, <2>6, <2>7, <2>8, <2>9, <2>10, <2>11,
       <2>12, <2>13, <2>14, <2>15, <2>16, <2>17, <2>18, <2>19,
       <2>20, <2>21, <2>22, <2>23, <2>24, <2>25, <2>26, <2>27,
       <2>28, <2>29, <2>30, <2>31, <2>32, <2>33
    DEF Next, BootStep, SubmitStep, WorkerStep, RemoveStep
<1>. QED
  BY <1>1, <1>2, Invariance, PTL DEF Spec, ImplementsLifecycle, Lifecycle!LifeSpec
=============================================================================

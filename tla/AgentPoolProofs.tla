--------------------------- MODULE AgentPoolProofs ---------------------------
(***************************************************************************)
(* Proofs about the supervision pool, for every set of agents and clients, *)
(* every capacity and every number of supervisors and calls.               *)
(*                                                                         *)
(* SlotsAccounted is inductive together with TypeOK and SpawnInv, which    *)
(* says that supervisors are used in the order of their numbers.  That an  *)
(* agent has one supervisor, which can be cancelled, is proved for calls   *)
(* that do not overlap: OneInv says that the done channel of an agent is   *)
(* that of its only supervisor, from its registration on.                  *)
(***************************************************************************)
EXTENDS AgentPool, FiniteSetTheorems, TLAPS

LEMMA HoldersFinite == IsFiniteSet(Holders)
<1>1. IsFiniteSet(Sup)
  BY FS_Interval, AgentPoolAssumption DEF Sup, AgentPoolAssumption
<1>. QED
  BY <1>1, FS_Subset DEF Holders

(* What is used of the numbers that name supervisors.                      *)
LEMMA SupFacts ==
  /\ \A k \in Sup : k \in Nat /\ k # 0 /\ k \in 0..MaxSup
  /\ \A k \in 0..MaxSup : k # 0 => k \in Sup
  /\ spawned \in 0..MaxSup /\ spawned < MaxSup
       => spawned + 1 \in Sup /\ spawned + 1 \in 0..MaxSup
  BY AgentPoolAssumption DEF AgentPoolAssumption, Sup

-----------------------------------------------------------------------------
(* Supervisors are spawned in the order of their numbers, and for an agent *)
(* that was given to Add, as is every agent a call names.                  *)
SpawnInv ==
  /\ \A k \in Sup :
       /\ k > spawned => pc[k] = "unused"
       /\ pc[k] # "unused" => of[k] \in added
  /\ \A c \in Client : call[c].at # "none" => call[c].agent \in added

LEMMA MoveFacts ==
  ASSUME TypeOK, NEW c \in Client, NEW p \in Places, NEW w \in SUBSET (0..MaxSup),
         Move(c, p, w)
  PROVE  /\ call' \in [Client -> Calls]
         /\ call'[c].at = p /\ call'[c].wait = w /\ call'[c].agent = call[c].agent
         /\ \A d \in Client \ {c} : call'[d] = call[d]
  BY DEF TypeOK, Calls, Move

LEMMA ReturnFacts ==
  ASSUME TypeOK, NEW c \in Client, Return(c)
  PROVE  /\ call' \in [Client -> Calls]
         /\ call'[c].at = "none"
         /\ \A d \in Client \ {c} : call'[d] = call[d]
  BY DEF TypeOK, Calls, Return, NoCall, Places

LEMMA CancelFacts ==
  ASSUME TypeOK, NEW k \in 0..MaxSup, CancelCtx(k)
  PROVE  cancelled' \subseteq Sup
<1>1. k # 0 => k \in Sup
  BY AgentPoolAssumption DEF AgentPoolAssumption, Sup
<1>. QED
  BY <1>1 DEF TypeOK, CancelCtx

LEMMA SpawnInductive == TypeOK /\ SpawnInv /\ [Next]_vars => SpawnInv'
<1> SUFFICES ASSUME TypeOK, SpawnInv, [Next]_vars PROVE SpawnInv'
  OBVIOUS
<1> USE SupFacts DEF TypeOK, SpawnInv, Places, pool, sups, reqs
<1>1. CASE Shutdown
  BY <1>1 DEF Shutdown
<1>2. ASSUME NEW a \in Agent, Add(a) PROVE SpawnInv'
  BY <1>2 DEF Add, Spawn
<1>3. ASSUME NEW k \in Sup, NewSlot(k) PROVE SpawnInv'
  BY <1>3 DEF NewSlot, Goto, SlotFree
<1>4. ASSUME NEW k \in Sup, Created(k) PROVE SpawnInv'
  BY <1>4 DEF Created, Goto
<1>5. ASSUME NEW k \in Sup, Register(k) PROVE SpawnInv'
  BY <1>5 DEF Register, Goto, Arm
<1>6. ASSUME NEW k \in Sup, Install(k) PROVE SpawnInv'
  BY <1>6 DEF Install, Goto, Arm
<1>7. ASSUME NEW k \in Sup, Acquire(k) PROVE SpawnInv'
  BY <1>7 DEF Acquire, Goto, SlotFree, SetStatus
<1>8. ASSUME NEW k \in Sup, Returned(k) PROVE SpawnInv'
  BY <1>8 DEF Returned, Goto
<1>9. ASSUME NEW k \in Sup, Backoff(k) PROVE SpawnInv'
  BY <1>9 DEF Backoff, Goto
<1>10. ASSUME NEW k \in Sup, AttemptEnds(k) PROVE SpawnInv'
  BY <1>10 DEF AttemptEnds, Goto, SetStatus
<1>11. ASSUME NEW k \in Sup, Serve(k) PROVE SpawnInv'
  BY <1>11 DEF Serve, Goto, SetStatus
<1>12. ASSUME NEW k \in Sup, ProbeStart(k) PROVE SpawnInv'
  BY <1>12 DEF ProbeStart, ProbeAt
<1>13. ASSUME NEW k \in Sup, ProbeAnswered(k) PROVE SpawnInv'
  BY <1>13 DEF ProbeAnswered, ProbeAt
<1>14. ASSUME NEW k \in Sup, ProbeReady(k) PROVE SpawnInv'
  BY <1>14 DEF ProbeReady, ProbeAt, SetStatus
<1>15. ASSUME NEW k \in Sup, ProbeAgain(k) PROVE SpawnInv'
  BY <1>15 DEF ProbeAgain, ProbeAt
<1>16. ASSUME NEW k \in Sup, ProbeGivesUp(k) PROVE SpawnInv'
  BY <1>16 DEF ProbeGivesUp, ProbeAt, SetStatus
<1>17. ASSUME NEW k \in Sup, ProbeEnds(k) PROVE SpawnInv'
  BY <1>17 DEF ProbeEnds, ProbeAt
<1>18. ASSUME NEW c \in Client, StartCancel(c) PROVE SpawnInv'
  BY <1>18, MoveFacts, ReturnFacts DEF StartCancel, At, CancelCtx
<1>19. ASSUME NEW c \in Client, StartSpawn(c) PROVE SpawnInv'
  BY <1>19, MoveFacts, ReturnFacts DEF StartSpawn, At, Spawn
<1>20. ASSUME NEW c \in Client, StartTimeout(c) PROVE SpawnInv'
  BY <1>20, MoveFacts, ReturnFacts DEF StartTimeout, At
<1>21. ASSUME NEW c \in Client, StopLookup(c) PROVE SpawnInv'
  BY <1>21, MoveFacts, ReturnFacts DEF StopLookup, At
<1>22. ASSUME NEW c \in Client, RemoveDelete(c) PROVE SpawnInv'
  BY <1>22, MoveFacts, ReturnFacts DEF RemoveDelete, At
<1>23. ASSUME NEW c \in Client, CancelRetry(c) PROVE SpawnInv'
  BY <1>23, MoveFacts, ReturnFacts DEF CancelRetry, At, CancelCtx
<1>24. ASSUME NEW c \in Client, Signal(c) PROVE SpawnInv'
  BY <1>24, MoveFacts, ReturnFacts DEF Signal, At, Attempts
<1>25. ASSUME NEW c \in Client, Signalled(c) PROVE SpawnInv'
  BY <1>25, MoveFacts, ReturnFacts DEF Signalled, At
<1>26. ASSUME NEW c \in Client, RemoveReturn(c) PROVE SpawnInv'
  BY <1>26, MoveFacts, ReturnFacts DEF RemoveReturn, At
<1>27. ASSUME NEW c \in Client, NEW op \in Ops, NEW a \in Agent, Call(c, op, a)
     PROVE  SpawnInv'
  BY <1>27 DEF Call, Calls, NoCall
<1>28. CASE UNCHANGED vars
  BY <1>28 DEF vars
<1>. QED
  BY <1>1, <1>2, <1>3, <1>4, <1>5, <1>6, <1>7, <1>8, <1>9, <1>10, <1>11,
     <1>12, <1>13, <1>14, <1>15, <1>16, <1>17, <1>18, <1>19, <1>20,
     <1>21, <1>22, <1>23, <1>24, <1>25, <1>26, <1>27, <1>28
  DEF Next, Step, ProbeStep, CallStep

-----------------------------------------------------------------------------
(* Slots.                                                                  *)

LEMMA SlotInductive ==
  TypeOK /\ SpawnInv /\ SlotsAccounted /\ [Next]_vars => SlotsAccounted'
<1> SUFFICES ASSUME TypeOK, SpawnInv, SlotsAccounted, [Next]_vars
             PROVE  SlotsAccounted'
  OBVIOUS
<1> USE SupFacts DEF TypeOK, SpawnInv, pool, sups, reqs
<1>1. CASE Shutdown
  <2>1. Holders' = Holders
    BY <1>1 DEF Shutdown, Holders
  <2>. QED
    BY <1>1, <2>1 DEF Shutdown, SlotsAccounted
<1>2. ASSUME NEW a \in Agent, Add(a) PROVE SlotsAccounted'
  <2>1. Holders' = Holders
    BY <1>2 DEF Add, Spawn, Holders
  <2>. QED
    BY <1>2, <2>1 DEF Add, Spawn, SlotsAccounted
<1>3. ASSUME NEW k \in Sup, NewSlot(k) PROVE SlotsAccounted'
  <2>1. CASE Goto(k, "new", "create") /\ SlotFree /\ sem' = sem + 1
    <3>1. k \notin Holders /\ Holders' = Holders \cup {k}
      BY <2>1 DEF Goto, Holders
    <3>2. Cardinality(Holders') = Cardinality(Holders) + 1
      BY <3>1, HoldersFinite, FS_AddElement
    <3>. QED
      BY <2>1, <3>2, AgentPoolAssumption
      DEF SlotFree, AgentPoolAssumption, SlotsAccounted
  <2>2. CASE Goto(k, "new", "over") /\ UNCHANGED sem
    <3>1. Holders' = Holders
      BY <2>2 DEF Goto, Holders
    <3>. QED
      BY <2>2, <3>1 DEF SlotsAccounted
  <2>. QED
    BY <1>3, <2>1, <2>2 DEF NewSlot
<1>4. ASSUME NEW k \in Sup, Created(k) PROVE SlotsAccounted'
  <2>1. k \in Holders /\ Holders' = Holders \ {k}
    BY <1>4 DEF Created, Goto, Holders
  <2>2. Cardinality(Holders') = Cardinality(Holders) - 1
    BY <2>1, HoldersFinite, FS_RemoveElement
  <2>. QED
    BY <1>4, <2>2, AgentPoolAssumption
    DEF Created, Goto, AgentPoolAssumption, SlotsAccounted
<1>5. ASSUME NEW k \in Sup, Register(k) PROVE SlotsAccounted'
  <2>1. Holders' = Holders
    BY <1>5 DEF Register, Goto, Arm, Holders
  <2>. QED
    BY <1>5, <2>1 DEF Register, Goto, Arm, SlotsAccounted
<1>6. ASSUME NEW k \in Sup, Install(k) PROVE SlotsAccounted'
  <2>1. Holders' = Holders
    BY <1>6 DEF Install, Goto, Arm, Holders
  <2>. QED
    BY <1>6, <2>1 DEF Install, Goto, Arm, SlotsAccounted
<1>7. ASSUME NEW k \in Sup, Acquire(k) PROVE SlotsAccounted'
  <2>1. CASE Goto(k, "acquire", "attempt") /\ SlotFree /\ sem' = sem + 1
    <3>1. k \notin Holders /\ Holders' = Holders \cup {k}
      BY <2>1 DEF Goto, Holders
    <3>2. Cardinality(Holders') = Cardinality(Holders) + 1
      BY <3>1, HoldersFinite, FS_AddElement
    <3>. QED
      BY <2>1, <3>2, AgentPoolAssumption
      DEF SlotFree, AgentPoolAssumption, SlotsAccounted
  <2>2. CASE Goto(k, "acquire", "over") /\ UNCHANGED sem
    <3>1. Holders' = Holders
      BY <2>2 DEF Goto, Holders
    <3>. QED
      BY <2>2, <3>1 DEF SlotsAccounted
  <2>. QED
    BY <1>7, <2>1, <2>2 DEF Acquire
<1>8. ASSUME NEW k \in Sup, Returned(k) PROVE SlotsAccounted'
  <2>1. k \in Holders /\ Holders' = Holders \ {k}
    BY <1>8 DEF Returned, Goto, Holders
  <2>2. Cardinality(Holders') = Cardinality(Holders) - 1
    BY <2>1, HoldersFinite, FS_RemoveElement
  <2>. QED
    BY <1>8, <2>2, AgentPoolAssumption
    DEF Returned, Goto, AgentPoolAssumption, SlotsAccounted
<1>9. ASSUME NEW k \in Sup, Backoff(k) PROVE SlotsAccounted'
  <2>1. Holders' = Holders
    BY <1>9 DEF Backoff, Goto, Holders
  <2>. QED
    BY <1>9, <2>1 DEF Backoff, Goto, SlotsAccounted
<1>10. ASSUME NEW k \in Sup, AttemptEnds(k) PROVE SlotsAccounted'
  <2>1. Holders' = Holders
    BY <1>10 DEF AttemptEnds, Goto, SetStatus, Holders
  <2>. QED
    BY <1>10, <2>1 DEF AttemptEnds, Goto, SetStatus, SlotsAccounted
<1>11. ASSUME NEW k \in Sup, Serve(k) PROVE SlotsAccounted'
  <2>1. Holders' = Holders
    BY <1>11 DEF Serve, Goto, SetStatus, Holders
  <2>. QED
    BY <1>11, <2>1 DEF Serve, Goto, SetStatus, SlotsAccounted
<1>12. ASSUME NEW k \in Sup, ProbeStart(k) PROVE SlotsAccounted'
  <2>1. Holders' = Holders
    BY <1>12 DEF ProbeStart, ProbeAt, Holders
  <2>. QED
    BY <1>12, <2>1 DEF ProbeStart, ProbeAt, SlotsAccounted
<1>13. ASSUME NEW k \in Sup, ProbeAnswered(k) PROVE SlotsAccounted'
  <2>1. Holders' = Holders
    BY <1>13 DEF ProbeAnswered, ProbeAt, Holders
  <2>. QED
    BY <1>13, <2>1 DEF ProbeAnswered, ProbeAt, SlotsAccounted
<1>14. ASSUME NEW k \in Sup, ProbeReady(k) PROVE SlotsAccounted'
  <2>1. Holders' = Holders
    BY <1>14 DEF ProbeReady, ProbeAt, SetStatus, Holders
  <2>. QED
    BY <1>14, <2>1 DEF ProbeReady, ProbeAt, SetStatus, SlotsAccounted
<1>15. ASSUME NEW k \in Sup, ProbeAgain(k) PROVE SlotsAccounted'
  <2>1. Holders' = Holders
    BY <1>15 DEF ProbeAgain, ProbeAt, Holders
  <2>. QED
    BY <1>15, <2>1 DEF ProbeAgain, ProbeAt, SlotsAccounted
<1>16. ASSUME NEW k \in Sup, ProbeGivesUp(k) PROVE SlotsAccounted'
  <2>1. Holders' = Holders
    BY <1>16 DEF ProbeGivesUp, ProbeAt, SetStatus, Holders
  <2>. QED
    BY <1>16, <2>1 DEF ProbeGivesUp, ProbeAt, SetStatus, SlotsAccounted
<1>17. ASSUME NEW k \in Sup, ProbeEnds(k) PROVE SlotsAccounted'
  <2>1. Holders' = Holders
    BY <1>17 DEF ProbeEnds, ProbeAt, Holders
  <2>. QED
    BY <1>17, <2>1 DEF ProbeEnds, ProbeAt, SlotsAccounted
<1>18. ASSUME NEW c \in Client, StartCancel(c) PROVE SlotsAccounted'
  <2>1. Holders' = Holders
    BY <1>18 DEF StartCancel, At, CancelCtx, Holders
  <2>. QED
    BY <1>18, <2>1 DEF StartCancel, At, CancelCtx, SlotsAccounted
<1>19. ASSUME NEW c \in Client, StartSpawn(c) PROVE SlotsAccounted'
  <2>1. Holders' = Holders
    BY <1>19 DEF StartSpawn, At, Spawn, Holders
  <2>. QED
    BY <1>19, <2>1 DEF StartSpawn, At, Spawn, SlotsAccounted
<1>20. ASSUME NEW c \in Client, StartTimeout(c) PROVE SlotsAccounted'
  <2>1. Holders' = Holders
    BY <1>20 DEF StartTimeout, At, Holders
  <2>. QED
    BY <1>20, <2>1 DEF StartTimeout, At, SlotsAccounted
<1>21. ASSUME NEW c \in Client, StopLookup(c) PROVE SlotsAccounted'
  <2>1. Holders' = Holders
    BY <1>21 DEF StopLookup, At, Holders
  <2>. QED
    BY <1>21, <2>1 DEF StopLookup, At, SlotsAccounted
<1>22. ASSUME NEW c \in Client, RemoveDelete(c) PROVE SlotsAccounted'
  <2>1. Holders' = Holders
    BY <1>22 DEF RemoveDelete, At, Holders
  <2>. QED
    BY <1>22, <2>1 DEF RemoveDelete, At, SlotsAccounted
<1>23. ASSUME NEW c \in Client, CancelRetry(c) PROVE SlotsAccounted'
  <2>1. Holders' = Holders
    BY <1>23 DEF CancelRetry, At, CancelCtx, Holders
  <2>. QED
    BY <1>23, <2>1 DEF CancelRetry, At, CancelCtx, SlotsAccounted
<1>24. ASSUME NEW c \in Client, Signal(c) PROVE SlotsAccounted'
  <2>1. Holders' = Holders
    BY <1>24 DEF Signal, At, Attempts, Holders
  <2>. QED
    BY <1>24, <2>1 DEF Signal, At, Attempts, SlotsAccounted
<1>25. ASSUME NEW c \in Client, Signalled(c) PROVE SlotsAccounted'
  <2>1. Holders' = Holders
    BY <1>25 DEF Signalled, At, Holders
  <2>. QED
    BY <1>25, <2>1 DEF Signalled, At, SlotsAccounted
<1>26. ASSUME NEW c \in Client, RemoveReturn(c) PROVE SlotsAccounted'
  <2>1. Holders' = Holders
    BY <1>26 DEF RemoveReturn, At, Holders
  <2>. QED
    BY <1>26, <2>1 DEF RemoveReturn, At, SlotsAccounted
<1>27. ASSUME NEW c \in Client, NEW op \in Ops, NEW a \in Agent, Call(c, op, a)
     PROVE  SlotsAccounted'
  <2>1. Holders' = Holders
    BY <1>27 DEF Call, Calls, NoCall, Holders
  <2>. QED
    BY <1>27, <2>1 DEF Call, Calls, NoCall, SlotsAccounted
<1>28. CASE UNCHANGED vars
  BY <1>28 DEF vars, SlotsAccounted, Holders
<1>. QED
  BY <1>1, <1>2, <1>3, <1>4, <1>5, <1>6, <1>7, <1>8, <1>9, <1>10, <1>11,
     <1>12, <1>13, <1>14, <1>15, <1>16, <1>17, <1>18, <1>19, <1>20,
     <1>21, <1>22, <1>23, <1>24, <1>25, <1>26, <1>27, <1>28
  DEF Next, Step, ProbeStep, CallStep

-----------------------------------------------------------------------------
(* Types.                                                                  *)

LEMMA SemTyped == SlotsAccounted => sem \in 0..MaxConcurrent
  BY HoldersFinite, FS_CardinalityType, AgentPoolAssumption
  DEF SlotsAccounted, AgentPoolAssumption

LEMMA TypeInductive ==
  TypeOK /\ SpawnInv /\ SlotsAccounted /\ [Next]_vars => TypeOK'
<1> SUFFICES ASSUME TypeOK, SpawnInv, SlotsAccounted, [Next]_vars PROVE TypeOK'
  OBVIOUS
<1>0. sem' \in 0..MaxConcurrent
  <2>1. SlotsAccounted'
    BY SlotInductive
  <2>2. (SlotsAccounted => sem \in 0..MaxConcurrent)'
    BY SemTyped, PTL
  <2>. QED
    BY <2>1, <2>2
<1> USE SupFacts DEF TypeOK, SpawnInv, Statuses, Places, pool, sups, reqs
<1>1. CASE Shutdown
  BY <1>1, <1>0 DEF Shutdown
<1>2. ASSUME NEW a \in Agent, Add(a) PROVE TypeOK'
  BY <1>2, <1>0 DEF Add, Spawn
<1>3. ASSUME NEW k \in Sup, NewSlot(k) PROVE TypeOK'
  BY <1>3, <1>0 DEF NewSlot, Goto, SlotFree
<1>4. ASSUME NEW k \in Sup, Created(k) PROVE TypeOK'
  BY <1>4, <1>0 DEF Created, Goto
<1>5. ASSUME NEW k \in Sup, Register(k) PROVE TypeOK'
  <2>1. pc' \in [Sup -> {"unused", "new", "create", "register", "existing", "acquire",
                       "attempt", "serve", "returned", "backoff", "over"}]
    BY <1>5 DEF Register, Goto
  <2>2. /\ inMap' \subseteq added
       /\ retry' \in [Agent -> 0..MaxSup]
       /\ done' \in [Agent -> 0..MaxSup]
    BY <1>5 DEF Register, Goto
  <2>3. probe' \in [Sup -> {"off", "armed", "asking", "answered"}]
    BY <1>5 DEF Register, Arm
  <2>4. UNCHANGED <<rootDone, added, spawned, of, cancelled, killed, status,
                    call, calls, asked>>
    BY <1>5 DEF Register
  <2>. QED
    BY <1>0, <2>1, <2>2, <2>3, <2>4
<1>6. ASSUME NEW k \in Sup, Install(k) PROVE TypeOK'
  BY <1>6, <1>0 DEF Install, Goto, Arm
<1>7. ASSUME NEW k \in Sup, Acquire(k) PROVE TypeOK'
  <2>1. pc' \in [Sup -> {"unused", "new", "create", "register", "existing", "acquire",
                       "attempt", "serve", "returned", "backoff", "over"}]
    BY <1>7 DEF Acquire, Goto
  <2>2. status' \in [Agent -> Statuses]
    BY <1>7 DEF Acquire, Goto, SetStatus
  <2>3. UNCHANGED <<rootDone, added, inMap, retry, done, spawned, of, cancelled,
                    killed, probe, call, calls, asked>>
    BY <1>7 DEF Acquire
  <2>. QED
    BY <1>0, <2>1, <2>2, <2>3
<1>8. ASSUME NEW k \in Sup, Returned(k) PROVE TypeOK'
  BY <1>8, <1>0 DEF Returned, Goto
<1>9. ASSUME NEW k \in Sup, Backoff(k) PROVE TypeOK'
  BY <1>9, <1>0 DEF Backoff, Goto
<1>10. ASSUME NEW k \in Sup, AttemptEnds(k) PROVE TypeOK'
  <2>1. pc' \in [Sup -> {"unused", "new", "create", "register", "existing", "acquire",
                       "attempt", "serve", "returned", "backoff", "over"}]
    BY <1>10 DEF AttemptEnds, Goto
  <2>2. status' \in [Agent -> Statuses]
    BY <1>10 DEF AttemptEnds, Goto, SetStatus
  <2>3. killed' \subseteq Sup
    BY <1>10 DEF AttemptEnds
  <2>4. UNCHANGED <<rootDone, added, inMap, retry, done, spawned, of, cancelled,
                    probe, call, calls, asked>>
    BY <1>10 DEF AttemptEnds
  <2>. QED
    BY <1>0, <2>1, <2>2, <2>3, <2>4
<1>11. ASSUME NEW k \in Sup, Serve(k) PROVE TypeOK'
  BY <1>11, <1>0 DEF Serve, Goto, SetStatus
<1>12. ASSUME NEW k \in Sup, ProbeStart(k) PROVE TypeOK'
  BY <1>12, <1>0 DEF ProbeStart, ProbeAt
<1>13. ASSUME NEW k \in Sup, ProbeAnswered(k) PROVE TypeOK'
  BY <1>13, <1>0 DEF ProbeAnswered, ProbeAt
<1>14. ASSUME NEW k \in Sup, ProbeReady(k) PROVE TypeOK'
  BY <1>14, <1>0 DEF ProbeReady, ProbeAt, SetStatus
<1>15. ASSUME NEW k \in Sup, ProbeAgain(k) PROVE TypeOK'
  BY <1>15, <1>0 DEF ProbeAgain, ProbeAt
<1>16. ASSUME NEW k \in Sup, ProbeGivesUp(k) PROVE TypeOK'
  BY <1>16, <1>0 DEF ProbeGivesUp, ProbeAt, SetStatus
<1>17. ASSUME NEW k \in Sup, ProbeEnds(k) PROVE TypeOK'
  BY <1>17, <1>0 DEF ProbeEnds, ProbeAt
<1>18. ASSUME NEW c \in Client, StartCancel(c) PROVE TypeOK'
  <2>1. cancelled' \subseteq Sup
    <3>1. CASE call[c].agent \in inMap
      <4>1. retry[call[c].agent] \in 0..MaxSup
        BY <3>1
      <4>. QED
        BY <1>18, <3>1, <4>1, CancelFacts DEF StartCancel
    <3>2. CASE call[c].agent \notin inMap
      BY <1>18, <3>2 DEF StartCancel
    <3>. QED
      BY <3>1, <3>2
  <2>2. call' \in [Client -> Calls]
    <3>1. CASE call[c].agent \in inMap
      <4>1. done[call[c].agent] \in 0..MaxSup
        BY <3>1
      <4>2. {done[call[c].agent]} \in SUBSET (0..MaxSup)
        BY ONLY <4>1
      <4>. QED
        BY <1>18, <3>1, <4>2, MoveFacts DEF StartCancel
    <3>2. CASE call[c].agent \notin inMap
      BY <1>18, <3>2, ReturnFacts DEF StartCancel
    <3>. QED
      BY <3>1, <3>2
  <2>3. UNCHANGED <<rootDone, added, inMap, retry, done, spawned, of, pc,
                    killed, probe, status, calls, asked>>
    BY <1>18 DEF StartCancel
  <2>. QED
    BY <1>0, <2>1, <2>2, <2>3
<1>19. ASSUME NEW c \in Client, StartSpawn(c) PROVE TypeOK'
  <2>1. pc' \in [Sup -> {"unused", "new", "create", "register", "existing", "acquire",
                       "attempt", "serve", "returned", "backoff", "over"}]
    BY <1>19 DEF StartSpawn, At, Spawn
  <2>2. /\ of' \in [Sup -> Agent \cup {"none"}]
       /\ spawned' \in 0..MaxSup
    BY <1>19 DEF StartSpawn, At, Spawn
  <2>3. /\ retry' \in [Agent -> 0..MaxSup]
       /\ done' \in [Agent -> 0..MaxSup]
    <3>1. 0 \in 0..MaxSup /\ spawned + 1 \in 0..MaxSup
      <4>1. spawned < MaxSup /\ spawned \in 0..MaxSup
        BY <1>19 DEF StartSpawn, Spawn
      <4>2. MaxSup \in Nat
        BY AgentPoolAssumption DEF AgentPoolAssumption
      <4>. QED
        BY ONLY <4>1, <4>2
    <3>2. /\ retry' = [retry EXCEPT ![call[c].agent] = 0]
          /\ done' = [done EXCEPT ![call[c].agent] = spawned + 1]
      BY <1>19 DEF StartSpawn
    <3>. QED
      BY <3>1, <3>2
  <2>4. call' \in [Client -> Calls]
    BY <1>19, MoveFacts, ReturnFacts DEF StartSpawn
  <2>5. UNCHANGED <<rootDone, added, inMap, cancelled, killed, probe, status,
                    calls, asked>>
    BY <1>19 DEF StartSpawn, Spawn
  <2>. QED
    BY <1>0, <2>1, <2>2, <2>3, <2>4, <2>5
<1>20. ASSUME NEW c \in Client, StartTimeout(c) PROVE TypeOK'
  BY <1>20, <1>0, MoveFacts, ReturnFacts DEF StartTimeout, At
<1>21. ASSUME NEW c \in Client, StopLookup(c) PROVE TypeOK'
  BY <1>21, <1>0, MoveFacts, ReturnFacts DEF StopLookup, At
<1>22. ASSUME NEW c \in Client, RemoveDelete(c) PROVE TypeOK'
  <2>1. inMap' \subseteq added
    BY <1>22 DEF RemoveDelete
  <2>2. call' \in [Client -> Calls]
    BY <1>22, MoveFacts, ReturnFacts DEF RemoveDelete
  <2>3. UNCHANGED <<rootDone, added, retry, done, spawned, of, pc, cancelled,
                    killed, probe, status, calls, asked>>
    BY <1>22 DEF RemoveDelete
  <2>. QED
    BY <1>0, <2>1, <2>2, <2>3
<1>23. ASSUME NEW c \in Client, CancelRetry(c) PROVE TypeOK'
  <2>1. cancelled' \subseteq Sup
    <3>1. retry[call[c].agent] \in 0..MaxSup
      BY <1>23 DEF CancelRetry, At
    <3>. QED
      BY <1>23, <3>1, CancelFacts DEF CancelRetry
  <2>2. call' \in [Client -> Calls]
    BY <1>23, MoveFacts, ReturnFacts DEF CancelRetry
  <2>3. UNCHANGED <<rootDone, added, inMap, retry, done, spawned, of, pc,
                    killed, probe, status, calls, asked>>
    BY <1>23 DEF CancelRetry
  <2>. QED
    BY <1>0, <2>1, <2>2, <2>3
<1>24. ASSUME NEW c \in Client, Signal(c) PROVE TypeOK'
  BY <1>24, <1>0, MoveFacts, ReturnFacts DEF Signal, At, Attempts
<1>25. ASSUME NEW c \in Client, Signalled(c) PROVE TypeOK'
  <2>1. asked' \in [Agent -> {"Start", "stopping", "Stop"}]
    <3>1. \A x \in {"Start", "stopping", "Stop"} :
            (IF x = "stopping" THEN "Stop" ELSE x) \in {"Start", "stopping", "Stop"}
      OBVIOUS
    <3>2. CASE call[c].op = "Stop"
      <4>1. asked' = [asked EXCEPT ![call[c].agent] = IF @ = "stopping" THEN "Stop" ELSE @]
        BY <1>25, <3>2 DEF Signalled
      <4>. QED
        BY <3>1, <4>1
    <3>3. CASE call[c].op # "Stop"
      BY <1>25, <3>3 DEF Signalled
    <3>. QED
      BY <3>2, <3>3
  <2>2. call' \in [Client -> Calls]
    BY <1>25, MoveFacts, ReturnFacts DEF Signalled
  <2>3. UNCHANGED <<rootDone, added, inMap, retry, done, spawned, of, pc,
                    cancelled, killed, probe, status, calls>>
    BY <1>25 DEF Signalled
  <2>. QED
    BY <1>0, <2>1, <2>2, <2>3
<1>26. ASSUME NEW c \in Client, RemoveReturn(c) PROVE TypeOK'
  BY <1>26, <1>0, MoveFacts, ReturnFacts DEF RemoveReturn, At
<1>27. ASSUME NEW c \in Client, NEW op \in Ops, NEW a \in Agent, Call(c, op, a)
     PROVE  TypeOK'
  <2>1. calls' \in 0..MaxCalls
    <3>1. calls' = calls + 1 /\ calls < MaxCalls
      BY <1>27 DEF Call
    <3>2. calls \in 0..MaxCalls
      OBVIOUS
    <3>3. MaxCalls \in Nat
      BY AgentPoolAssumption DEF AgentPoolAssumption
    <3>. QED
      BY ONLY <3>1, <3>2, <3>3
  <2>2. asked' \in [Agent -> {"Start", "stopping", "Stop"}]
    BY <1>27 DEF Call
  <2>3. call' \in [Client -> Calls]
    BY <1>27, AgentPoolAssumption DEF Call, Calls, AgentPoolAssumption
  <2>4. UNCHANGED <<rootDone, added, inMap, retry, done, spawned, of, pc,
                    cancelled, killed, probe, status>>
    BY <1>27 DEF Call
  <2>. QED
    BY <1>0, <2>1, <2>2, <2>3, <2>4
<1>28. CASE UNCHANGED vars
  BY <1>28, <1>0 DEF vars
<1>. QED
  BY <1>1, <1>2, <1>3, <1>4, <1>5, <1>6, <1>7, <1>8, <1>9, <1>10, <1>11,
     <1>12, <1>13, <1>14, <1>15, <1>16, <1>17, <1>18, <1>19, <1>20,
     <1>21, <1>22, <1>23, <1>24, <1>25, <1>26, <1>27, <1>28
  DEF Next, Step, ProbeStep, CallStep

-----------------------------------------------------------------------------
(* The inductive invariant.                                                *)

Inv == TypeOK /\ SpawnInv /\ SlotsAccounted

LEMMA InvInit == Init => Inv
<1> SUFFICES ASSUME Init PROVE Inv
  OBVIOUS
<1>1. Holders = {}
  BY DEF Init, Holders
<1>2. SlotsAccounted
  BY <1>1, FS_EmptySet, AgentPoolAssumption
  DEF Init, SlotsAccounted, AgentPoolAssumption
<1>3. NoCall \in Calls
  BY DEF NoCall, Calls, Places
<1>4. TypeOK
  <2>1. 0 \in 0..MaxSup /\ 0 \in 0..MaxConcurrent /\ 0 \in 0..MaxCalls
    BY AgentPoolAssumption DEF AgentPoolAssumption
  <2>2. /\ call \in [Client -> Calls]
        /\ status \in [Agent -> Statuses]
        /\ asked \in [Agent -> {"Start", "stopping", "Stop"}]
    BY <1>3 DEF Init, Statuses
  <2>3. /\ of \in [Sup -> Agent \cup {"none"}]
        /\ probe \in [Sup -> {"off", "armed", "asking", "answered"}]
        /\ pc \in [Sup -> {"unused", "new", "create", "register", "existing",
                           "acquire", "attempt", "serve", "returned", "backoff", "over"}]
    BY DEF Init
  <2>4. /\ retry \in [Agent -> 0..MaxSup] /\ done \in [Agent -> 0..MaxSup]
        /\ spawned \in 0..MaxSup /\ sem \in 0..MaxConcurrent /\ calls \in 0..MaxCalls
    BY <2>1 DEF Init
  <2>5. /\ rootDone \in BOOLEAN
        /\ inMap \subseteq added /\ added \subseteq Agent
        /\ cancelled \subseteq Sup /\ killed \subseteq Sup
    BY DEF Init
  <2>. QED
    BY <2>2, <2>3, <2>4, <2>5 DEF TypeOK
<1>5. SpawnInv
  BY DEF Init, SpawnInv, NoCall
<1>. QED
  BY <1>2, <1>4, <1>5 DEF Inv

(* Every variable of the pool stays in its set.                            *)
THEOREM TypeCorrect == Spec => []TypeOK
<1>1. Inv /\ [Next]_vars => Inv'
  BY SpawnInductive, SlotInductive, TypeInductive DEF Inv
<1>2. Inv => TypeOK
  BY DEF Inv
<1>. QED
  BY InvInit, <1>1, <1>2, PTL DEF Spec

(* However agents are added, retried, stopped, restarted and removed, the  *)
(* semaphore's slots are those of the supervisors that hold one, and no    *)
(* more than WithMaxConcurrent.                                            *)
THEOREM SlotsAccountedHolds == Spec => []SlotsAccounted
<1>1. Inv /\ [Next]_vars => Inv'
  BY SpawnInductive, SlotInductive, TypeInductive DEF Inv
<1>2. Inv => SlotsAccounted
  BY DEF Inv
<1>. QED
  BY InvInit, <1>1, <1>2, PTL DEF Spec

-----------------------------------------------------------------------------
(* One supervisor per agent, when calls do not overlap.                    *)

SingleClient == \A c, d \in Client : c = d

Creating == {"new", "create", "register"}
Looping  == {"acquire", "attempt", "serve", "returned", "backoff"}

(* The supervisor that Add spawned is the only one of its agent until it   *)
(* has registered; afterwards done is the channel of the only one that is  *)
(* not over.                                                               *)
OneInv ==
  /\ \A k \in Sup : pc[k] \in Looping \cup {"existing"} => done[of[k]] = k
  /\ \A k \in Sup : pc[k] \in Creating => done[of[k]] = 0 /\ of[k] \in added
  /\ \A j, k \in Sup : pc[j] \in Creating /\ pc[k] \in Creating /\ of[j] = of[k] => j = k
  /\ \A a \in Agent : a \notin added => done[a] = 0
  /\ \A a \in inMap : done[a] # 0

(* A Start that waits is waiting for that channel.                         *)
WaitInv ==
  \A c \in Client : call[c].at = "StartWait" =>
    call[c].wait = {done[call[c].agent]} /\ done[call[c].agent] # 0

(* The registered cancel function is that of the supervisor that runs.     *)
RetryInv ==
  \A k \in Sup : pc[k] \in Looping /\ of[k] \in inMap => retry[of[k]] = k

LEMMA OneInductive ==
  SingleClient /\ TypeOK /\ SpawnInv /\ OneInv /\ WaitInv /\ [Next]_vars => OneInv'
<1> SUFFICES ASSUME SingleClient, TypeOK, SpawnInv, OneInv, WaitInv, [Next]_vars
             PROVE  OneInv'
  OBVIOUS
<1> USE SupFacts DEF TypeOK, SpawnInv, OneInv, Creating, Looping, pool, sups, reqs
<1>1. CASE Shutdown
  BY <1>1 DEF Shutdown
<1>2. ASSUME NEW a \in Agent, Add(a) PROVE OneInv'
  BY <1>2 DEF Add, Spawn
<1>3. ASSUME NEW k \in Sup, NewSlot(k) PROVE OneInv'
  <2>1. Goto(k, "new", "create") \/ Goto(k, "new", "over")
    BY <1>3 DEF NewSlot
  <2>. QED
    BY <1>3, <2>1 DEF NewSlot, Goto
<1>4. ASSUME NEW k \in Sup, Created(k) PROVE OneInv'
  BY <1>4 DEF Created, Goto
<1>5. ASSUME NEW k \in Sup, Register(k) PROVE OneInv'
  BY <1>5 DEF Register, Goto, Arm
<1>6. ASSUME NEW k \in Sup, Install(k) PROVE OneInv'
  BY <1>6 DEF Install, Goto, Arm
<1>7. ASSUME NEW k \in Sup, Acquire(k) PROVE OneInv'
  <2>1. Goto(k, "acquire", "attempt") \/ Goto(k, "acquire", "over")
    BY <1>7 DEF Acquire
  <2>2. UNCHANGED <<inMap, done, of, added>>
    BY <1>7 DEF Acquire
  <2>. QED
    BY <2>1, <2>2 DEF Goto
<1>8. ASSUME NEW k \in Sup, Returned(k) PROVE OneInv'
  BY <1>8 DEF Returned, Goto
<1>9. ASSUME NEW k \in Sup, Backoff(k) PROVE OneInv'
  <2>1. Goto(k, "backoff", "acquire") \/ Goto(k, "backoff", "over")
    BY <1>9 DEF Backoff
  <2>. QED
    BY <1>9, <2>1 DEF Backoff, Goto
<1>10. ASSUME NEW k \in Sup, AttemptEnds(k) PROVE OneInv'
  BY <1>10 DEF AttemptEnds, Goto, SetStatus
<1>11. ASSUME NEW k \in Sup, Serve(k) PROVE OneInv'
  BY <1>11 DEF Serve, Goto, SetStatus
<1>12. ASSUME NEW k \in Sup, ProbeStart(k) PROVE OneInv'
  BY <1>12 DEF ProbeStart, ProbeAt
<1>13. ASSUME NEW k \in Sup, ProbeAnswered(k) PROVE OneInv'
  BY <1>13 DEF ProbeAnswered, ProbeAt
<1>14. ASSUME NEW k \in Sup, ProbeReady(k) PROVE OneInv'
  BY <1>14 DEF ProbeReady, ProbeAt, SetStatus
<1>15. ASSUME NEW k \in Sup, ProbeAgain(k) PROVE OneInv'
  BY <1>15 DEF ProbeAgain, ProbeAt
<1>16. ASSUME NEW k \in Sup, ProbeGivesUp(k) PROVE OneInv'
  <2>1. UNCHANGED <<pool, pc>>
    BY <1>16 DEF ProbeGivesUp
  <2>. QED
    BY <2>1
<1>17. ASSUME NEW k \in Sup, ProbeEnds(k) PROVE OneInv'
  BY <1>17 DEF ProbeEnds, ProbeAt
<1>18. ASSUME NEW c \in Client, StartCancel(c) PROVE OneInv'
  <2>1. UNCHANGED <<pool, pc>>
    BY <1>18 DEF StartCancel, At, CancelCtx
  <2>. QED
    BY <2>1
<1>19. ASSUME NEW c \in Client, StartSpawn(c) PROVE OneInv'
  <2> DEFINE a == call[c].agent
  <2>1. a \in Agent
    BY <1>19 DEF StartSpawn, At
  <2>2. done[a] \in Sup /\ pc[done[a]] = "over"
    BY <1>19, <2>1 DEF StartSpawn, At, WaitInv
  <2>3. \A k \in Sup : pc[k] \in Creating \cup Looping \cup {"existing"} => of[k] # a
    BY <2>1, <2>2
  <2>4. /\ spawned + 1 \in Sup
        /\ pc' = [pc EXCEPT ![spawned + 1] = "existing"]
        /\ of' = [of EXCEPT ![spawned + 1] = a]
        /\ done' = [done EXCEPT ![a] = spawned + 1]
        /\ UNCHANGED <<added, inMap>>
    BY <1>19 DEF StartSpawn, Spawn
  <2>5. a \in added
    BY <2>1, <2>2
  <2> HIDE DEF a
  <2>. QED
    BY <2>1, <2>2, <2>3, <2>4, <2>5
<1>20. ASSUME NEW c \in Client, StartTimeout(c) PROVE OneInv'
  <2>1. UNCHANGED <<pool, pc>>
    BY <1>20 DEF StartTimeout, At
  <2>. QED
    BY <2>1
<1>21. ASSUME NEW c \in Client, StopLookup(c) PROVE OneInv'
  <2>1. UNCHANGED <<pool, pc>>
    BY <1>21 DEF StopLookup, At
  <2>. QED
    BY <2>1
<1>22. ASSUME NEW c \in Client, RemoveDelete(c) PROVE OneInv'
  BY <1>22 DEF RemoveDelete, At
<1>23. ASSUME NEW c \in Client, CancelRetry(c) PROVE OneInv'
  <2>1. UNCHANGED <<pool, pc>>
    BY <1>23 DEF CancelRetry, At, CancelCtx
  <2>. QED
    BY <2>1
<1>24. ASSUME NEW c \in Client, Signal(c) PROVE OneInv'
  <2>1. UNCHANGED <<pool, pc>>
    BY <1>24 DEF Signal, At, Attempts
  <2>. QED
    BY <2>1
<1>25. ASSUME NEW c \in Client, Signalled(c) PROVE OneInv'
  <2>1. UNCHANGED <<pool, pc>>
    BY <1>25 DEF Signalled, At
  <2>. QED
    BY <2>1
<1>26. ASSUME NEW c \in Client, RemoveReturn(c) PROVE OneInv'
  <2>1. UNCHANGED <<pool, pc>>
    BY <1>26 DEF RemoveReturn, At
  <2>. QED
    BY <2>1
<1>27. ASSUME NEW c \in Client, NEW op \in Ops, NEW a \in Agent, Call(c, op, a)
     PROVE  OneInv'
  BY <1>27 DEF Call, Calls, NoCall
<1>28. CASE UNCHANGED vars
  BY <1>28 DEF vars
<1>. QED
  BY <1>1, <1>2, <1>3, <1>4, <1>5, <1>6, <1>7, <1>8, <1>9, <1>10, <1>11,
     <1>12, <1>13, <1>14, <1>15, <1>16, <1>17, <1>18, <1>19, <1>20,
     <1>21, <1>22, <1>23, <1>24, <1>25, <1>26, <1>27, <1>28
  DEF Next, Step, ProbeStep, CallStep

LEMMA WaitInductive ==
  SingleClient /\ TypeOK /\ SpawnInv /\ OneInv /\ WaitInv /\ [Next]_vars => WaitInv'
<1> SUFFICES ASSUME SingleClient, TypeOK, SpawnInv, OneInv, WaitInv, [Next]_vars
             PROVE  WaitInv'
  OBVIOUS
<1> USE SupFacts DEF SingleClient, TypeOK, SpawnInv, OneInv, WaitInv, Creating, Places,
        pool, sups, reqs
<1>1. CASE Shutdown
  BY <1>1 DEF Shutdown
<1>2. ASSUME NEW a \in Agent, Add(a) PROVE WaitInv'
  BY <1>2 DEF Add, Spawn
<1>3. ASSUME NEW k \in Sup, NewSlot(k) PROVE WaitInv'
  BY <1>3 DEF NewSlot, Goto, SlotFree
<1>4. ASSUME NEW k \in Sup, Created(k) PROVE WaitInv'
  BY <1>4 DEF Created, Goto
<1>5. ASSUME NEW k \in Sup, Register(k) PROVE WaitInv'
  BY <1>5 DEF Register, Goto, Arm
<1>6. ASSUME NEW k \in Sup, Install(k) PROVE WaitInv'
  BY <1>6 DEF Install, Goto, Arm
<1>7. ASSUME NEW k \in Sup, Acquire(k) PROVE WaitInv'
  BY <1>7 DEF Acquire, Goto, SlotFree, SetStatus
<1>8. ASSUME NEW k \in Sup, Returned(k) PROVE WaitInv'
  BY <1>8 DEF Returned, Goto
<1>9. ASSUME NEW k \in Sup, Backoff(k) PROVE WaitInv'
  BY <1>9 DEF Backoff, Goto
<1>10. ASSUME NEW k \in Sup, AttemptEnds(k) PROVE WaitInv'
  BY <1>10 DEF AttemptEnds, Goto, SetStatus
<1>11. ASSUME NEW k \in Sup, Serve(k) PROVE WaitInv'
  BY <1>11 DEF Serve, Goto, SetStatus
<1>12. ASSUME NEW k \in Sup, ProbeStart(k) PROVE WaitInv'
  BY <1>12 DEF ProbeStart, ProbeAt
<1>13. ASSUME NEW k \in Sup, ProbeAnswered(k) PROVE WaitInv'
  BY <1>13 DEF ProbeAnswered, ProbeAt
<1>14. ASSUME NEW k \in Sup, ProbeReady(k) PROVE WaitInv'
  BY <1>14 DEF ProbeReady, ProbeAt, SetStatus
<1>15. ASSUME NEW k \in Sup, ProbeAgain(k) PROVE WaitInv'
  BY <1>15 DEF ProbeAgain, ProbeAt
<1>16. ASSUME NEW k \in Sup, ProbeGivesUp(k) PROVE WaitInv'
  BY <1>16 DEF ProbeGivesUp, ProbeAt, SetStatus
<1>17. ASSUME NEW k \in Sup, ProbeEnds(k) PROVE WaitInv'
  BY <1>17 DEF ProbeEnds, ProbeAt
<1>18. ASSUME NEW c \in Client, StartCancel(c) PROVE WaitInv'
  BY <1>18, MoveFacts, ReturnFacts DEF StartCancel, At, CancelCtx
<1>19. ASSUME NEW c \in Client, StartSpawn(c) PROVE WaitInv'
  BY <1>19, MoveFacts, ReturnFacts DEF StartSpawn, At, Spawn
<1>20. ASSUME NEW c \in Client, StartTimeout(c) PROVE WaitInv'
  BY <1>20, MoveFacts, ReturnFacts DEF StartTimeout, At
<1>21. ASSUME NEW c \in Client, StopLookup(c) PROVE WaitInv'
  BY <1>21, MoveFacts, ReturnFacts DEF StopLookup, At
<1>22. ASSUME NEW c \in Client, RemoveDelete(c) PROVE WaitInv'
  BY <1>22, MoveFacts, ReturnFacts DEF RemoveDelete, At
<1>23. ASSUME NEW c \in Client, CancelRetry(c) PROVE WaitInv'
  BY <1>23, MoveFacts, ReturnFacts DEF CancelRetry, At, CancelCtx
<1>24. ASSUME NEW c \in Client, Signal(c) PROVE WaitInv'
  BY <1>24, MoveFacts, ReturnFacts DEF Signal, At, Attempts
<1>25. ASSUME NEW c \in Client, Signalled(c) PROVE WaitInv'
  BY <1>25, MoveFacts, ReturnFacts DEF Signalled, At
<1>26. ASSUME NEW c \in Client, RemoveReturn(c) PROVE WaitInv'
  BY <1>26, MoveFacts, ReturnFacts DEF RemoveReturn, At
<1>27. ASSUME NEW c \in Client, NEW op \in Ops, NEW a \in Agent, Call(c, op, a)
     PROVE  WaitInv'
  <2>1. op # "StartWait"
    BY AgentPoolAssumption DEF AgentPoolAssumption
  <2>2. call'[c].at = op
    BY <1>27 DEF Call
  <2>3. \A d \in Client : d = c
    OBVIOUS
  <2>. QED
    BY <2>1, <2>2, <2>3
<1>28. CASE UNCHANGED vars
  BY <1>28 DEF vars
<1>. QED
  BY <1>1, <1>2, <1>3, <1>4, <1>5, <1>6, <1>7, <1>8, <1>9, <1>10, <1>11,
     <1>12, <1>13, <1>14, <1>15, <1>16, <1>17, <1>18, <1>19, <1>20,
     <1>21, <1>22, <1>23, <1>24, <1>25, <1>26, <1>27, <1>28
  DEF Next, Step, ProbeStep, CallStep

LEMMA RetryInductive ==
  SingleClient /\ TypeOK /\ SpawnInv /\ OneInv /\ WaitInv /\ RetryInv /\ [Next]_vars
    => RetryInv'
<1> SUFFICES ASSUME SingleClient, TypeOK, SpawnInv, OneInv, WaitInv, RetryInv, [Next]_vars
             PROVE  RetryInv'
  OBVIOUS
<1> USE SupFacts DEF SingleClient, TypeOK, SpawnInv, OneInv, WaitInv, RetryInv, Creating,
        Looping, Places, pool, sups, reqs
<1>1. CASE Shutdown
  BY <1>1 DEF Shutdown
<1>2. ASSUME NEW a \in Agent, Add(a) PROVE RetryInv'
  BY <1>2 DEF Add, Spawn
<1>3. ASSUME NEW k \in Sup, NewSlot(k) PROVE RetryInv'
  BY <1>3 DEF NewSlot, Goto, SlotFree
<1>4. ASSUME NEW k \in Sup, Created(k) PROVE RetryInv'
  BY <1>4 DEF Created, Goto
<1>5. ASSUME NEW k \in Sup, Register(k) PROVE RetryInv'
  BY <1>5 DEF Register, Goto, Arm
<1>6. ASSUME NEW k \in Sup, Install(k) PROVE RetryInv'
  BY <1>6 DEF Install, Goto, Arm
<1>7. ASSUME NEW k \in Sup, Acquire(k) PROVE RetryInv'
  BY <1>7 DEF Acquire, Goto, SlotFree, SetStatus
<1>8. ASSUME NEW k \in Sup, Returned(k) PROVE RetryInv'
  BY <1>8 DEF Returned, Goto
<1>9. ASSUME NEW k \in Sup, Backoff(k) PROVE RetryInv'
  BY <1>9 DEF Backoff, Goto
<1>10. ASSUME NEW k \in Sup, AttemptEnds(k) PROVE RetryInv'
  BY <1>10 DEF AttemptEnds, Goto, SetStatus
<1>11. ASSUME NEW k \in Sup, Serve(k) PROVE RetryInv'
  BY <1>11 DEF Serve, Goto, SetStatus
<1>12. ASSUME NEW k \in Sup, ProbeStart(k) PROVE RetryInv'
  BY <1>12 DEF ProbeStart, ProbeAt
<1>13. ASSUME NEW k \in Sup, ProbeAnswered(k) PROVE RetryInv'
  BY <1>13 DEF ProbeAnswered, ProbeAt
<1>14. ASSUME NEW k \in Sup, ProbeReady(k) PROVE RetryInv'
  BY <1>14 DEF ProbeReady, ProbeAt, SetStatus
<1>15. ASSUME NEW k \in Sup, ProbeAgain(k) PROVE RetryInv'
  BY <1>15 DEF ProbeAgain, ProbeAt
<1>16. ASSUME NEW k \in Sup, ProbeGivesUp(k) PROVE RetryInv'
  BY <1>16 DEF ProbeGivesUp, ProbeAt, SetStatus
<1>17. ASSUME NEW k \in Sup, ProbeEnds(k) PROVE RetryInv'
  BY <1>17 DEF ProbeEnds, ProbeAt
<1>18. ASSUME NEW c \in Client, StartCancel(c) PROVE RetryInv'
  BY <1>18, MoveFacts, ReturnFacts DEF StartCancel, At, CancelCtx
<1>19. ASSUME NEW c \in Client, StartSpawn(c) PROVE RetryInv'
  BY <1>19, MoveFacts, ReturnFacts DEF StartSpawn, At, Spawn
<1>20. ASSUME NEW c \in Client, StartTimeout(c) PROVE RetryInv'
  BY <1>20, MoveFacts, ReturnFacts DEF StartTimeout, At
<1>21. ASSUME NEW c \in Client, StopLookup(c) PROVE RetryInv'
  BY <1>21, MoveFacts, ReturnFacts DEF StopLookup, At
<1>22. ASSUME NEW c \in Client, RemoveDelete(c) PROVE RetryInv'
  BY <1>22, MoveFacts, ReturnFacts DEF RemoveDelete, At
<1>23. ASSUME NEW c \in Client, CancelRetry(c) PROVE RetryInv'
  BY <1>23, MoveFacts, ReturnFacts DEF CancelRetry, At, CancelCtx
<1>24. ASSUME NEW c \in Client, Signal(c) PROVE RetryInv'
  BY <1>24, MoveFacts, ReturnFacts DEF Signal, At, Attempts
<1>25. ASSUME NEW c \in Client, Signalled(c) PROVE RetryInv'
  BY <1>25, MoveFacts, ReturnFacts DEF Signalled, At
<1>26. ASSUME NEW c \in Client, RemoveReturn(c) PROVE RetryInv'
  BY <1>26, MoveFacts, ReturnFacts DEF RemoveReturn, At
<1>27. ASSUME NEW c \in Client, NEW op \in Ops, NEW a \in Agent, Call(c, op, a)
     PROVE  RetryInv'
  BY <1>27 DEF Call, Calls, NoCall
<1>28. CASE UNCHANGED vars
  BY <1>28 DEF vars
<1>. QED
  BY <1>1, <1>2, <1>3, <1>4, <1>5, <1>6, <1>7, <1>8, <1>9, <1>10, <1>11,
     <1>12, <1>13, <1>14, <1>15, <1>16, <1>17, <1>18, <1>19, <1>20,
     <1>21, <1>22, <1>23, <1>24, <1>25, <1>26, <1>27, <1>28
  DEF Next, Step, ProbeStep, CallStep

LEMMA SerialInvariance == SingleClient => (Spec => [](Inv /\ OneInv /\ WaitInv /\ RetryInv))
<1> SUFFICES ASSUME SingleClient PROVE Spec => [](Inv /\ OneInv /\ WaitInv /\ RetryInv)
  OBVIOUS
<1>1. Init => Inv /\ OneInv /\ WaitInv /\ RetryInv
  BY InvInit DEF Init, OneInv, WaitInv, RetryInv, Creating, Looping, NoCall
<1>2. Inv /\ OneInv /\ WaitInv /\ RetryInv /\ [Next]_vars
        => (Inv /\ OneInv /\ WaitInv /\ RetryInv)'
  BY SpawnInductive, SlotInductive, TypeInductive, OneInductive, WaitInductive,
     RetryInductive
  DEF Inv
<1>. QED
  BY <1>1, <1>2, PTL DEF Spec

(* Start never leaves two supervisors of an agent behind, provided calls   *)
(* do not overlap.                                                         *)
THEOREM OneSupervisorHolds == SingleClient => (Spec => []OneSupervisor)
<1> SUFFICES ASSUME SingleClient PROVE Spec => []OneSupervisor
  OBVIOUS
<1>1. Inv /\ OneInv => OneSupervisor
  <2> SUFFICES ASSUME Inv, OneInv, NEW j \in Sup, NEW k \in Sup, j # k, of[j] = of[k],
                      Active(j), Active(k)
               PROVE  FALSE
    BY DEF OneSupervisor
  <2>1. \A l \in {j, k} : pc[l] \in Creating \/ pc[l] \in Looping \cup {"existing"}
    BY DEF Inv, TypeOK, Active, Creating, Looping
  <2>2. j # 0 /\ k # 0
    BY AgentPoolAssumption DEF Sup, AgentPoolAssumption
  <2>. QED
    BY <2>1, <2>2 DEF OneInv
<1>. QED
  BY <1>1, SerialInvariance, PTL

(* Under the same condition a supervisor of an agent in the map, once it   *)
(* has begun to run attempts, can be cancelled through the map.            *)
THEOREM CancellableHolds == SingleClient => (Spec => []Cancellable)
<1> SUFFICES ASSUME SingleClient PROVE Spec => []Cancellable
  OBVIOUS
<1>1. RetryInv => Cancellable
  BY DEF RetryInv, Cancellable, Looping
<1>. QED
  BY <1>1, SerialInvariance, PTL
=============================================================================

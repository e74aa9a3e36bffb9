----------------------------- MODULE MCAsyncJobs -----------------------------
(* Instances of AsyncJobs for TLC: two or three jobs of one agent.         *)
EXTENDS AsyncJobs, TLC

CONSTANTS j1, j2, j3, a1

TwoJobs   == [j \in {j1, j2} |-> a1]
ThreeJobs == [j \in {j1, j2, j3} |-> a1]

JobSymmetry == Permutations(Job)
=============================================================================

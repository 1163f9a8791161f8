------------------------------ MODULE MCRaft ------------------------------
(* Raft on small instances. *)
EXTENDS RaftProperties, TLC

\* Nodes are compared only for equality, and so are operations.
Symmetry == Permutations(Node) \cup Permutations(Value)

\* The program's own state and belated: no guard and no property of the runs
\* that use this view reads votes or wins.
NoHistory == <<diskVars, leaderVars, commitVars, roundVars, timerVars, net,
               clientVars, crashes, belated>>

=============================================================================

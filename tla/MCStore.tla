------------------------------ MODULE MCStore ------------------------------
(* Store with two writes of one key, whose statuses depend on their order, and *)
(* one read. *)
EXTENDS Store, TLC

CONSTANTS v1, v2, r1, k, a, b

Ops == v1 :> [op |-> "create", key |-> k, value |-> a, prev |-> Absent]
    @@ v2 :> [op |-> "cas", key |-> k, value |-> b, prev |-> a]
    @@ r1 :> [op |-> "get", key |-> k, value |-> Absent, prev |-> Absent]

\* One client writes v1 and then reads, another one writes v2.
Terminals == v1 :> Nil @@ v2 :> Nil @@ r1 :> v1

NodesAlike == Permutations(Node)

\* No guard reads the histories of the elections, and the properties read of
\* them only how many were won; nor does any read, once a request is answered,
\* what its answer was and who gave it.
Relevant ==
    <<diskVars, leaderVars, commitVars, roundVars, timerVars, net, clientVars,
      crashes, belated, Cardinality(wins), stage, dbVars, order,
      [r \in AnyRequest |-> IF stage[r] = "answered" THEN Nil ELSE at[r]]>>

=============================================================================

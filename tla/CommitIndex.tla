---------------------------- MODULE CommitIndex ----------------------------
(***************************************************************************)
(* calcCommitIndex of 2/server/raft.go, one iteration of its loop per      *)
(* step: the largest index that more than half of MatchIndex reaches, found *)
(* in one pass over the sorted array, group of equal indexes by group.     *)
(* Raft.tla uses the result as a relation, IsCommitIndex.                  *)
(***************************************************************************)
EXTENDS Integers, FiniteSets, Functions

CONSTANTS
    MaxNodes,   \* bound: nodes of nodesConfig
    MaxIndex,   \* bound: indexes of the log
    MaxUint     \* ^uint64(0), the leader's own entry

ASSUME BoundAssumption ==
    MaxNodes \in Nat \ {0} /\ MaxIndex \in Nat /\ MaxUint \in Nat /\ MaxUint > MaxIndex

VARIABLES
    matchIndex,              \* the argument
    indexes,                 \* its sorted clone
    i, prevIdx, currCnt,     \* iterations done; the group and its size so far
    maxIdx,                  \* the named result
    pc

vars == <<matchIndex, indexes, i, prevIdx, currCnt, maxIdx, pc>>

\* MatchIndex as TryBecomeLeader and leaderHB leave it: MaxUint for the leader
\* itself, an index of the log for every other node.
MatchIndexes ==
    UNION {{[a EXCEPT ![self] = MaxUint] : a \in [1..n -> 0..MaxIndex], self \in 1..n}
             : n \in 1..MaxNodes}

numNodes == Cardinality(DOMAIN indexes)

Init ==
    /\ matchIndex \in MatchIndexes
    /\ indexes = matchIndex
    /\ i = 0 /\ prevIdx = 0 /\ currCnt = 0 /\ maxIdx = 0
    /\ pc = "sort"

Ascending(a) == \A j, k \in DOMAIN a : j < k => a[j] <= a[k]

Sort ==
    /\ pc = "sort"
    /\ \E p \in Bijection(DOMAIN matchIndex, DOMAIN matchIndex) :
         indexes' = [j \in DOMAIN matchIndex |-> matchIndex[p[j]]]
    /\ Ascending(indexes')
    /\ prevIdx' = indexes'[1]
    /\ pc' = "loop"
    /\ UNCHANGED <<matchIndex, i, currCnt, maxIdx>>

CountEqual ==
    /\ pc = "loop" /\ i < numNodes
    /\ indexes[i + 1] = prevIdx
    /\ currCnt' = currCnt + 1
    /\ i' = i + 1
    /\ UNCHANGED <<matchIndex, indexes, prevIdx, maxIdx, pc>>

\* Mutant of Reaching: only the group itself is counted.
GroupOnly == currCnt

\* How many reach prevIdx, seen from the first entry past its group.
Reaching == currCnt + (numNodes - i)

\* Mutant of FirstOfGroup: the entry that opens a group is not counted.
FromZero == 0

FirstOfGroup == 1

NextGroup ==
    /\ pc = "loop" /\ i < numNodes
    /\ indexes[i + 1] # prevIdx
    /\ maxIdx' = IF Reaching > numNodes \div 2 THEN prevIdx ELSE maxIdx
    /\ currCnt' = FirstOfGroup
    /\ prevIdx' = indexes[i + 1]
    /\ i' = i + 1
    /\ UNCHANGED <<matchIndex, indexes, pc>>

Finish ==
    /\ pc = "loop" /\ i = numNodes
    /\ maxIdx' = IF currCnt > numNodes \div 2 THEN prevIdx ELSE maxIdx
    /\ pc' = "done"
    /\ UNCHANGED <<matchIndex, indexes, i, prevIdx, currCnt>>

Next == Sort \/ CountEqual \/ NextGroup \/ Finish

Spec == Init /\ [][Next]_vars

-----------------------------------------------------------------------------

\* idx is reached by more than half of the argument.
Reached(idx) ==
    Cardinality({n \in DOMAIN matchIndex : matchIndex[n] >= idx})
        > Cardinality(DOMAIN matchIndex) \div 2

(* What leaderHBBroadcast hands to CommitChanges (raft.go:268-271): the     *)
(* largest entry of MatchIndex that more than half of it reaches.          *)
ResultIsCommitIndex ==
    pc = "done" =>
        /\ \E n \in DOMAIN matchIndex : matchIndex[n] = maxIdx
        /\ Reached(maxIdx)
        /\ \A n \in DOMAIN matchIndex : Reached(matchIndex[n]) => matchIndex[n] <= maxIdx

(* The loop's invariant (raft.go:219-236): currCnt counts the entries of    *)
(* the current group, and maxIdx is the best of the groups before it.      *)
GroupsCounted ==
    pc = "loop" =>
        /\ i > 0 => prevIdx = indexes[i]
        /\ currCnt = Cardinality({j \in 1..i : indexes[j] = prevIdx})
        /\ \A j \in 1..i : indexes[j] < prevIdx /\ Reached(indexes[j]) => indexes[j] <= maxIdx
        /\ maxIdx # 0 => Reached(maxIdx) /\ maxIdx < prevIdx

=============================================================================

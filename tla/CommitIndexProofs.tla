------------------------- MODULE CommitIndexProofs -------------------------
(***************************************************************************)
(* The loop of calcCommitIndex is right for every number of nodes and all   *)
(* indexes.  The invariant of the loop is about places rather than counts:  *)
(* the group of prevIdx is the last currCnt places before i, everything     *)
(* before it is smaller, and everything behind it is not, so those that     *)
(* reach prevIdx are the places from the first of the group to the end.     *)
(***************************************************************************)
EXTENDS CommitIndex, TLAPS, FiniteSetTheorems, FunctionTheorems

LoopTypeOK ==
    /\ numNodes \in Nat \ {0}
    /\ matchIndex \in [1..numNodes -> Nat]
    /\ indexes \in [1..numNodes -> Nat]
    /\ i \in 0..numNodes /\ currCnt \in 0..i
    /\ prevIdx \in Nat /\ maxIdx \in Nat
    /\ pc \in {"sort", "loop", "done"}

\* indexes is the argument in ascending order.
IsSorted ==
    /\ Ascending(indexes)
    /\ \E p \in Bijection(1..numNodes, 1..numNodes) :
         \A j \in 1..numNodes : indexes[j] = matchIndex[p[j]]

\* Where the group of prevIdx is.
GroupPlaced ==
    /\ \A j \in 1..(i - currCnt) : indexes[j] < prevIdx
    /\ \A j \in (i - currCnt + 1)..i : indexes[j] = prevIdx
    /\ i > 0 => currCnt > 0
    /\ i = 0 => prevIdx = indexes[1]

\* The best of the groups before it.
BestSoFar ==
    /\ \A j \in 1..i : indexes[j] < prevIdx /\ Reached(indexes[j]) => indexes[j] <= maxIdx
    /\ maxIdx # 0 =>
         /\ Reached(maxIdx) /\ maxIdx < prevIdx
         /\ \E j \in 1..i : indexes[j] = maxIdx

LoopInv ==
    /\ LoopTypeOK
    /\ pc = "sort" => i = 0 /\ currCnt = 0 /\ maxIdx = 0
    /\ pc = "loop" => IsSorted /\ GroupPlaced /\ BestSoFar
    /\ ResultIsCommitIndex

-----------------------------------------------------------------------------

\* Sorting does not change how many reach an index.
LEMMA SortedReach ==
  ASSUME LoopTypeOK, IsSorted, NEW idx \in Nat
  PROVE  Reached(idx) <=>
           Cardinality({j \in 1..numNodes : indexes[j] >= idx}) > numNodes \div 2
<1> DEFINE Above == {j \in 1..numNodes : indexes[j] >= idx}
           AboveArg == {n \in 1..numNodes : matchIndex[n] >= idx}
<1>1. PICK p \in Bijection(1..numNodes, 1..numNodes) :
        \A j \in 1..numNodes : indexes[j] = matchIndex[p[j]]
  BY DEF IsSorted
<1>2. /\ p \in [1..numNodes -> 1..numNodes]
      /\ \A j, k \in 1..numNodes : p[j] = p[k] => j = k
      /\ \A n \in 1..numNodes : \E j \in 1..numNodes : p[j] = n
  <2>1. /\ p \in Injection(1..numNodes, 1..numNodes)
        /\ p \in Surjection(1..numNodes, 1..numNodes)
    BY <1>1, Fun_BijectionProperties
  <2>2. \A j, k \in 1..numNodes : p[j] = p[k] => j = k
    BY <2>1, Fun_InjectionProperties
  <2>3. /\ p \in [1..numNodes -> 1..numNodes]
        /\ \A n \in 1..numNodes : \E j \in 1..numNodes : p[j] = n
    BY <2>1, Fun_SurjectionProperties
  <2> QED
    BY <2>2, <2>3
<1>3. DOMAIN matchIndex = 1..numNodes /\ numNodes \in Nat
  BY DEF LoopTypeOK
<1>4. IsFiniteSet(1..numNodes) /\ Cardinality(1..numNodes) = numNodes
  BY <1>3, FS_Interval
<1>5. IsFiniteSet(Above)
  BY <1>4, FS_Subset
<1> DEFINE q == [j \in Above |-> p[j]]
<1>6. q \in [Above -> AboveArg]
  BY <1>1, <1>2
<1>7. \A j, k \in Above : q[j] = q[k] => j = k
  BY <1>2
<1>8. \A n \in AboveArg : \E j \in Above : q[j] = n
  BY <1>1, <1>2
<1>9. q \in Bijection(Above, AboveArg)
  BY <1>6, <1>7, <1>8, Fun_IsBij
<1>10. Cardinality(AboveArg) = Cardinality(Above)
  BY <1>5, <1>9, FS_Bijection, Fun_ExistsBij
<1> QED
  BY <1>3, <1>4, <1>10 DEF Reached

\* What the loop compares is whether prevIdx is reached by more than half.
LEMMA GroupReached ==
  ASSUME LoopTypeOK, IsSorted, GroupPlaced, i > 0
  PROVE  Reached(prevIdx) <=> Reaching > numNodes \div 2
<1> DEFINE first == i - currCnt + 1
<1>1. /\ i \in 1..numNodes /\ currCnt \in 1..i /\ numNodes \in Nat
      /\ first \in 1..numNodes /\ first <= i
  BY DEF LoopTypeOK, GroupPlaced
<1>2. indexes \in [1..numNodes -> Nat] /\ prevIdx \in Nat
  BY DEF LoopTypeOK
<1>3. indexes[i] = prevIdx
  BY <1>1 DEF GroupPlaced
<1>4. ASSUME NEW j \in 1..numNodes PROVE indexes[j] >= prevIdx <=> j >= first
  <2>1. CASE j < first
    <3>1. indexes[j] < prevIdx
      BY <1>1, <2>1 DEF GroupPlaced
    <3> QED
      BY <1>1, <1>2, <2>1, <3>1
  <2>2. CASE j >= first /\ j <= i
    BY <1>1, <1>2, <2>2 DEF GroupPlaced
  <2>3. CASE j > i
    <3>1. indexes[i] <= indexes[j]
      BY <1>1, <1>2, <2>3 DEF IsSorted, Ascending
    <3> QED
      BY <1>1, <1>2, <1>3, <2>3, <3>1
  <2> QED
    BY <1>1, <2>1, <2>2, <2>3
<1>5. {j \in 1..numNodes : indexes[j] >= prevIdx} = first..numNodes
  BY <1>1, <1>4
<1>6. Cardinality(first..numNodes) = numNodes - first + 1
  BY <1>1, FS_Interval
<1>7. numNodes - first + 1 = Reaching
  BY <1>1 DEF Reaching
<1> QED
  BY <1>2, <1>5, <1>6, <1>7, SortedReach

\* Every node reaches the least index.
LEMMA LeastReached ==
  ASSUME LoopTypeOK, IsSorted
  PROVE  Reached(indexes[1])
<1>1. numNodes \in Nat \ {0} /\ indexes \in [1..numNodes -> Nat]
  BY DEF LoopTypeOK
<1>2. \A j \in 1..numNodes : indexes[j] >= indexes[1]
  <2> TAKE j \in 1..numNodes
  <2>1. CASE j = 1
    BY <1>1, <2>1
  <2>2. CASE j > 1
    BY <1>1, <2>2 DEF IsSorted, Ascending
  <2> QED
    BY <1>1, <2>1, <2>2
<1>3. {j \in 1..numNodes : indexes[j] >= indexes[1]} = 1..numNodes
  BY <1>2
<1>4. Cardinality(1..numNodes) = numNodes /\ numNodes > numNodes \div 2
  BY <1>1, FS_Interval
<1>5. indexes[1] \in Nat
  BY <1>1
<1> QED
  BY <1>3, <1>4, <1>5, SortedReach

-----------------------------------------------------------------------------

LEMMA LoopInit == Init => LoopInv
<1> SUFFICES ASSUME Init PROVE LoopInv
  OBVIOUS
<1>1. PICK n \in 1..MaxNodes : \E a \in [1..n -> 0..MaxIndex] : \E self \in 1..n :
        matchIndex = [a EXCEPT ![self] = MaxUint]
  BY DEF Init, MatchIndexes
<1>2. n \in Nat \ {0} /\ matchIndex \in [1..n -> Nat]
  BY <1>1, BoundAssumption
<1>3. numNodes = n
  BY <1>2, FS_Interval DEF Init, numNodes
<1> QED
  BY <1>2, <1>3 DEF Init, LoopInv, LoopTypeOK, ResultIsCommitIndex

LEMMA SortStep ==
  ASSUME LoopInv, Sort
  PROVE  LoopInv'
<1>1. numNodes \in Nat \ {0} /\ DOMAIN matchIndex = 1..numNodes
      /\ matchIndex \in [1..numNodes -> Nat]
  BY DEF LoopInv, LoopTypeOK
<1>2. PICK p \in Bijection(1..numNodes, 1..numNodes) :
        indexes' = [j \in 1..numNodes |-> matchIndex[p[j]]]
  BY <1>1 DEF Sort
<1>3. p \in [1..numNodes -> 1..numNodes]
  BY <1>2, Fun_BijectionProperties
<1>4. numNodes' = numNodes
  BY <1>1, <1>2, FS_Interval DEF numNodes
<1>5. indexes' \in [1..numNodes -> Nat]
  BY <1>1, <1>2, <1>3
<1>6. i = 0 /\ currCnt = 0 /\ maxIdx = 0
  BY DEF Sort, LoopInv
<1>7. LoopTypeOK'
  BY <1>1, <1>4, <1>5, <1>6 DEF Sort, LoopTypeOK
<1>8. IsSorted'
  BY <1>2, <1>4 DEF Sort, IsSorted
<1>9. GroupPlaced' /\ BestSoFar'
  BY <1>6 DEF Sort, GroupPlaced, BestSoFar
<1> QED
  BY <1>7, <1>8, <1>9 DEF Sort, LoopInv, ResultIsCommitIndex

LEMMA CountEqualStep ==
  ASSUME LoopInv, CountEqual
  PROVE  LoopInv'
<1>1. LoopTypeOK /\ IsSorted /\ GroupPlaced /\ BestSoFar
  BY DEF CountEqual, LoopInv
<1>2. numNodes' = numNodes
  BY DEF CountEqual, numNodes
<1>3. LoopTypeOK'
  BY <1>1, <1>2 DEF CountEqual, LoopTypeOK
<1>4. IsSorted'
  BY <1>1, <1>2 DEF CountEqual, IsSorted, Ascending
<1>5. GroupPlaced'
  BY <1>1 DEF CountEqual, GroupPlaced, LoopTypeOK
<1>6. /\ i' = i + 1 /\ i \in Nat /\ indexes[i + 1] = prevIdx /\ prevIdx \in Nat
      /\ UNCHANGED <<matchIndex, indexes, prevIdx, maxIdx>>
  BY <1>1 DEF CountEqual, LoopTypeOK
<1>7. BestSoFar'
  <2>1. ASSUME NEW j \in 1..(i + 1), indexes[j] < prevIdx, Reached(indexes[j])
        PROVE  indexes[j] <= maxIdx
    <3>1. j # i + 1
      BY <1>6, <2>1
    <3> QED
      BY <1>1, <1>6, <2>1, <3>1 DEF BestSoFar
  <2>2. ASSUME maxIdx # 0
        PROVE  Reached(maxIdx) /\ maxIdx < prevIdx /\ \E j \in 1..(i + 1) : indexes[j] = maxIdx
    <3>1. Reached(maxIdx) /\ maxIdx < prevIdx /\ \E j \in 1..i : indexes[j] = maxIdx
      BY <1>1, <2>2 DEF BestSoFar
    <3> QED
      BY <1>6, <3>1
  <2> QED
    BY <1>6, <2>1, <2>2 DEF BestSoFar, Reached
<1> QED
  BY <1>3, <1>4, <1>5, <1>7 DEF CountEqual, LoopInv, ResultIsCommitIndex

LEMMA NextGroupStep ==
  ASSUME LoopInv, NextGroup
  PROVE  LoopInv'
<1>1. LoopTypeOK /\ IsSorted /\ GroupPlaced /\ BestSoFar
  BY DEF NextGroup, LoopInv
<1>2. numNodes' = numNodes
  BY DEF NextGroup, numNodes
<1>3. i \in 1..numNodes /\ i < numNodes /\ currCnt \in 1..i /\ numNodes \in Nat
  BY <1>1 DEF NextGroup, LoopTypeOK, GroupPlaced
<1>4. indexes \in [1..numNodes -> Nat] /\ prevIdx \in Nat /\ maxIdx \in Nat
  BY <1>1 DEF LoopTypeOK
<1>5. indexes[i] = prevIdx /\ \A j \in 1..i : indexes[j] <= prevIdx
  BY <1>1, <1>3, <1>4 DEF GroupPlaced
<1>6. prevIdx' = indexes[i + 1] /\ prevIdx' \in Nat /\ prevIdx < prevIdx'
  <2>1. indexes[i] <= indexes[i + 1]
    BY <1>1, <1>3, <1>4 DEF IsSorted, Ascending
  <2> QED
    BY <1>3, <1>4, <1>5, <2>1 DEF NextGroup
<1>7. /\ i' = i + 1 /\ currCnt' = 1
      /\ UNCHANGED <<matchIndex, indexes, pc>>
      /\ maxIdx' = IF Reached(prevIdx) THEN prevIdx ELSE maxIdx
  BY <1>1, <1>3, GroupReached DEF NextGroup, FirstOfGroup
<1>8. LoopTypeOK'
  BY <1>1, <1>2, <1>3, <1>4, <1>6, <1>7 DEF LoopTypeOK
<1>9. IsSorted'
  BY <1>1, <1>2, <1>7 DEF IsSorted, Ascending
<1>10. GroupPlaced'
  <2>1. \A j \in 1..(i' - currCnt') : indexes'[j] < prevIdx'
    BY <1>3, <1>4, <1>5, <1>6, <1>7
  <2>2. \A j \in (i' - currCnt' + 1)..i' : indexes'[j] = prevIdx'
    BY <1>3, <1>6, <1>7
  <2> QED
    BY <1>3, <1>7, <2>1, <2>2 DEF GroupPlaced
<1>11. BestSoFar'
  <2>1. ASSUME NEW j \in 1..(i + 1), indexes[j] < prevIdx', Reached(indexes[j])
        PROVE  indexes[j] <= maxIdx'
    <3>1. j \in 1..i
      BY <1>3, <1>4, <1>6, <2>1
    <3>2. CASE indexes[j] = prevIdx
      BY <1>4, <1>7, <2>1, <3>2
    <3>3. CASE indexes[j] < prevIdx
      <4>1. indexes[j] <= maxIdx
        BY <1>1, <2>1, <3>1, <3>3 DEF BestSoFar
      <4>2. indexes[j] \in Nat
        BY <1>3, <1>4, <3>1
      <4> QED
        BY <1>4, <1>7, <3>3, <4>1, <4>2
    <3>4. indexes[j] <= prevIdx /\ indexes[j] \in Nat
      BY <1>3, <1>4, <1>5, <3>1
    <3> QED
      BY <1>4, <3>2, <3>3, <3>4
  <2>2. ASSUME maxIdx' # 0
        PROVE  Reached(maxIdx') /\ maxIdx' < prevIdx' /\ \E j \in 1..(i + 1) : indexes[j] = maxIdx'
    <3>1. CASE Reached(prevIdx)
      <4>1. maxIdx' = prevIdx /\ i \in 1..(i + 1)
        BY <1>3, <1>7, <3>1
      <4> QED
        BY <1>5, <1>6, <3>1, <4>1
    <3>2. CASE ~Reached(prevIdx)
      <4>1. maxIdx' = maxIdx
        BY <1>7, <3>2
      <4>2. Reached(maxIdx) /\ maxIdx < prevIdx /\ \E j \in 1..i : indexes[j] = maxIdx
        BY <1>1, <2>2, <4>1 DEF BestSoFar
      <4>3. \E j \in 1..(i + 1) : indexes[j] = maxIdx
        BY <1>3, <4>2
      <4> QED
        BY <1>4, <1>6, <4>1, <4>2, <4>3
    <3> QED
      BY <3>1, <3>2
  <2>3. \A idx : Reached(idx)' <=> Cardinality({n \in DOMAIN matchIndex : matchIndex[n] >= idx})
                                     > Cardinality(DOMAIN matchIndex) \div 2
    BY <1>7 DEF Reached
  <2> QED
    BY <1>7, <2>1, <2>2 DEF BestSoFar, Reached
<1> QED
  BY <1>7, <1>8, <1>9, <1>10, <1>11 DEF NextGroup, LoopInv, ResultIsCommitIndex

\* The result is right.
LEMMA FinishStep ==
  ASSUME LoopInv, Finish
  PROVE  LoopInv'
<1>1. LoopTypeOK /\ IsSorted /\ GroupPlaced /\ BestSoFar
  BY DEF Finish, LoopInv
<1>2. /\ i = numNodes /\ i \in 1..numNodes /\ currCnt \in 1..i /\ numNodes \in Nat
      /\ pc' = "done" /\ UNCHANGED <<matchIndex, indexes, i, prevIdx, currCnt>>
  BY <1>1 DEF Finish, LoopTypeOK, GroupPlaced
<1>3. /\ indexes \in [1..numNodes -> Nat] /\ matchIndex \in [1..numNodes -> Nat]
      /\ prevIdx \in Nat /\ maxIdx \in Nat
  BY <1>1 DEF LoopTypeOK
<1>4. indexes[i] = prevIdx /\ \A j \in 1..i : indexes[j] <= prevIdx
  BY <1>1, <1>2, <1>3 DEF GroupPlaced
<1>5. maxIdx' = IF Reached(prevIdx) THEN prevIdx ELSE maxIdx
  <2>1. Reaching = currCnt
    BY <1>2 DEF Reaching
  <2> QED
    BY <1>1, <1>2, <2>1, GroupReached DEF Finish
<1>6. LoopTypeOK'
  <2>1. numNodes' = numNodes
    BY <1>2 DEF numNodes
  <2> QED
    BY <1>1, <1>2, <1>3, <1>5, <2>1 DEF LoopTypeOK
<1>7. PICK p \in Bijection(1..numNodes, 1..numNodes) :
        \A j \in 1..numNodes : indexes[j] = matchIndex[p[j]]
  BY <1>1 DEF IsSorted
<1>8. /\ p \in [1..numNodes -> 1..numNodes]
      /\ \A n \in 1..numNodes : \E j \in 1..numNodes : p[j] = n
  BY <1>7, Fun_BijectionProperties, Fun_SurjectionProperties
<1>9. /\ \A j \in 1..numNodes : \E n \in DOMAIN matchIndex : matchIndex[n] = indexes[j]
      /\ \A n \in DOMAIN matchIndex : \E j \in 1..numNodes : matchIndex[n] = indexes[j]
  <2>1. DOMAIN matchIndex = 1..numNodes
    BY <1>3
  <2>2. ASSUME NEW j \in 1..numNodes PROVE \E n \in 1..numNodes : matchIndex[n] = indexes[j]
    BY <1>7, <1>8
  <2>3. ASSUME NEW n \in 1..numNodes PROVE \E j \in 1..numNodes : matchIndex[n] = indexes[j]
    BY <1>7, <1>8
  <2> QED
    BY <2>1, <2>2, <2>3
<1>10. (\E j \in 1..numNodes : indexes[j] = maxIdx') /\ Reached(maxIdx')
  <2>1. CASE Reached(prevIdx)
    BY <1>2, <1>4, <1>5, <2>1
  <2>2. CASE ~Reached(prevIdx) /\ maxIdx # 0
    BY <1>1, <1>2, <1>5, <2>2 DEF BestSoFar
  <2>3. CASE ~Reached(prevIdx) /\ maxIdx = 0
    <3>1. Reached(indexes[1]) /\ 1 \in 1..i /\ indexes[1] \in Nat
      BY <1>1, <1>2, <1>3, LeastReached
    <3>2. indexes[1] # prevIdx
      BY <2>3, <3>1
    <3>3. indexes[1] < prevIdx
      BY <1>3, <1>4, <3>1, <3>2
    <3>4. indexes[1] <= maxIdx
      BY <1>1, <3>1, <3>3 DEF BestSoFar
    <3>5. indexes[1] = maxIdx'
      BY <1>5, <2>3, <3>1, <3>4
    <3> QED
      BY <1>2, <3>1, <3>5
  <2> QED
    BY <2>1, <2>2, <2>3
<1>11. ASSUME NEW j \in 1..numNodes, Reached(indexes[j]) PROVE indexes[j] <= maxIdx'
  <2>1. indexes[j] \in Nat /\ indexes[j] <= prevIdx
    BY <1>2, <1>3, <1>4
  <2>2. CASE indexes[j] = prevIdx
    BY <1>3, <1>5, <1>11, <2>2
  <2>3. CASE indexes[j] < prevIdx
    <3>1. indexes[j] <= maxIdx
      BY <1>1, <1>2, <1>11, <2>3 DEF BestSoFar
    <3> QED
      BY <1>3, <1>5, <2>1, <2>3, <3>1
  <2> QED
    BY <1>3, <2>1, <2>2, <2>3
<1>12. ResultIsCommitIndex'
  <2>1. \E n \in DOMAIN matchIndex : matchIndex[n] = maxIdx'
    BY <1>9, <1>10
  <2>2. \A n \in DOMAIN matchIndex : Reached(matchIndex[n]) => matchIndex[n] <= maxIdx'
    BY <1>9, <1>11
  <2> QED
    BY <1>2, <1>10, <2>1, <2>2 DEF ResultIsCommitIndex, Reached
<1> QED
  BY <1>2, <1>6, <1>12 DEF LoopInv

-----------------------------------------------------------------------------

LEMMA LoopInvariant == Spec => []LoopInv
<1>1. LoopInv /\ [Next]_vars => LoopInv'
  <2> SUFFICES ASSUME LoopInv, [Next]_vars PROVE LoopInv'
    OBVIOUS
  <2>1. CASE UNCHANGED vars
    BY <2>1 DEF vars, LoopInv, LoopTypeOK, numNodes, IsSorted, Ascending, GroupPlaced,
                BestSoFar, Reached, ResultIsCommitIndex
  <2> QED
    BY <2>1, SortStep, CountEqualStep, NextGroupStep, FinishStep DEF Next
<1> QED
  BY LoopInit, <1>1, PTL DEF Spec

(* What calcCommitIndex returns (raft.go:213-240) is the largest entry of   *)
(* MatchIndex that more than half of its entries reach, for any number of   *)
(* nodes and any indexes.                                                  *)
THEOREM CommitIndexIsRight == Spec => []ResultIsCommitIndex
<1>1. LoopInv => ResultIsCommitIndex
  BY DEF LoopInv
<1> QED
  BY LoopInvariant, <1>1, PTL

(* The loop (raft.go:219-236) keeps its count of the current group and the  *)
(* best of the groups before it.                                           *)
THEOREM LoopCounts == Spec => []GroupsCounted
<1>1. LoopInv => GroupsCounted
  <2> SUFFICES ASSUME LoopInv, pc = "loop"
               PROVE  /\ i > 0 => prevIdx = indexes[i]
                      /\ currCnt = Cardinality({j \in 1..i : indexes[j] = prevIdx})
                      /\ BestSoFar
    BY DEF GroupsCounted, BestSoFar
  <2>1. LoopTypeOK /\ GroupPlaced /\ BestSoFar
    BY DEF LoopInv
  <2>2. /\ i \in 0..numNodes /\ currCnt \in 0..i /\ numNodes \in Nat /\ prevIdx \in Nat
        /\ indexes \in [1..numNodes -> Nat]
    BY <2>1 DEF LoopTypeOK
  <2>3. i > 0 => prevIdx = indexes[i]
    BY <2>1, <2>2 DEF GroupPlaced
  <2>4. {j \in 1..i : indexes[j] = prevIdx} = (i - currCnt + 1)..i
    <3>1. ASSUME NEW j \in 1..i PROVE indexes[j] = prevIdx <=> j >= i - currCnt + 1
      <4>1. j <= i - currCnt => indexes[j] < prevIdx
        BY <2>1, <2>2 DEF GroupPlaced
      <4>2. j >= i - currCnt + 1 => indexes[j] = prevIdx
        BY <2>1, <2>2 DEF GroupPlaced
      <4> QED
        BY <2>2, <4>1, <4>2
    <3> QED
      BY <2>2, <3>1
  <2>5. Cardinality((i - currCnt + 1)..i) = currCnt
    BY <2>2, FS_Interval
  <2> QED
    BY <2>1, <2>3, <2>4, <2>5
<1> QED
  BY LoopInvariant, <1>1, PTL

=============================================================================

---------------------------- MODULE RaftProofs ----------------------------
(***************************************************************************)
(* Theorems about Raft, for every set of nodes and every bound: the types, *)
(* what is in pstate.json and the flags of a leader, and the elections.    *)
(***************************************************************************)
EXTENDS RaftProperties, TLAPS, FiniteSetTheorems, SequenceTheorems

(* Stepping an index back from above 0 does not wrap (raft.go:209).        *)
LEMMA StepBackType == \A i \in Nat : i # 0 => i - 1 \in Nat
OBVIOUS

(* Dropping statusChan from a sequence of entries leaves a sequence of      *)
(* entries (the JSON of AppendRequest, log.go:20-27).                      *)
LEMMA SentType ==
    ASSUME NEW s \in Seq(Entry)
    PROVE  Sent(s) \in Seq(Entry)
<1>1. Len(s) \in Nat /\ DOMAIN s = 1..Len(s) /\ \A i \in 1..Len(s) : s[i] \in Entry
  BY LenProperties, ElementOfSeq
<1>2. \A e \in Entry : [e EXCEPT !.chan = FALSE] \in Entry
  BY DEF Entry
<1>3. Sent(s) \in [1..Len(s) -> Entry]
  BY <1>1, <1>2 DEF Sent
<1> QED
  BY <1>1, <1>3, SeqDef

(* NextIndex - 1, brought back into the log, is an index of it             *)
(* (raft.go:153-156).                                                      *)
LEMMA PrevIndexType ==
    ASSUME TypeOK, NEW n \in Node, NEW m \in Node
    PROVE  PrevIndex(n, m) \in 0..Len(log[n])
<1>1. Len(log[n]) \in Nat
  <2>1. log[n] \in Seq(Entry)
    BY DEF TypeOK
  <2> QED BY <2>1, LenProperties
<1>2. nextIndex[n][m] \in Nat
  BY DEF TypeOK
<1> QED
  BY <1>1, <1>2 DEF PrevIndex

(* Entries carry a term at every index, the sentinel included.             *)
LEMMA TermAtType ==
    ASSUME NEW s \in Seq(Entry), NEW i \in 0..Len(s)
    PROVE  TermAt(s, i) \in Nat
<1>1. CASE i = 0
  BY <1>1 DEF TermAt
<1>2. CASE i # 0
  <2>1. s[i] \in Entry
    BY <1>2, ElementOfSeq
  <2> QED
    BY <1>2, <2>1 DEF TermAt, Entry
<1> QED
  BY <1>1, <1>2

(* What CheckAndCorrect leaves of the log is a log (log.go:160-187).       *)
LEMMA CorrectedType ==
    ASSUME TypeOK, NEW n \in Node, NEW m \in AppendRequest
    PROVE  Corrected(n, m) \in Seq(Entry)
<1>1. log[n] \in Seq(Entry) /\ m.prev \in Nat
  BY DEF TypeOK, AppendRequest
<1>2. CASE m.prev > Len(log[n])
  BY <1>1, <1>2 DEF Corrected
<1>3. CASE ~(m.prev > Len(log[n]))
  <2> DEFINE k == IF Fits(n, m) THEN m.prev ELSE m.prev - 1
  <2>1. k \in Int /\ \A i \in 1..k : log[n][i] \in Entry
    BY <1>1, <1>3
  <2>2. SubSeq(log[n], 1, k) \in Seq(Entry)
    BY <2>1, SubSeqProperties
  <2> QED
    BY <2>2, <1>3 DEF Corrected
<1> QED
  BY <1>2, <1>3

(* CommitChanges leaves its three fields well typed: what it hands to      *)
(* commitQueue are entries (env.go:50-75).                                 *)
LEMMA CommitType ==
    ASSUME TypeOK, NEW n \in Node, NEW entries \in Seq(Entry),
           NEW commit \in Nat, CommitChanges(n, entries, commit)
    PROVE  /\ commitIndex' \in [Node -> Nat]
           /\ lastApplied' \in [Node -> Nat]
           /\ applied' \in [Node -> Seq(Entry)]
<1> DEFINE limit == CommitLimit(entries, commit)
           extra == IF limit > Len(entries) /\ lastApplied[n] < limit
                      THEN <<Overrun>> ELSE <<>>
           first == FirstToApply(n)
           last == limit - Len(extra)
<1>1. limit \in Nat /\ limit <= Len(entries) + 1
  BY DEF CommitLimit
<1>2. /\ extra \in Seq(Entry)
      /\ Len(extra) = IF limit > Len(entries) /\ lastApplied[n] < limit THEN 1 ELSE 0
  <2>1. <<Overrun>> \in Seq(Entry) /\ Len(<<Overrun>>) = 1
    BY DEF Overrun, Entry
  <2>2. <<>> \in Seq(Entry) /\ Len(<<>>) = 0
    OBVIOUS
  <2> HIDE DEF limit
  <2> QED
    BY <2>1, <2>2
<1>3. lastApplied[n] \in Nat /\ lastApplied[n] <= limit /\ first = lastApplied[n] + 1
  BY DEF TypeOK, CommitChanges, FirstToApply
<1>4. first \in Int /\ last \in Int /\ \A i \in first..last : entries[i] \in Entry
  <2> HIDE DEF limit, extra, first
  <2>1. \A i \in first..last : i \in 1..Len(entries)
    BY <1>1, <1>2, <1>3
  <2> QED
    BY <2>1, <1>1, <1>2, <1>3
<1>5. SubSeq(entries, first, last) \in Seq(Entry)
  BY <1>4, SubSeqProperties
<1>6. applied[n] \o SubSeq(entries, first, last) \o extra \in Seq(Entry)
  <2> HIDE DEF extra, first, last
  <2> QED BY <1>2, <1>5 DEF TypeOK
<1>7. applied' = [applied EXCEPT ![n] = applied[n] \o SubSeq(entries, first, last) \o extra]
  BY DEF CommitChanges
<1>8. applied' \in [Node -> Seq(Entry)]
  <2> HIDE DEF extra, first, last
  <2> QED BY <1>6, <1>7 DEF TypeOK
<1> QED
  BY <1>1, <1>8 DEF TypeOK, CommitChanges

(* A request keeps its shape when it is abandoned, sent with a newer term   *)
(* or with a newer commit index; only requests are pending.                *)
LEMMA RequestType ==
    ASSUME TypeOK
    PROVE  /\ \A n \in Node : Pending(n) \subseteq Request
           /\ \A S \in SUBSET Request : Abandon(S) \subseteq Request
           /\ \A r \in Request : \A t \in Nat : [r EXCEPT !.term = t] \in Request
           /\ \A r \in Request : \A c \in Nat : [r EXCEPT !.commit = c] \in Request
<1>1. \A n \in Node : Pending(n) \subseteq Request
  BY DEF TypeOK, Pending, Calls, Message, Request, Answer
<1>2. \A r \in Request : [r EXCEPT !.live = FALSE] \in Request
  <2>1. \A r \in VoteRequest : [r EXCEPT !.live = FALSE] \in VoteRequest
    BY DEF VoteRequest
  <2>2. \A r \in AppendRequest : [r EXCEPT !.live = FALSE] \in AppendRequest
    BY DEF AppendRequest
  <2> QED BY <2>1, <2>2 DEF Request
<1>3. \A r \in Request : \A t \in Nat : [r EXCEPT !.term = t] \in Request
  <2>1. \A r \in VoteRequest : \A t \in Nat : [r EXCEPT !.term = t] \in VoteRequest
    BY DEF VoteRequest
  <2>2. \A r \in AppendRequest : \A t \in Nat : [r EXCEPT !.term = t] \in AppendRequest
    BY DEF AppendRequest
  <2> QED BY <2>1, <2>2 DEF Request
<1>4. \A r \in Request : \A c \in Nat : [r EXCEPT !.commit = c] \in Request
  <2>1. \A r \in AppendRequest : \A c \in Nat : [r EXCEPT !.commit = c] \in AppendRequest
    BY DEF AppendRequest
  <2>2. \A r \in VoteRequest : \A c \in Nat : [r EXCEPT !.commit = c] \in VoteRequest
    BY DEF VoteRequest
  <2> QED BY <2>1, <2>2 DEF Request
<1> QED
  BY <1>1, <1>2, <1>3, <1>4 DEF Abandon

(* Closing a round and answering a request leave messages in net.          *)
LEMMA NetType ==
    ASSUME TypeOK
    PROVE  /\ \A n \in Node, kept \in SUBSET Request :
                 CloseCalls(n, kept) => net' \subseteq Message
           /\ \A m \in net, a \in Answer : Answered(m, a) \subseteq Message
           /\ \A m \in Message, t \in Nat, ok \in BOOLEAN :
                 VoteAnswer(m, t, ok) \in Answer /\ AppendAnswer(m, t, ok) \in Answer
<1>1. \A m \in Message : m.caller \in Node /\ m.peer \in Node
  BY DEF Message, Request, VoteRequest, AppendRequest, Answer
<1>2. \A m \in Message, t \in Nat, ok \in BOOLEAN :
         VoteAnswer(m, t, ok) \in Answer /\ AppendAnswer(m, t, ok) \in Answer
  BY <1>1 DEF VoteAnswer, AppendAnswer, Answer
<1> QED
  BY <1>2 DEF TypeOK, CloseCalls, Answered, Message

(* What a follower adopts from the sender of entries (raft.go:417-423), and *)
(* what a restart leaves behind, is well typed.                            *)
LEMMA FollowType ==
    ASSUME TypeOK, NEW n \in Node, NEW m \in Message, FollowLeader(n, m)
    PROVE  /\ gotHb' \in [Node -> BOOLEAN]
           /\ isLeader' \in [Node -> BOOLEAN]
           /\ leading' \in [Node -> BOOLEAN]
           /\ nextIndex' \in [Node -> [Node -> Nat]]
           /\ matchIndex' \in [Node -> [Node -> Nat]]
           /\ leaderId' \in [Node -> Node \cup {Nil}]
           /\ currentTerm' \in [Node -> Nat]
           /\ votedFor' \in [Node -> Node \cup {Nil}]
<1>1. m.caller \in Node /\ m.term \in Nat
  BY DEF Message, Request, VoteRequest, AppendRequest, Answer
<1> QED
  BY <1>1 DEF TypeOK, FollowLeader, DropLeaderState

LEMMA RebootType ==
    ASSUME TypeOK, NEW n \in Node, Reboot(n)
    PROVE  /\ isLeader' \in [Node -> BOOLEAN]
           /\ leading' \in [Node -> BOOLEAN]
           /\ nextIndex' \in [Node -> [Node -> Nat]]
           /\ matchIndex' \in [Node -> [Node -> Nat]]
           /\ leaderId' \in [Node -> Node \cup {Nil}]
           /\ commitIndex' \in [Node -> Nat]
           /\ lastApplied' \in [Node -> Nat]
           /\ applied' \in [Node -> Seq(Entry)]
           /\ lock' \in [Node -> {"free", "vote", "append", "wait"}]
           /\ yes' \in [Node -> SUBSET Node]
           /\ no' \in [Node -> SUBSET Node]
           /\ timer' \in [Node -> {"armed", "revote", "campaign"}]
           /\ gotHb' \in [Node -> BOOLEAN]
           /\ fresh' \subseteq Value
           /\ checked' \in [Node -> SUBSET Value]
           /\ crashes' \in Nat
           /\ votes' \subseteq Node \X Nat \X Node
           /\ wins' \subseteq Nat \X Node
<1>1. /\ isLeader' \in [Node -> BOOLEAN]
      /\ leading' \in [Node -> BOOLEAN]
      /\ nextIndex' \in [Node -> [Node -> Nat]]
      /\ matchIndex' \in [Node -> [Node -> Nat]]
      /\ leaderId' \in [Node -> Node \cup {Nil}]
  BY DEF TypeOK, Reboot, DropLeaderState
<1>2. /\ commitIndex' \in [Node -> Nat]
      /\ lastApplied' \in [Node -> Nat]
      /\ applied' \in [Node -> Seq(Entry)]
  BY EmptySeq DEF TypeOK, Reboot
<1>3. /\ lock' \in [Node -> {"free", "vote", "append", "wait"}]
      /\ yes' \in [Node -> SUBSET Node]
      /\ no' \in [Node -> SUBSET Node]
  BY DEF TypeOK, Reboot, Unlock
<1>4. /\ timer' \in [Node -> {"armed", "revote", "campaign"}]
      /\ gotHb' \in [Node -> BOOLEAN]
      /\ checked' \in [Node -> SUBSET Value]
      /\ crashes' \in Nat
  BY DEF TypeOK, Reboot
<1>5. UNCHANGED <<fresh, votes, wins>>
  BY DEF Reboot
<1> QED
  BY <1>1, <1>2, <1>3, <1>4, <1>5 DEF TypeOK

(* Init and every step keep the types, whichever action takes it.          *)
LEMMA TypeInit == Init => TypeOK
<1> SUFFICES ASSUME Init PROVE TypeOK
  OBVIOUS
<1>1. belated \in BOOLEAN
  BY Zenon DEF Init
<1>2. leading \in [Node -> BOOLEAN] /\ isLeader \in [Node -> BOOLEAN] /\ gotHb \in [Node -> BOOLEAN]
  BY DEF Init
<1> QED
  BY <1>1, <1>2, BoundAssumption DEF Init, TypeOK

LEMMA TypeNext == TypeOK /\ [Next]_vars => TypeOK'
<1> SUFFICES ASSUME TypeOK, [Next]_vars PROVE TypeOK'
  OBVIOUS
<1> USE DEF TypeOK, diskVars, leaderVars, commitVars, roundVars, timerVars, clientVars, history
<1>1. CASE UNCHANGED vars
  BY <1>1 DEF vars
<1>2. ASSUME NEW n \in Node, TimerFires(n) PROVE TypeOK'
  BY <1>2 DEF TimerFires
<1>3. ASSUME NEW n \in Node, CheckAlreadyLeader(n) PROVE TypeOK'
  BY <1>3 DEF CheckAlreadyLeader
<1>4. ASSUME NEW n \in Node, StartElection(n) PROVE TypeOK'
  <2>1. LastTerm(n) \in Nat /\ Len(log[n]) \in Nat /\ currentTerm[n] + 1 \in Nat
    BY LenProperties, TermAtType DEF LastTerm
  <2> DEFINE ask(m) == [type |-> "vote", caller |-> n, peer |-> m,
                        term |-> currentTerm[n] + 1, lastIdx |-> Len(log[n]),
                        lastTerm |-> LastTerm(n), live |-> TRUE]
  <2>2. \A m \in Node : ask(m) \in Message
    BY <2>1 DEF VoteRequest, Request, Message
  <2>3. net' = net \cup {ask(m) : m \in Node \ {n}}
    BY <1>4 DEF StartElection
  <2>4. net' \subseteq Message
    <3> HIDE DEF ask
    <3> QED BY <2>2, <2>3
  <2> QED
    BY <1>4, <2>1, <2>4 DEF StartElection
<1>5. ASSUME NEW n \in Node, CountVote(n) PROVE TypeOK'
  <2>1. PICK m \in net : CountVote(n)!2!(m)
    BY <1>5 DEF CountVote, Calls
  <2>2. m.peer \in Node
    BY DEF Message, Request, VoteRequest, AppendRequest, Answer
  <2>3. yes' = yes \/ yes' = [yes EXCEPT ![n] = @ \cup {m.peer}]
    BY <2>1
  <2>4. no' = no \/ no' = [no EXCEPT ![n] = @ \cup {m.peer}]
    BY <2>1
  <2>5. yes' \in [Node -> SUBSET Node] /\ no' \in [Node -> SUBSET Node]
    <3>1. yes \in [Node -> SUBSET Node] /\ no \in [Node -> SUBSET Node]
      OBVIOUS
    <3>2. yes[n] \cup {m.peer} \in SUBSET Node /\ no[n] \cup {m.peer} \in SUBSET Node
      BY <2>2, <3>1
    <3>3. yes' \in [Node -> SUBSET Node]
      <4>1. CASE yes' = yes
        BY <3>1, <4>1
      <4>2. CASE yes' = [yes EXCEPT ![n] = @ \cup {m.peer}]
        BY <3>1, <3>2, <4>2
      <4> QED BY <2>3, <4>1, <4>2
    <3>4. no' \in [Node -> SUBSET Node]
      <4>1. CASE no' = no
        BY <3>1, <4>1
      <4>2. CASE no' = [no EXCEPT ![n] = @ \cup {m.peer}]
        BY <3>1, <3>2, <4>2
      <4> QED BY <2>4, <4>1, <4>2
    <3> QED BY <3>3, <3>4
  <2>6. net' \subseteq Message
    BY <2>1
  <2> QED
    BY <1>5, <2>5, <2>6 DEF CountVote
<1>6. ASSUME NEW n \in Node, StepDown(n) PROVE TypeOK'
  <2>1. PICK m \in Calls(n) : StepDown(n)!2!(m)
    BY <1>6 DEF StepDown
  <2>2. PICK kept \in SUBSET Pending(n), late \in SUBSET Pending(n) :
           CloseCalls(n, Abandon((kept \ late)
                                 \cup {[r EXCEPT !.term = m.term] : r \in late}))
    BY <2>1
  <2>3. m.term \in Nat
    BY DEF Calls, Message, Request, VoteRequest, AppendRequest, Answer
  <2>4. net' \subseteq Message
    <3>1. \A r \in late : [r EXCEPT !.term = m.term] \in Request
      <4>1. late \subseteq Request
        BY RequestType
      <4> QED BY <4>1, <2>3, RequestType
    <3>2. (kept \ late) \cup {[r EXCEPT !.term = m.term] : r \in late} \subseteq Request
      BY <3>1, RequestType
    <3> QED
      BY <2>2, <3>2, RequestType, NetType
  <2>5. /\ currentTerm' = [currentTerm EXCEPT ![n] = m.term]
        /\ votedFor' = [votedFor EXCEPT ![n] = Nil]
        /\ isLeader' = [isLeader EXCEPT ![n] = FALSE]
        /\ timer' = [timer EXCEPT ![n] = "armed"]
    BY <1>6, <2>1 DEF StepDown
  <2> QED
    BY <1>6, <2>3, <2>4, <2>5 DEF StepDown, Unlock
<1>7. ASSUME NEW n \in Node, LoseElection(n) PROVE TypeOK'
  <2>1. net' \subseteq Message
    BY <1>7, RequestType, NetType DEF LoseElection
  <2> QED
    BY <1>7, <2>1 DEF LoseElection, Unlock
<1>8. ASSUME NEW n \in Node, WinElection(n) PROVE TypeOK'
  <2>1. net' \subseteq Message
    BY <1>8, RequestType, NetType DEF WinElection
  <2>2. nextIndex' \in [Node -> [Node -> Nat]]
    <3>1. Len(log[n]) + 1 \in Nat
      BY LenProperties
    <3>2. [m \in Node |-> Len(log[n]) + 1] \in [Node -> Nat]
      BY <3>1
    <3> QED BY <1>8, <3>2 DEF WinElection
  <2>3. matchIndex' \in [Node -> [Node -> Nat]]
    <3>1. [m \in Node |-> IF m = n THEN MaxUint ELSE 0] \in [Node -> Nat]
      BY BoundAssumption
    <3> QED BY <1>8, <3>1 DEF WinElection
  <2>4. wins' \subseteq Nat \X Node
    BY <1>8 DEF WinElection
  <2> QED
    BY <1>8, <2>1, <2>2, <2>3, <2>4 DEF WinElection, Unlock
<1>9. ASSUME NEW n \in Node, HandleRequestVote(n) PROVE TypeOK'
  <2> DEFINE grant(m) == /\ m.term >= currentTerm[n]
                         /\ Voted(n, m) = Nil
                         /\ UpToDate(n, m)
  <2>1. PICK m \in net :
           /\ currentTerm' = [currentTerm EXCEPT ![n] = Larger(@, m.term)]
           /\ votedFor' = [votedFor EXCEPT ![n] =
                             IF grant(m) THEN m.caller ELSE Voted(n, m)]
           /\ isLeader' = [isLeader EXCEPT ![n] = FlagAfterVote(n, m)]
           /\ \/ DropLeaderState(n)
              \/ UNCHANGED <<leading, nextIndex, matchIndex>>
           /\ net' = Answered(m, VoteAnswer(m, currentTerm'[n], grant(m)))
           /\ votes' = IF grant(m) THEN votes \cup {<<n, m.term, m.caller>>} ELSE votes
    BY <1>9 DEF HandleRequestVote
  <2>2. m.term \in Nat /\ m.caller \in Node
    BY DEF Message, Request, VoteRequest, AppendRequest, Answer
  <2>3. currentTerm' \in [Node -> Nat]
    BY <2>1, <2>2 DEF Larger
  <2>4. votedFor' \in [Node -> Node \cup {Nil}]
    BY <2>1, <2>2 DEF Voted
  <2>5. isLeader' \in [Node -> BOOLEAN]
    BY <2>1, <2>2 DEF FlagAfterVote
  <2>6. net' \subseteq Message
    <3>1. grant(m) \in BOOLEAN /\ currentTerm'[n] \in Nat /\ m \in Message
      BY <2>3
    <3> HIDE DEF grant
    <3> QED BY <3>1, <2>1, NetType
  <2>7. /\ leading' \in [Node -> BOOLEAN]
        /\ nextIndex' \in [Node -> [Node -> Nat]]
        /\ matchIndex' \in [Node -> [Node -> Nat]]
    <3>1. CASE DropLeaderState(n)
      BY <3>1 DEF DropLeaderState
    <3>2. CASE UNCHANGED <<leading, nextIndex, matchIndex>>
      BY <3>2
    <3> QED BY <2>1, <3>1, <3>2
  <2>8. votes' \subseteq Node \X Nat \X Node
    <3>1. votes' \subseteq votes \cup {<<n, m.term, m.caller>>}
      BY <2>1
    <3>2. <<n, m.term, m.caller>> \in Node \X Nat \X Node
      BY <2>2
    <3>3. votes \subseteq Node \X Nat \X Node
      OBVIOUS
    <3> QED BY <3>1, <3>2, <3>3, Zenon
  <2>9. UNCHANGED <<log, leaderId, commitVars, roundVars, timerVars, clientVars,
                    crashes, wins, belated>>
    BY <1>9 DEF HandleRequestVote
  <2> QED
    BY <2>3, <2>4, <2>5, <2>6, <2>7, <2>8, <2>9
<1>10. ASSUME NEW n \in Node, RejectStaleAppend(n) PROVE TypeOK'
  <2>1. PICK m \in net : net' = Answered(m, AppendAnswer(m, currentTerm[n], FALSE))
    BY <1>10 DEF RejectStaleAppend
  <2>2. net' \subseteq Message
    BY <2>1, NetType
  <2> QED
    BY <1>10, <2>2 DEF RejectStaleAppend
<1>11. ASSUME NEW n \in Node, RejectMismatch(n) PROVE TypeOK'
  <2>1. PICK m \in net :
           /\ m.type = "append"
           /\ FollowLeader(n, m)
           /\ log' = [log EXCEPT ![n] = Corrected(n, m)]
           /\ net' = Answered(m, AppendAnswer(m, m.term, FALSE))
    BY <1>11 DEF RejectMismatch
  <2>2. m \in Message /\ m \in AppendRequest /\ m.term \in Nat
    BY <2>1 DEF Message, Request, VoteRequest, AppendRequest, Answer
  <2>3. log' \in [Node -> Seq(Entry)]
    BY <2>1, <2>2, CorrectedType
  <2>4. net' \subseteq Message
    BY <2>1, <2>2, NetType
  <2> QED
    BY <1>11, <2>1, <2>2, <2>3, <2>4, FollowType DEF RejectMismatch
<1>12. ASSUME NEW n \in Node, AcceptAppend(n) PROVE TypeOK'
  <2>1. PICK m \in net :
           /\ m.type = "append"
           /\ FollowLeader(n, m)
           /\ log' = [log EXCEPT ![n] = Corrected(n, m) \o m.entries]
           /\ CommitChanges(n, log'[n], Larger(commitIndex[n], m.commit))
           /\ net' = Answered(m, AppendAnswer(m, m.term, TRUE))
    BY <1>12 DEF AcceptAppend
  <2>2. m \in Message /\ m \in AppendRequest /\ m.term \in Nat
    BY <2>1 DEF Message, Request, VoteRequest, AppendRequest, Answer
  <2>3. m.entries \in Seq(Entry) /\ m.commit \in Nat
    BY <2>2 DEF AppendRequest
  <2>4. log' \in [Node -> Seq(Entry)]
    BY <2>1, <2>2, <2>3, CorrectedType, ConcatProperties
  <2>5. net' \subseteq Message
    BY <2>1, <2>2, NetType
  <2>6. Larger(commitIndex[n], m.commit) \in Nat
    BY <2>3 DEF Larger
  <2>7. /\ commitIndex' \in [Node -> Nat]
        /\ lastApplied' \in [Node -> Nat]
        /\ applied' \in [Node -> Seq(Entry)]
    BY <2>1, <2>4, <2>6, CommitType
  <2> QED
    BY <1>12, <2>1, <2>2, <2>4, <2>5, <2>7, FollowType DEF AcceptAppend
<1>13. ASSUME NEW n \in Node, PanicInAppend(n) PROVE TypeOK'
  <2>1. PICK m \in net :
           /\ m.type = "append"
           /\ FollowLeader(n, m)
           /\ log' = [log EXCEPT ![n] = Corrected(n, m) \o m.entries]
           /\ net' = net \ {m}
    BY <1>13 DEF PanicInAppend
  <2>2. m \in Message /\ m \in AppendRequest
    BY <2>1 DEF Message, Request, VoteRequest, AppendRequest, Answer
  <2>3. m.entries \in Seq(Entry)
    BY <2>2 DEF AppendRequest
  <2>4. log' \in [Node -> Seq(Entry)]
    BY <2>1, <2>2, <2>3, CorrectedType, ConcatProperties
  <2> QED
    BY <1>13, <2>1, <2>2, <2>4, FollowType DEF PanicInAppend
<1>14. ASSUME NEW n \in Node, StartBroadcast(n) PROVE TypeOK'
  <2> DEFINE prev(m) == PrevIndex(n, m)
             sent(m) == Sent(SubSeq(log[n], prev(m) + 1, Len(log[n])))
             append(m) ==
               [type |-> "append", caller |-> n, peer |-> m, term |-> currentTerm[n],
                prev |-> prev(m), prevTerm |-> TermAt(log[n], prev(m)),
                entries |-> sent(m), commit |-> commitIndex[n], live |-> TRUE]
  <2>1. ASSUME NEW m \in Node PROVE append(m) \in Message
    <3>1. prev(m) \in 0..Len(log[n])
      BY PrevIndexType
    <3>2. log[n] \in Seq(Entry) /\ Len(log[n]) \in Nat
      BY LenProperties
    <3>3. TermAt(log[n], prev(m)) \in Nat
      BY <3>1, <3>2, TermAtType
    <3>4. \A i \in prev(m) + 1 .. Len(log[n]) : log[n][i] \in Entry
      BY <3>1, <3>2, ElementOfSeq
    <3>5. SubSeq(log[n], prev(m) + 1, Len(log[n])) \in Seq(Entry)
      <4>1. prev(m) + 1 \in Int /\ Len(log[n]) \in Int
        BY <3>1, <3>2
      <4> HIDE DEF prev
      <4> QED
        BY <3>4, <4>1, SubSeqProperties
    <3>6. sent(m) \in Seq(Entry)
      BY <3>5, SentType
    <3> HIDE DEF prev, sent
    <3> QED
      BY <3>1, <3>2, <3>3, <3>6 DEF AppendRequest, Request, Message
  <2>2. net' = net \cup {append(m) : m \in Node \ {n}}
    BY <1>14 DEF StartBroadcast
  <2>3. net' \subseteq Message
    <3> HIDE DEF append
    <3> QED BY <2>1, <2>2
  <2> QED
    BY <1>14, <2>3 DEF StartBroadcast
<1>15. ASSUME NEW n \in Node, CalcCommit(n) PROVE TypeOK'
  <2>1. PICK idx \in {matchIndex[n][m] : m \in Node} :
           IF commitIndex[n] < idx
              THEN /\ CommitChanges(n, log[n], idx)
                   /\ \E late \in SUBSET Pending(n) :
                        net' = (net \ late) \cup {[m EXCEPT !.commit = idx] : m \in late}
              ELSE UNCHANGED <<commitVars, net>>
    BY <1>15 DEF CalcCommit
  <2>2. idx \in Nat /\ log[n] \in Seq(Entry)
    OBVIOUS
  <2>3. /\ commitIndex' \in [Node -> Nat]
        /\ lastApplied' \in [Node -> Nat]
        /\ applied' \in [Node -> Seq(Entry)]
    BY <2>1, <2>2, CommitType
  <2>4. net' \subseteq Message
    <3>1. CASE commitIndex[n] < idx
      <4>1. PICK late \in SUBSET Pending(n) :
               net' = (net \ late) \cup {[m EXCEPT !.commit = idx] : m \in late}
        BY <2>1, <3>1
      <4>2. late \subseteq Request
        BY RequestType
      <4>3. \A m \in late : [m EXCEPT !.commit = idx] \in Request
        BY <4>2, <2>2, RequestType
      <4> QED BY <4>1, <4>3 DEF Message
    <3>2. CASE ~(commitIndex[n] < idx)
      BY <2>1, <3>2
    <3> QED BY <3>1, <3>2
  <2> QED
    BY <1>15, <2>3, <2>4 DEF CalcCommit
<1>16. ASSUME NEW n \in Node, HandleAppendAnswer(n) PROVE TypeOK'
  <2>1. PICK m \in net :
         /\ net' = net \ {m}
         /\ IF m.term > currentTerm[n]
              THEN /\ isLeader' = [isLeader EXCEPT ![n] = FALSE]
                   /\ UNCHANGED <<nextIndex, matchIndex>>
              ELSE /\ nextIndex' = [nextIndex EXCEPT ![n][m.peer] =
                        IF m.ok THEN Len(log[n]) + 1
                        ELSE IF @ = 0 THEN MaxUint ELSE @ - 1]
                   /\ matchIndex' = [matchIndex EXCEPT ![n][m.peer] =
                        IF m.ok THEN Covered(n) ELSE @]
                   /\ UNCHANGED isLeader
    BY <1>16 DEF HandleAppendAnswer, Calls
  <2>2. m.peer \in Node /\ Len(log[n]) \in Nat
    BY LenProperties DEF Message, Request, VoteRequest, AppendRequest, Answer
  <2>3. isLeader' \in [Node -> BOOLEAN]
    BY <2>1
  <2>4. nextIndex' \in [Node -> [Node -> Nat]]
    <3>1. CASE m.term > currentTerm[n]
      BY <2>1, <3>1
    <3>2. CASE ~(m.term > currentTerm[n])
      <4> DEFINE next == IF m.ok THEN Len(log[n]) + 1
                         ELSE IF nextIndex[n][m.peer] = 0 THEN MaxUint
                         ELSE nextIndex[n][m.peer] - 1
      <4>1. nextIndex[n] \in [Node -> Nat] /\ nextIndex[n][m.peer] \in Nat
        BY <2>2
      <4>2. next \in Nat
        <5>1. Len(log[n]) + 1 \in Nat /\ MaxUint \in Nat
          BY <2>2, BoundAssumption
        <5>2. nextIndex[n][m.peer] # 0 => nextIndex[n][m.peer] - 1 \in Nat
          BY <4>1, StepBackType
        <5> QED BY <5>1, <5>2, Zenon
      <4>3. nextIndex' = [nextIndex EXCEPT ![n] = [nextIndex[n] EXCEPT ![m.peer] = next]]
        BY <2>1, <3>2
      <4> HIDE DEF next
      <4>4. [nextIndex[n] EXCEPT ![m.peer] = next] \in [Node -> Nat]
        BY <4>1, <4>2
      <4> QED BY <4>3, <4>4
    <3> QED BY <3>1, <3>2
  <2>5. matchIndex' \in [Node -> [Node -> Nat]]
    <3>1. CASE m.term > currentTerm[n]
      BY <2>1, <3>1
    <3>2. CASE ~(m.term > currentTerm[n])
      <4> DEFINE match == IF m.ok THEN Covered(n) ELSE matchIndex[n][m.peer]
      <4>1. matchIndex[n] \in [Node -> Nat] /\ matchIndex[n][m.peer] \in Nat
        BY <2>2
      <4>2. match \in Nat
        BY <4>1, <2>2 DEF Covered
      <4>3. matchIndex' = [matchIndex EXCEPT ![n] = [matchIndex[n] EXCEPT ![m.peer] = match]]
        BY <2>1, <3>2
      <4> HIDE DEF match
      <4>4. [matchIndex[n] EXCEPT ![m.peer] = match] \in [Node -> Nat]
        BY <4>1, <4>2
      <4> QED BY <4>3, <4>4
    <3> QED BY <3>1, <3>2
  <2>6. net' \subseteq Message
    BY <2>1
  <2>7. UNCHANGED <<diskVars, leading, leaderId, commitVars, roundVars,
                    timerVars, clientVars, crashes, history>>
    BY <1>16 DEF HandleAppendAnswer
  <2> QED
    BY <2>3, <2>4, <2>5, <2>6, <2>7
<1>17. ASSUME NEW n \in Node, EndBroadcast(n) PROVE TypeOK'
  <2>1. net' \subseteq Message
    BY <1>17, RequestType, NetType DEF EndBroadcast
  <2> QED
    BY <1>17, <2>1 DEF EndBroadcast, Unlock
<1>18. ASSUME NEW n \in Node, NEW v \in Value, CheckLeader(n, v) PROVE TypeOK'
  BY <1>18 DEF CheckLeader
<1>19. ASSUME NEW n \in Node, NEW v \in Value, ApplyRequest(n, v) PROVE TypeOK'
  <2>1. NewEntry(v) \in Entry
    BY DEF NewEntry, Entry
  <2> QED
    BY <1>19, <2>1 DEF ApplyRequest
<1>20. ASSUME NEW n \in Node, Crash(n) PROVE TypeOK'
  <2>1. net' \subseteq Message
    BY <1>20, RequestType, NetType DEF Crash
  <2>2. log' \in [Node -> Seq(Entry)]
    BY <1>20, SentType DEF Crash
  <2> QED
    BY <1>20, <2>1, <2>2, RebootType DEF Crash
<1>21. ASSUME NEW n \in Node, CrashInVote(n) PROVE TypeOK'
  <2>1. PICK m \in net : /\ currentTerm' = [currentTerm EXCEPT ![n] = m.term]
                         /\ net' = net \ {m}
    BY <1>21 DEF CrashInVote
  <2>2. m.term \in Nat
    BY DEF Message, Request, VoteRequest, AppendRequest, Answer
  <2>3. log' \in [Node -> Seq(Entry)]
    BY <1>21, SentType DEF CrashInVote
  <2> QED
    BY <1>21, <2>1, <2>2, <2>3, RebootType DEF CrashInVote
<1>22. ASSUME NEW n \in Node, CrashInAppend(n) PROVE TypeOK'
  <2>1. PICK m \in net :
         /\ m.type = "append"
         /\ currentTerm' = [currentTerm EXCEPT ![n] = m.term]
         /\ votedFor' = [votedFor EXCEPT ![n] = m.caller]
         /\ \E stored \in {log[n], Corrected(n, m)} \cup
                 {Corrected(n, m) \o SubSeq(m.entries, 1, k) :
                    k \in IF Fits(n, m) THEN 0..Len(m.entries) ELSE {}} :
              log' = [log EXCEPT ![n] = Sent(stored)]
         /\ net' = net \ {m}
    BY <1>22 DEF CrashInAppend
  <2>2. m \in AppendRequest /\ m.term \in Nat /\ m.caller \in Node
    BY <2>1 DEF Message, Request, VoteRequest, AppendRequest, Answer
  <2>3. m.entries \in Seq(Entry)
    BY <2>2 DEF AppendRequest
  <2>4. \A k \in 0..Len(m.entries) : SubSeq(m.entries, 1, k) \in Seq(Entry)
    <3>1. \A k \in 0..Len(m.entries) : \A i \in 1..k : m.entries[i] \in Entry
      BY <2>3, ElementOfSeq, LenProperties
    <3> QED BY <3>1, <2>3, SubSeqProperties, LenProperties
  <2>5. \A k \in 0..Len(m.entries) :
           Corrected(n, m) \o SubSeq(m.entries, 1, k) \in Seq(Entry)
    BY <2>2, <2>4, CorrectedType, ConcatProperties
  <2>6. PICK stored \in Seq(Entry) : log' = [log EXCEPT ![n] = Sent(stored)]
    <3>1. log[n] \in Seq(Entry) /\ Corrected(n, m) \in Seq(Entry)
      BY <2>2, CorrectedType
    <3>2. PICK stored \in {log[n], Corrected(n, m)} \cup
                 {Corrected(n, m) \o SubSeq(m.entries, 1, k) : k \in 0..Len(m.entries)} :
              log' = [log EXCEPT ![n] = Sent(stored)]
      BY <2>1
    <3>3. stored \in Seq(Entry)
      BY <3>1, <3>2, <2>5
    <3> QED BY <3>2, <3>3
  <2>7. log' \in [Node -> Seq(Entry)]
    BY <2>6, SentType
  <2> QED
    BY <1>22, <2>1, <2>2, <2>7, RebootType DEF CrashInAppend
<1> QED
  BY <1>1, <1>2, <1>3, <1>4, <1>5, <1>6, <1>7, <1>8, <1>9, <1>10, <1>11, <1>12,
     <1>13, <1>14, <1>15, <1>16, <1>17, <1>18, <1>19, <1>20, <1>21, <1>22
  DEF Next, IdleTick, Election, Replication, Client, Failure

(* TypeOK holds in every state of Raft.                                    *)
THEOREM TypeCorrect == Spec => []TypeOK
BY TypeInit, TypeNext, PTL DEF Spec

-----------------------------------------------------------------------------
(* Two facts about the state of one node: what is in pstate.json is never  *)
(* taken back, and whoever leads has a leaderState.  Both are inductive    *)
(* as they stand, given the types, action by action.                       *)

Sticks(n) ==
    /\ currentTerm'[n] >= currentTerm[n]
    /\ currentTerm'[n] = currentTerm[n] /\ votedFor[n] # Nil => votedFor'[n] # Nil

Flags(n) == isLeader[n] \/ lock[n] \in {"append", "wait"} => leading[n]

(* Most actions do not touch pstate.json (state.go:49-78).                 *)
LEMMA SamePState ==
    ASSUME TypeOK, UNCHANGED <<currentTerm, votedFor>>
    PROVE  \A p \in Node : Sticks(p)
BY DEF TypeOK, Sticks

(* One that does writes it for its own node, and writes a newer term, or   *)
(* the same one with a vote.                                               *)
LEMMA NewPState ==
    ASSUME TypeOK, NEW n \in Node, NEW term \in Nat, NEW vote \in Node \cup {Nil},
           currentTerm' = [currentTerm EXCEPT ![n] = term],
           votedFor' = [votedFor EXCEPT ![n] = vote],
           term >= currentTerm[n],
           term > currentTerm[n] \/ vote # Nil \/ vote = votedFor[n]
    PROVE  \A p \in Node : Sticks(p)
<1> SUFFICES ASSUME NEW p \in Node PROVE Sticks(p)
  OBVIOUS
<1>1. CASE p = n
  BY <1>1 DEF TypeOK, Sticks
<1>2. CASE p # n
  BY <1>2 DEF TypeOK, Sticks
<1> QED
  BY <1>1, <1>2

LEMMA MessageType ==
    ASSUME TypeOK, NEW m \in net
    PROVE  m.term \in Nat /\ m.caller \in Node /\ m.caller # Nil
BY NodeAssumption DEF TypeOK, Message, Request, VoteRequest, AppendRequest, Answer

LEMMA VoteSticks ==
    ASSUME TypeOK, NEW n \in Node, HandleRequestVote(n)
    PROVE  \A p \in Node : Sticks(p)
<1>1. PICK m \in net : HandleRequestVote(n)!2!(m)
  BY DEF HandleRequestVote
<1> DEFINE grant == /\ m.term >= currentTerm[n]
                    /\ Voted(n, m) = Nil
                    /\ UpToDate(n, m)
           vote == IF grant THEN m.caller ELSE Voted(n, m)
<1>2. m.term \in Nat /\ m.caller \in Node /\ m.caller # Nil
  BY MessageType
<1>3. currentTerm[n] \in Nat /\ votedFor[n] \in Node \cup {Nil}
  BY DEF TypeOK
<1>4. /\ currentTerm' = [currentTerm EXCEPT ![n] = Larger(currentTerm[n], m.term)]
      /\ votedFor' = [votedFor EXCEPT ![n] = vote]
  BY <1>1
<1>5. /\ Larger(currentTerm[n], m.term) \in Nat
      /\ Larger(currentTerm[n], m.term) >= currentTerm[n]
      /\ m.term > currentTerm[n] => Larger(currentTerm[n], m.term) > currentTerm[n]
  BY <1>2, <1>3 DEF Larger
<1>6. vote \in Node \cup {Nil}
  BY <1>2, <1>3 DEF Voted
<1>7. m.term > currentTerm[n] \/ vote # Nil \/ vote = votedFor[n]
  BY <1>2, <1>3 DEF Voted
<1> HIDE DEF vote
<1> QED
  BY <1>3, <1>4, <1>5, <1>6, <1>7, NewPState

LEMMA AppendSticks ==
    ASSUME TypeOK, NEW n \in Node,
           RejectMismatch(n) \/ AcceptAppend(n) \/ PanicInAppend(n) \/ CrashInAppend(n)
    PROVE  \A p \in Node : Sticks(p)
<1>1. PICK m \in net : /\ ~Stale(n, m)
                       /\ currentTerm' = [currentTerm EXCEPT ![n] = m.term]
                       /\ votedFor' = [votedFor EXCEPT ![n] = m.caller]
  BY DEF RejectMismatch, AcceptAppend, PanicInAppend, CrashInAppend, FollowLeader
<1>2. m.term \in Nat /\ m.caller \in Node /\ m.caller # Nil
  BY MessageType
<1>3. m.term >= currentTerm[n]
  <2>1. currentTerm[n] \in Nat
    BY DEF TypeOK
  <2>2. ~(m.term < currentTerm[n])
    BY <1>1 DEF Stale
  <2> QED
    BY <1>2, <2>1, <2>2
<1> QED
  BY <1>1, <1>2, <1>3, NewPState

LEMMA PStateNext == TypeOK /\ [Next]_vars => \A p \in Node : Sticks(p)
<1> SUFFICES ASSUME TypeOK, [Next]_vars PROVE \A p \in Node : Sticks(p)
  OBVIOUS
<1>1. CASE UNCHANGED vars
  BY <1>1, SamePState DEF vars, diskVars
<1>2. ASSUME NEW n \in Node, Election(n) PROVE \A p \in Node : Sticks(p)
  <2>1. CASE StartElection(n)
    <3>1. /\ currentTerm[n] + 1 \in Nat /\ currentTerm[n] + 1 > currentTerm[n]
          /\ currentTerm[n] + 1 >= currentTerm[n]
      BY DEF TypeOK
    <3>2. /\ currentTerm' = [currentTerm EXCEPT ![n] = currentTerm[n] + 1]
          /\ votedFor' = [votedFor EXCEPT ![n] = n]
      BY <2>1 DEF StartElection
    <3>3. n \in Node \cup {Nil}
      OBVIOUS
    <3> QED
      BY <3>1, <3>2, <3>3, NewPState
  <2>2. CASE StepDown(n)
    <3>1. PICK m \in net : /\ m.term > currentTerm[n]
                           /\ currentTerm' = [currentTerm EXCEPT ![n] = m.term]
                           /\ votedFor' = [votedFor EXCEPT ![n] = Nil]
      BY <2>2 DEF StepDown, Calls
    <3>2. m.term \in Nat /\ currentTerm[n] \in Nat
      BY MessageType DEF TypeOK
    <3>3. m.term >= currentTerm[n] /\ Nil \in Node \cup {Nil}
      BY <3>1, <3>2
    <3> QED
      BY <3>1, <3>2, <3>3, NewPState
  <2>3. CASE HandleRequestVote(n)
    BY <2>3, VoteSticks
  <2>4. CASE TimerFires(n) \/ CheckAlreadyLeader(n) \/ CountVote(n)
               \/ LoseElection(n) \/ WinElection(n)
    BY <2>4, SamePState DEF TimerFires, CheckAlreadyLeader, CountVote, LoseElection,
                            WinElection, diskVars
  <2> QED
    BY <1>2, <2>1, <2>2, <2>3, <2>4 DEF Election
<1>3. ASSUME NEW n \in Node, Replication(n) PROVE \A p \in Node : Sticks(p)
  <2>1. CASE RejectMismatch(n) \/ AcceptAppend(n) \/ PanicInAppend(n)
    BY <2>1, AppendSticks
  <2>2. CASE RejectStaleAppend(n) \/ StartBroadcast(n) \/ CalcCommit(n)
               \/ HandleAppendAnswer(n) \/ EndBroadcast(n)
    BY <2>2, SamePState DEF RejectStaleAppend, StartBroadcast, CalcCommit,
                            HandleAppendAnswer, EndBroadcast, diskVars
  <2> QED
    BY <1>3, <2>1, <2>2 DEF Replication
<1>4. ASSUME NEW n \in Node, Client(n) PROVE \A p \in Node : Sticks(p)
  BY <1>4, SamePState DEF Client, CheckLeader, ApplyRequest, diskVars
<1>5. ASSUME NEW n \in Node, Failure(n) PROVE \A p \in Node : Sticks(p)
  <2>1. CASE Crash(n)
    BY <2>1, SamePState DEF Crash
  <2>2. CASE CrashInVote(n)
    <3>1. PICK m \in net : /\ m.term > currentTerm[n]
                           /\ currentTerm' = [currentTerm EXCEPT ![n] = m.term]
                           /\ votedFor' = [votedFor EXCEPT ![n] = Nil]
      BY <2>2 DEF CrashInVote
    <3>2. m.term \in Nat /\ currentTerm[n] \in Nat
      BY MessageType DEF TypeOK
    <3>3. m.term >= currentTerm[n] /\ Nil \in Node \cup {Nil}
      BY <3>1, <3>2
    <3> QED
      BY <3>1, <3>2, <3>3, NewPState
  <2> QED
    BY <1>5, <2>1, <2>2, AppendSticks DEF Failure
<1> QED
  BY <1>1, <1>2, <1>3, <1>4, <1>5 DEF Next, IdleTick

(* Terms never decrease and a vote lasts as long as its term, restarts     *)
(* included (raft.go:54-88, 319-322, 350-355, 421-423).                    *)
THEOREM TermsAndVotesStick == Spec => TermAndVoteStick
<1>1. TypeOK /\ [Next]_vars => 
        [\A n \in Node :
          /\ currentTerm'[n] >= currentTerm[n]
          /\ currentTerm'[n] = currentTerm[n] /\ votedFor[n] # Nil
                => votedFor'[n] # Nil]_vars
  BY PStateNext DEF Sticks
<1> QED
  BY <1>1, TypeCorrect, PTL DEF Spec, TermAndVoteStick

(* Whatever touches isLeader, leaderState or the mutex of a node leaves     *)
(* them in one of these ways.                                              *)
LEMMA FlagsFollow ==
    ASSUME TypeOK, NEW n \in Node, \A p \in Node : Flags(p),
           \A p \in Node \ {n} : /\ isLeader'[p] = isLeader[p]
                                /\ leading'[p] = leading[p] /\ lock'[p] = lock[p],
           Flags(n)'
    PROVE  \A p \in Node : Flags(p)'
BY DEF Flags

LEMMA FlagsStay ==
    ASSUME \A p \in Node : Flags(p), UNCHANGED <<isLeader, leading, lock>>
    PROVE  \A p \in Node : Flags(p)'
BY DEF Flags

LEMMA FlagsFall ==
    ASSUME TypeOK, NEW n \in Node, \A p \in Node : Flags(p),
           isLeader' = [isLeader EXCEPT ![n] = FALSE],
           lock' = [lock EXCEPT ![n] = "free"] \/ (lock[n] = "free" /\ UNCHANGED lock),
           leading' = [leading EXCEPT ![n] = FALSE] \/ UNCHANGED leading
    PROVE  \A p \in Node : Flags(p)'
<1>1. \A p \in Node \ {n} : /\ isLeader'[p] = isLeader[p]
                           /\ leading'[p] = leading[p] /\ lock'[p] = lock[p]
  BY DEF TypeOK
<1>2. ~isLeader'[n] /\ lock'[n] = "free"
  BY DEF TypeOK
<1> QED
  BY <1>1, <1>2, FlagsFollow DEF Flags

LEMMA FlagsLock ==
    ASSUME TypeOK, NEW n \in Node, \A p \in Node : Flags(p), NEW l,
           UNCHANGED <<isLeader, leading>>, lock' = [lock EXCEPT ![n] = l],
           leading[n] \/ l \notin {"append", "wait"}
    PROVE  \A p \in Node : Flags(p)'
<1>1. \A p \in Node \ {n} : lock'[p] = lock[p]
  BY DEF TypeOK
<1>2. lock'[n] = l
  BY DEF TypeOK
<1>3. Flags(n)'
  BY <1>2 DEF Flags
<1> QED
  BY <1>1, <1>3, FlagsFollow

LEMMA FlagsVote ==
    ASSUME TypeOK, NEW n \in Node, \A p \in Node : Flags(p), HandleRequestVote(n)
    PROVE  \A p \in Node : Flags(p)'
<1>1. PICK m \in net : HandleRequestVote(n)!2!(m)
  BY DEF HandleRequestVote
<1>2. lock[n] = "free" /\ UNCHANGED lock
  BY DEF HandleRequestVote, roundVars
<1>3. m.term \in Nat /\ currentTerm[n] \in Nat
  BY MessageType DEF TypeOK
<1>4. CASE m.term > currentTerm[n]
  <2>1. FlagAfterVote(n, m) = FALSE
    <3>1. ~(m.term <= currentTerm[n])
      BY <1>3, <1>4
    <3> QED
      BY <3>1 DEF FlagAfterVote
  <2>2. isLeader' = [isLeader EXCEPT ![n] = FALSE]
    BY <1>1, <2>1
  <2>3. leading' = [leading EXCEPT ![n] = FALSE]
    BY <1>1, <1>4 DEF DropLeaderState
  <2> QED
    BY <1>2, <2>2, <2>3, FlagsFall
<1>5. CASE ~(m.term > currentTerm[n])
  <2>1. FlagAfterVote(n, m) = isLeader[n]
    <3>1. m.term <= currentTerm[n]
      BY <1>3, <1>5
    <3>2. isLeader[n] \in BOOLEAN
      BY DEF TypeOK
    <3> QED
      BY <3>1, <3>2 DEF FlagAfterVote
  <2>2. isLeader' = isLeader
    <3>1. isLeader' = [isLeader EXCEPT ![n] = isLeader[n]]
      BY <1>1, <2>1
    <3> QED
      BY <3>1 DEF TypeOK
  <2> QED
    BY <1>1, <1>2, <1>5, <2>2, FlagsStay
<1> QED
  BY <1>4, <1>5

LEMMA FlagsNext ==
    TypeOK /\ (\A p \in Node : Flags(p)) /\ [Next]_vars => \A p \in Node : Flags(p)'
<1> SUFFICES ASSUME TypeOK, \A p \in Node : Flags(p), [Next]_vars
             PROVE  \A p \in Node : Flags(p)'
  OBVIOUS
<1>1. CASE UNCHANGED vars
  BY <1>1, FlagsStay DEF vars, leaderVars, roundVars
<1>2. ASSUME NEW n \in Node, Election(n) PROVE \A p \in Node : Flags(p)'
  <2>1. CASE TimerFires(n) \/ CheckAlreadyLeader(n) \/ CountVote(n)
    BY <2>1, FlagsStay DEF TimerFires, CheckAlreadyLeader, CountVote, leaderVars, roundVars
  <2>2. CASE StartElection(n)
    <3>1. UNCHANGED <<isLeader, leading>> /\ lock' = [lock EXCEPT ![n] = "vote"]
      BY <2>2 DEF StartElection, leaderVars
    <3>2. "vote" \notin {"append", "wait"}
      OBVIOUS
    <3> QED
      BY <3>1, <3>2, FlagsLock
  <2>3. CASE StepDown(n) \/ LoseElection(n)
    BY <2>3, FlagsFall DEF StepDown, LoseElection, Unlock
  <2>4. CASE WinElection(n)
    <3>1. /\ isLeader' = [isLeader EXCEPT ![n] = TRUE]
          /\ leading' = [leading EXCEPT ![n] = TRUE]
          /\ lock' = [lock EXCEPT ![n] = "free"]
      BY <2>4 DEF WinElection, Unlock
    <3>2. \A p \in Node \ {n} : /\ isLeader'[p] = isLeader[p]
                               /\ leading'[p] = leading[p] /\ lock'[p] = lock[p]
      BY <3>1 DEF TypeOK
    <3>3. leading'[n]
      BY <3>1 DEF TypeOK
    <3>4. Flags(n)'
      BY <3>3 DEF Flags
    <3> QED
      BY <3>2, <3>4, FlagsFollow
  <2>5. CASE HandleRequestVote(n)
    BY <2>5, FlagsVote
  <2> QED
    BY <1>2, <2>1, <2>2, <2>3, <2>4, <2>5 DEF Election
<1>3. ASSUME NEW n \in Node, Replication(n) PROVE \A p \in Node : Flags(p)'
  <2>1. CASE RejectMismatch(n) \/ AcceptAppend(n) \/ PanicInAppend(n)
    <3>1. /\ isLeader' = [isLeader EXCEPT ![n] = FALSE]
          /\ leading' = [leading EXCEPT ![n] = FALSE]
          /\ lock[n] = "free" /\ UNCHANGED lock
      BY <2>1 DEF RejectMismatch, AcceptAppend, PanicInAppend, FollowLeader,
                  DropLeaderState, roundVars
    <3> QED
      BY <3>1, FlagsFall
  <2>2. CASE RejectStaleAppend(n)
    BY <2>2, FlagsStay DEF RejectStaleAppend, leaderVars, roundVars
  <2>3. CASE StartBroadcast(n)
    <3>1. /\ UNCHANGED <<isLeader, leading>> /\ isLeader[n]
          /\ lock' = [lock EXCEPT ![n] = "append"]
      BY <2>3 DEF StartBroadcast, leaderVars
    <3>2. leading[n]
      BY <3>1 DEF Flags
    <3> QED
      BY <3>1, <3>2, FlagsLock
  <2>4. CASE CalcCommit(n)
    <3>1. /\ UNCHANGED <<isLeader, leading>> /\ lock[n] = "append"
          /\ lock' = [lock EXCEPT ![n] = "wait"]
      BY <2>4 DEF CalcCommit, leaderVars
    <3>2. leading[n]
      BY <3>1 DEF Flags
    <3> QED
      BY <3>1, <3>2, FlagsLock
  <2>5. CASE HandleAppendAnswer(n)
    <3>1. /\ UNCHANGED <<leading, lock>>
          /\ isLeader' = [isLeader EXCEPT ![n] = FALSE] \/ UNCHANGED isLeader
      BY <2>5 DEF HandleAppendAnswer, roundVars
    <3>2. \A p \in Node \ {n} : isLeader'[p] = isLeader[p]
      BY <3>1 DEF TypeOK
    <3>3. isLeader'[n] => isLeader[n]
      BY <3>1 DEF TypeOK
    <3>4. Flags(n)'
      BY <3>1, <3>3 DEF Flags
    <3> QED
      BY <3>1, <3>2, <3>4, FlagsFollow
  <2>6. CASE EndBroadcast(n)
    <3>1. UNCHANGED <<isLeader, leading>> /\ lock' = [lock EXCEPT ![n] = "free"]
      BY <2>6 DEF EndBroadcast, Unlock, leaderVars
    <3>2. "free" \notin {"append", "wait"}
      OBVIOUS
    <3> QED
      BY <3>1, <3>2, FlagsLock
  <2> QED
    BY <1>3, <2>1, <2>2, <2>3, <2>4, <2>5, <2>6 DEF Replication
<1>4. ASSUME NEW n \in Node, Client(n) PROVE \A p \in Node : Flags(p)'
  BY <1>4, FlagsStay DEF Client, CheckLeader, ApplyRequest, leaderVars, roundVars
<1>5. ASSUME NEW n \in Node, Failure(n) PROVE \A p \in Node : Flags(p)'
  <2>1. Reboot(n)
    BY <1>5 DEF Failure, Crash, CrashInVote, CrashInAppend
  <2> QED
    BY <2>1, FlagsFall DEF Reboot, DropLeaderState, Unlock
<1> QED
  BY <1>1, <1>2, <1>3, <1>4, <1>5 DEF Next, IdleTick

(* Whoever believes to lead, and every goroutine of a broadcast, finds a   *)
(* leaderState (raft.go:153, 206-209, 268).                                *)
THEOREM LeaderHasState == Spec => []LeadershipFlags
<1>1. Init => \A p \in Node : Flags(p)
  BY DEF Init, Flags
<1>2. (\A p \in Node : Flags(p)) <=> LeadershipFlags
  BY DEF Flags, LeadershipFlags
<1>3. TypeOK /\ LeadershipFlags /\ [Next]_vars => LeadershipFlags'
  BY FlagsNext DEF Flags, LeadershipFlags
<1> QED
  BY <1>1, <1>2, <1>3, TypeCorrect, PTL DEF Spec

-----------------------------------------------------------------------------
(* One leader per term.  The argument is ElectionInv.  Most actions end or *)
(* leave alone whatever election their node holds: they cannot disturb it  *)
(* (lemma RoundOver).  The others start an election, count a vote, or give *)
(* one.                                                                    *)

(* Two sets of nodes that each win an election have a node in common.      *)
LEMMA MajoritiesMeet ==
    ASSUME NEW P \in SUBSET Node, NEW Q \in SUBSET Node, Majority(P), Majority(Q)
    PROVE  P \cap Q # {}
<1>1. IsFiniteSet(Node) /\ IsFiniteSet(P) /\ IsFiniteSet(Q)
  BY NodeAssumption, FS_Subset
<1>2. /\ Cardinality(Node) \in Nat /\ Cardinality(P) \in Nat
      /\ Cardinality(Q) \in Nat /\ Cardinality(P \cup Q) \in Nat
  BY <1>1, FS_CardinalityType, FS_Union
<1>3. Cardinality(P \cup Q) <= Cardinality(Node)
  BY <1>1, FS_Subset
<1>4. Cardinality(P \cup Q) = Cardinality(P) + Cardinality(Q) - Cardinality(P \cap Q)
  BY <1>1, FS_Union
<1>5. SUFFICES ASSUME P \cap Q = {} PROVE FALSE
  OBVIOUS
<1>6. Cardinality(P \cap Q) = 0
  BY <1>5, FS_EmptySet
<1> QED
  BY <1>2, <1>3, <1>4, <1>6 DEF Majority

(* Messages of an election: requests for a vote that are still waited for, *)
(* and the answers.                                                        *)
OfElection(m) == (m.type = "vote" /\ m.live) \/ m.type = "voted"

(* Nothing of an election of n is on its way unless n holds one.           *)
LEMMA NoElectionNoCalls ==
    ASSUME ElectionInv, NEW n \in Node, lock[n] # "vote"
    PROVE  \A m \in net : OfElection(m) => m.caller # n
BY DEF ElectionInv, AsksInRound, AnswersAreVotes, OfElection

(* Closing a round leaves nothing of an election of n on its way.          *)
LEMMA ClosedCalls ==
    ASSUME TypeOK, NEW n \in Node, NEW S \in SUBSET Request, CloseCalls(n, Abandon(S))
    PROVE  \A m \in net' : OfElection(m) => m \in net /\ m.caller # n
<1>1. \A r \in Request : /\ [r EXCEPT !.live = FALSE].live = FALSE
                         /\ [r EXCEPT !.live = FALSE].type # "voted"
  BY DEF Request, VoteRequest, AppendRequest
<1>2. \A m \in Abandon(S) : ~OfElection(m)
  BY <1>1 DEF Abandon, OfElection
<1>3. \A m \in net : m.type = "voted" => m.live
  BY DEF TypeOK, Message, Request, VoteRequest, AppendRequest, Answer
<1> QED
  BY <1>2, <1>3 DEF CloseCalls, Calls, OfElection

(* A step of n that ends its election, or finds none, and neither gives    *)
(* votes nor forgets any, keeps the invariant if what it wins has its      *)
(* majority.                                                               *)
LEMMA RoundOver ==
    ASSUME TypeOK, TypeOK', ElectionInv, NEW n \in Node,
           \A k \in Node \ {n} : /\ currentTerm'[k] = currentTerm[k]
                                 /\ votedFor'[k] = votedFor[k]
                                 /\ lock'[k] = lock[k]
                                 /\ yes'[k] = yes[k],
           \/ currentTerm'[n] > currentTerm[n]
           \/ currentTerm'[n] = currentTerm[n] /\ (votedFor[n] # Nil => votedFor'[n] # Nil),
           yes'[n] = {},
           \A m \in net' : OfElection(m) => m \in net /\ m.caller # n,
           votes' = votes, WinsHaveMajority'
    PROVE  ElectionInv'
<1> USE DEF ElectionInv
<1>1. VoteOnce'
  BY DEF VoteOnce
<1>2. VotesOnDisk'
  <2> SUFFICES ASSUME NEW v \in votes
               PROVE  /\ v[2] <= currentTerm'[v[1]]
                      /\ v[2] = currentTerm'[v[1]] => votedFor'[v[1]] # Nil
    BY DEF VotesOnDisk
  <2>1. /\ v[1] \in Node /\ v[2] \in Nat /\ currentTerm[v[1]] \in Nat
        /\ currentTerm'[v[1]] \in Nat
    BY DEF TypeOK
  <2>2. /\ v[2] <= currentTerm[v[1]]
        /\ v[2] = currentTerm[v[1]] => votedFor[v[1]] # Nil
    BY DEF VotesOnDisk
  <2> QED
    BY <2>1, <2>2
<1>3. \A m \in net : m.caller \in Node
  BY DEF TypeOK, Message, Request, VoteRequest, AppendRequest, Answer
<1>4. AsksInRound'
  BY <1>3 DEF AsksInRound, OfElection
<1>5. AnswersAreVotes'
  BY <1>3 DEF AnswersAreVotes, OfElection
<1>6. CountedAreVotes'
  BY DEF CountedAreVotes
<1> QED
  BY <1>1, <1>2, <1>4, <1>5, <1>6

(* Elections that were won stay won by a majority.                         *)
LEMMA WinsStay ==
    ASSUME ElectionInv, wins' = wins, votes \subseteq votes'
    PROVE  WinsHaveMajority'
BY DEF ElectionInv, WinsHaveMajority, Majority

(* Nothing the invariant speaks of changes, but for messages that are none *)
(* of an election.                                                         *)
LEMMA NotElection ==
    ASSUME ElectionInv, UNCHANGED <<currentTerm, votedFor, lock, yes, votes, wins>>,
           \A m \in net' : OfElection(m) => m \in net
    PROVE  ElectionInv'
BY DEF ElectionInv, VoteOnce, VotesOnDisk, AsksInRound, AnswersAreVotes,
       CountedAreVotes, WinsHaveMajority, Majority, OfElection

LEMMA ElectionInit == Init => ElectionInv
BY DEF Init, ElectionInv, VoteOnce, VotesOnDisk, AsksInRound, AnswersAreVotes,
       CountedAreVotes, WinsHaveMajority

(* Actions that leave every election alone.                                *)
LEMMA QuietSteps ==
    ASSUME TypeOK, ElectionInv, NEW n \in Node,
           \/ TimerFires(n) \/ CheckAlreadyLeader(n) \/ RejectStaleAppend(n)
           \/ \E v \in Value : CheckLeader(n, v) \/ ApplyRequest(n, v)
           \/ HandleAppendAnswer(n)
    PROVE  ElectionInv'
<1> USE DEF diskVars, roundVars, history
<1>1. CASE TimerFires(n)
  BY <1>1, NotElection DEF TimerFires
<1>2. CASE CheckAlreadyLeader(n)
  BY <1>2, NotElection DEF CheckAlreadyLeader
<1>3. CASE RejectStaleAppend(n)
  <2>1. PICK m \in net : net' = Answered(m, AppendAnswer(m, currentTerm[n], FALSE))
    BY <1>3 DEF RejectStaleAppend
  <2>2. ~OfElection(AppendAnswer(m, currentTerm[n], FALSE))
    BY DEF AppendAnswer, VoteAnswer, OfElection
  <2>3. \A k \in net' : OfElection(k) => k \in net
    BY <2>1, <2>2 DEF Answered
  <2> QED
    BY <1>3, <2>3, NotElection DEF RejectStaleAppend
<1>4. CASE \E v \in Value : CheckLeader(n, v) \/ ApplyRequest(n, v)
  BY <1>4, NotElection DEF CheckLeader, ApplyRequest
<1>5. CASE HandleAppendAnswer(n)
  BY <1>5, NotElection DEF HandleAppendAnswer, Calls
<1> QED
  BY <1>1, <1>2, <1>3, <1>4, <1>5

(* A round of append requests touches no election.                         *)
LEMMA BroadcastSteps ==
    ASSUME TypeOK, TypeOK', ElectionInv, NEW n \in Node,
           StartBroadcast(n) \/ CalcCommit(n) \/ EndBroadcast(n)
    PROVE  ElectionInv'
<1> USE DEF diskVars, roundVars, history
<1>1. CASE StartBroadcast(n)
  <2>1. \A m \in net' : OfElection(m) => m \in net /\ m.caller # n
    <3>1. \A m \in net' \ net : m.type = "append"
      BY <1>1 DEF StartBroadcast
    <3>2. lock[n] # "vote"
      BY <1>1 DEF StartBroadcast
    <3> QED
      BY <3>1, <3>2, NoElectionNoCalls DEF OfElection
  <2>2. yes[n] = {}
    BY <1>1 DEF StartBroadcast, ElectionInv, CountedAreVotes
  <2>3. WinsHaveMajority'
    BY <1>1, WinsStay DEF StartBroadcast
  <2> QED
    <3>1. \A k \in Node : lock'[k] = IF k = n THEN lock'[n] ELSE lock[k]
      BY <1>1 DEF StartBroadcast, TypeOK
    <3>2. UNCHANGED <<currentTerm, votedFor, yes, votes>>
      BY <1>1 DEF StartBroadcast
    <3> QED
      BY <2>1, <2>2, <2>3, <3>1, <3>2, RoundOver
<1>2. CASE CalcCommit(n)
  <2>1. \A m \in net' : OfElection(m) => m \in net /\ m.caller # n
    <3>1. \A m \in net : OfElection(m) => m.caller # n
      BY <1>2, NoElectionNoCalls DEF CalcCommit
    <3>2. PICK idx \in {matchIndex[n][m] : m \in Node} :
             \/ \E late \in SUBSET Pending(n) :
                   net' = (net \ late) \cup {[m EXCEPT !.commit = idx] : m \in late}
             \/ net' = net
      BY <1>2 DEF CalcCommit, commitVars
    <3>3. SUFFICES ASSUME NEW late \in SUBSET Pending(n),
                          net' = (net \ late) \cup {[m EXCEPT !.commit = idx] : m \in late}
                   PROVE  \A m \in net' : OfElection(m) => m \in net /\ m.caller # n
      BY <3>1, <3>2
    <3>4. \A m \in late : /\ m \in AppendRequest
                          /\ [m EXCEPT !.commit = idx].type = "append"
      <4>1. \A m \in late : m \in net /\ m \in Request /\ m.caller = n /\ m.live
        BY RequestType DEF Pending, Calls
      <4>2. \A m \in late : m.type # "vote"
        BY <3>1, <4>1 DEF OfElection
      <4>3. \A m \in late : m \in AppendRequest
        BY <4>1, <4>2 DEF Request, VoteRequest
      <4> QED BY <4>3 DEF AppendRequest
    <3> QED
      BY <3>1, <3>3, <3>4 DEF OfElection
  <2>2. yes[n] = {}
    BY <1>2 DEF CalcCommit, ElectionInv, CountedAreVotes
  <2>3. WinsHaveMajority'
    BY <1>2, WinsStay DEF CalcCommit
  <2> QED
    <3>1. \A k \in Node : lock'[k] = IF k = n THEN lock'[n] ELSE lock[k]
      BY <1>2 DEF CalcCommit, TypeOK
    <3>2. UNCHANGED <<currentTerm, votedFor, yes, votes>>
      BY <1>2 DEF CalcCommit
    <3> QED
      BY <2>1, <2>2, <2>3, <3>1, <3>2, RoundOver
<1>3. CASE EndBroadcast(n)
  <2>1. \A m \in net' : OfElection(m) => m \in net /\ m.caller # n
    BY <1>3, RequestType, ClosedCalls DEF EndBroadcast
  <2>2. WinsHaveMajority'
    BY <1>3, WinsStay DEF EndBroadcast
  <2> QED
    <3>1. \A k \in Node \ {n} : lock'[k] = lock[k] /\ yes'[k] = yes[k]
      BY <1>3 DEF EndBroadcast, Unlock, TypeOK
    <3>2. yes'[n] = {}
      BY <1>3 DEF EndBroadcast, Unlock, TypeOK
    <3>3. UNCHANGED <<currentTerm, votedFor, votes>>
      BY <1>3 DEF EndBroadcast
    <3> QED
      BY <2>1, <2>2, <3>1, <3>2, <3>3, RoundOver
<1> QED
  BY <1>1, <1>2, <1>3

(* Terms are numbers: what is not stale is newer or of the same term.      *)
LEMMA NotStale ==
    ASSUME TypeOK, NEW n \in Node, NEW m \in Message, ~Stale(n, m)
    PROVE  m.term > currentTerm[n] \/ m.term = currentTerm[n]
<1>1. m.term \in Nat
  BY DEF Message, Request, VoteRequest, AppendRequest, Answer
<1>2. currentTerm[n] \in Nat
  BY DEF TypeOK
<1> QED
  BY <1>1, <1>2 DEF Stale

(* A follower takes the sender of entries for its vote: no second one can  *)
(* be given in that term (raft.go:421-422).                                *)
LEMMA FollowSteps ==
    ASSUME TypeOK, TypeOK', ElectionInv, NEW n \in Node,
           RejectMismatch(n) \/ AcceptAppend(n) \/ PanicInAppend(n)
    PROVE  ElectionInv'
<1> USE DEF roundVars, history
<1>1. /\ lock[n] = "free"
      /\ UNCHANGED <<lock, yes, votes, wins>>
  BY DEF RejectMismatch, AcceptAppend, PanicInAppend
<1>2. PICK m \in net : /\ ~Stale(n, m) /\ FollowLeader(n, m)
                       /\ \/ \E ok \in BOOLEAN : net' = Answered(m, AppendAnswer(m, m.term, ok))
                          \/ net' = net \ {m}
  BY DEF RejectMismatch, AcceptAppend, PanicInAppend
<1>3. m.term \in Nat /\ m.caller \in Node /\ m.caller # Nil
  BY NodeAssumption DEF TypeOK, Message, Request, VoteRequest, AppendRequest, Answer
<1>4. /\ currentTerm' = [currentTerm EXCEPT ![n] = m.term]
      /\ votedFor' = [votedFor EXCEPT ![n] = m.caller]
  BY <1>2 DEF FollowLeader
<1>5. /\ \A k \in Node \ {n} : currentTerm'[k] = currentTerm[k] /\ votedFor'[k] = votedFor[k]
      /\ currentTerm'[n] = m.term /\ votedFor'[n] # Nil
  BY <1>3, <1>4 DEF TypeOK
<1>6. currentTerm'[n] > currentTerm[n] \/ currentTerm'[n] = currentTerm[n]
  <2>1. m \in Message
    BY DEF TypeOK
  <2> QED
    BY <2>1, <1>2, <1>5, NotStale
<1>7. \A k \in net' : OfElection(k) => k \in net /\ k.caller # n
  <2>1. \A ok \in BOOLEAN : ~OfElection(AppendAnswer(m, m.term, ok))
    BY DEF AppendAnswer, VoteAnswer, OfElection
  <2>2. \A k \in net' : OfElection(k) => k \in net
    BY <1>2, <2>1 DEF Answered
  <2> QED
    BY <1>1, <2>2, NoElectionNoCalls
<1>8. yes'[n] = {}
  BY <1>1 DEF ElectionInv, CountedAreVotes, TypeOK
<1>9. WinsHaveMajority'
  BY <1>1, WinsStay
<1> QED
  BY <1>1, <1>5, <1>6, <1>7, <1>8, <1>9, RoundOver

(* A restart ends the node's election and keeps its term and its vote.     *)
LEMMA CrashSteps ==
    ASSUME TypeOK, TypeOK', ElectionInv, NEW n \in Node,
           Crash(n) \/ CrashInVote(n) \/ CrashInAppend(n)
    PROVE  ElectionInv'
<1>1. Reboot(n)
  BY DEF Crash, CrashInVote, CrashInAppend
<1>2. /\ \A k \in Node \ {n} : lock'[k] = lock[k] /\ yes'[k] = yes[k]
      /\ yes'[n] = {}
      /\ votes' = votes /\ wins' = wins
  BY <1>1 DEF Reboot, Unlock, history, TypeOK
<1>3. WinsHaveMajority'
  BY <1>2, WinsStay
<1>4. CASE Crash(n)
  <2>1. \A m \in net' : OfElection(m) => m \in net /\ m.caller # n
    BY <1>4, RequestType, ClosedCalls DEF Crash
  <2> QED
    BY <1>2, <1>3, <1>4, <2>1, RoundOver DEF Crash
<1>5. ASSUME NEW m \in net, lock[n] = "free", net' = net \ {m},
             currentTerm' = [currentTerm EXCEPT ![n] = m.term],
             \/ m.term > currentTerm[n] /\ votedFor' = [votedFor EXCEPT ![n] = Nil]
             \/ ~Stale(n, m) /\ votedFor' = [votedFor EXCEPT ![n] = m.caller]
      PROVE  ElectionInv'
  <2>1. m.term \in Nat /\ m.caller \in Node /\ m.caller # Nil
    BY NodeAssumption DEF TypeOK, Message, Request, VoteRequest, AppendRequest, Answer
  <2>2. \A k \in Node \ {n} : currentTerm'[k] = currentTerm[k] /\ votedFor'[k] = votedFor[k]
    BY <1>5 DEF TypeOK
  <2>3. \/ currentTerm'[n] > currentTerm[n]
        \/ currentTerm'[n] = currentTerm[n] /\ votedFor'[n] # Nil
    <3>1. m \in Message
      BY DEF TypeOK
    <3>2. currentTerm'[n] = m.term
      BY <1>5 DEF TypeOK
    <3>3. CASE m.term > currentTerm[n]
      BY <3>2, <3>3
    <3>4. CASE ~Stale(n, m) /\ votedFor' = [votedFor EXCEPT ![n] = m.caller]
      <4>1. votedFor'[n] # Nil
        BY <3>4, <2>1 DEF TypeOK
      <4> QED BY <3>1, <3>2, <3>4, <4>1, NotStale
    <3> QED BY <1>5, <3>3, <3>4
  <2>4. \A k \in net' : OfElection(k) => k \in net /\ k.caller # n
    BY <1>5, NoElectionNoCalls
  <2> QED
    BY <1>2, <1>3, <2>2, <2>3, <2>4, RoundOver
<1>6. CASE CrashInVote(n)
  BY <1>5, <1>6 DEF CrashInVote
<1>7. CASE CrashInAppend(n)
  BY <1>5, <1>7 DEF CrashInAppend
<1> QED
  BY <1>4, <1>6, <1>7

(* The end of an election: given up for a newer term, lost, or won by the  *)
(* votes it counted.                                                       *)
LEMMA ElectionEnds ==
    ASSUME TypeOK, TypeOK', ElectionInv, NEW n \in Node,
           StepDown(n) \/ LoseElection(n) \/ WinElection(n)
    PROVE  ElectionInv'
<1>1. Unlock(n)
  BY DEF StepDown, LoseElection, WinElection
<1>2. /\ \A k \in Node \ {n} : lock'[k] = lock[k] /\ yes'[k] = yes[k]
      /\ yes'[n] = {}
  BY <1>1 DEF Unlock, TypeOK
<1>3. CASE StepDown(n)
  <2>1. PICK m \in Calls(n) :
           /\ m.term > currentTerm[n]
           /\ currentTerm' = [currentTerm EXCEPT ![n] = m.term]
           /\ \E kept \in SUBSET Pending(n) : \E late \in SUBSET kept :
                CloseCalls(n, Abandon((kept \ late)
                                      \cup {[r EXCEPT !.term = m.term] : r \in late}))
    BY <1>3 DEF StepDown
  <2>2. m.term \in Nat
    BY DEF TypeOK, Calls, Message, Request, VoteRequest, AppendRequest, Answer
  <2>3. \A k \in net' : OfElection(k) => k \in net /\ k.caller # n
    <3>1. PICK kept \in SUBSET Pending(n), late \in SUBSET Pending(n) :
             CloseCalls(n, Abandon((kept \ late)
                                   \cup {[r EXCEPT !.term = m.term] : r \in late}))
      BY <2>1
    <3>2. late \subseteq Request /\ kept \subseteq Request
      BY RequestType
    <3>3. (kept \ late) \cup {[r EXCEPT !.term = m.term] : r \in late} \in SUBSET Request
      BY <3>2, <2>2, RequestType
    <3> QED
      BY <3>1, <3>3, ClosedCalls
  <2>4. /\ \A k \in Node \ {n} : currentTerm'[k] = currentTerm[k] /\ votedFor'[k] = votedFor[k]
        /\ currentTerm'[n] > currentTerm[n]
    BY <1>3, <2>1, <2>2 DEF StepDown, TypeOK
  <2>5. votes' = votes /\ wins' = wins
    BY <1>3 DEF StepDown, history
  <2> QED
    BY <1>2, <2>3, <2>4, <2>5, WinsStay, RoundOver
<1>4. CASE LoseElection(n)
  <2>1. \A k \in net' : OfElection(k) => k \in net /\ k.caller # n
    BY <1>4, RequestType, ClosedCalls DEF LoseElection
  <2>2. UNCHANGED <<currentTerm, votedFor, votes, wins>>
    BY <1>4 DEF LoseElection, diskVars, history
  <2> QED
    BY <1>2, <2>1, <2>2, WinsStay, RoundOver
<1>5. CASE WinElection(n)
  <2>1. \A k \in net' : OfElection(k) => k \in net /\ k.caller # n
    BY <1>5, RequestType, ClosedCalls DEF WinElection
  <2>2. UNCHANGED <<currentTerm, votedFor, votes>> /\ wins' = wins \cup {<<currentTerm[n], n>>}
    BY <1>5 DEF WinElection, diskVars
  <2>3. WinsHaveMajority'
    <3>1. yes[n] \in SUBSET Node /\ Majority(yes[n])
      BY <1>5 DEF WinElection, TypeOK
    <3>2. \A p \in yes[n] : <<p, currentTerm[n], n>> \in votes
      BY DEF ElectionInv, CountedAreVotes
    <3> SUFFICES ASSUME NEW w \in wins'
                 PROVE  \E Q \in SUBSET Node :
                            Majority(Q) /\ \A q \in Q : <<q, w[1], w[2]>> \in votes'
      BY DEF WinsHaveMajority, Majority
    <3>3. CASE w \in wins
      BY <3>3, <2>2 DEF ElectionInv, WinsHaveMajority
    <3>4. CASE w = <<currentTerm[n], n>>
      BY <3>1, <3>2, <3>4, <2>2
    <3> QED
      BY <2>2, <3>3, <3>4
  <2> QED
    BY <1>2, <2>1, <2>2, <2>3, RoundOver
<1> QED
  BY <1>3, <1>4, <1>5

(* A node that starts an election votes for itself in a term it has not    *)
(* been in before.                                                         *)
LEMMA ElectionStarts ==
    ASSUME TypeOK, TypeOK', ElectionInv, NEW n \in Node, StartElection(n)
    PROVE  ElectionInv'
<1> DEFINE term == currentTerm[n] + 1
<1>1. /\ currentTerm' = [currentTerm EXCEPT ![n] = term]
      /\ votedFor' = [votedFor EXCEPT ![n] = n]
      /\ lock' = [lock EXCEPT ![n] = "vote"]
      /\ yes' = [yes EXCEPT ![n] = {n}]
      /\ votes' = votes \cup {<<n, term, n>>}
      /\ wins' = wins
      /\ lock[n] = "free"
  BY DEF StartElection
<1>2. /\ currentTerm[n] \in Nat /\ term \in Nat /\ term > currentTerm[n]
      /\ n # Nil
  BY NodeAssumption DEF TypeOK
<1>3. /\ currentTerm'[n] = term /\ votedFor'[n] = n /\ lock'[n] = "vote" /\ yes'[n] = {n}
      /\ \A k \in Node \ {n} : /\ currentTerm'[k] = currentTerm[k]
                              /\ votedFor'[k] = votedFor[k]
                              /\ lock'[k] = lock[k]
                              /\ yes'[k] = yes[k]
  BY <1>1 DEF TypeOK
<1>4. \A v \in votes : v[1] = n => v[2] # term
  BY <1>2 DEF ElectionInv, VotesOnDisk, TypeOK
<1>5. VoteOnce'
  BY <1>1, <1>4 DEF ElectionInv, VoteOnce
<1>6. VotesOnDisk'
  <2> SUFFICES ASSUME NEW v \in votes'
               PROVE  /\ v[2] <= currentTerm'[v[1]]
                      /\ v[2] = currentTerm'[v[1]] => votedFor'[v[1]] # Nil
    BY DEF VotesOnDisk
  <2>1. CASE v \in votes
    <3>1. /\ v[1] \in Node /\ v[2] \in Nat /\ currentTerm[v[1]] \in Nat
          /\ v[2] <= currentTerm[v[1]]
          /\ v[2] = currentTerm[v[1]] => votedFor[v[1]] # Nil
      BY <2>1 DEF ElectionInv, VotesOnDisk, TypeOK
    <3> QED BY <3>1, <1>2, <1>3
  <2>2. CASE v = <<n, term, n>>
    BY <2>2, <1>2, <1>3
  <2> QED BY <1>1, <2>1, <2>2
<1>7. \A m \in net : m.caller \in Node
  BY DEF TypeOK, Message, Request, VoteRequest, AppendRequest, Answer
<1>8. \A m \in net : OfElection(m) => m.caller # n
  BY <1>1, NoElectionNoCalls
<1>9. \A m \in net' \ net : m.type = "vote" /\ m.caller = n /\ m.term = term
  BY DEF StartElection
<1>10. AsksInRound'
  BY <1>3, <1>7, <1>8, <1>9 DEF AsksInRound, OfElection, ElectionInv
<1>11. AnswersAreVotes'
  BY <1>1, <1>3, <1>7, <1>8, <1>9 DEF AnswersAreVotes, OfElection, ElectionInv
<1>12. CountedAreVotes'
  BY <1>1, <1>3 DEF CountedAreVotes, ElectionInv
<1>13. WinsHaveMajority'
  BY <1>1, WinsStay
<1> QED
  BY <1>5, <1>6, <1>10, <1>11, <1>12, <1>13 DEF ElectionInv

(* A candidate counts an answer of its own election: a vote.               *)
LEMMA VoteCounted ==
    ASSUME TypeOK, TypeOK', ElectionInv, NEW n \in Node, CountVote(n)
    PROVE  ElectionInv'
<1>1. PICK m \in Calls(n) :
         /\ m.type = "voted"
         /\ yes' = IF m.ok THEN [yes EXCEPT ![n] = @ \cup {m.peer}] ELSE yes
         /\ net' = net \ {m}
  BY DEF CountVote
<1>2. lock[n] = "vote" /\ UNCHANGED <<currentTerm, votedFor, lock, votes, wins>>
  BY DEF CountVote, Undecided, diskVars, history
<1>3. m.ok => <<m.peer, currentTerm[n], n>> \in votes
  BY <1>1 DEF ElectionInv, AnswersAreVotes, Calls
<1>4. CountedAreVotes'
  <2>1. \A k \in Node : yes'[k] \subseteq
           yes[k] \cup IF k = n /\ m.ok THEN {m.peer} ELSE {}
    <3>1. yes \in [Node -> SUBSET Node]
      BY DEF TypeOK
    <3>2. CASE m.ok
      BY <1>1, <3>1, <3>2
    <3>3. CASE ~m.ok
      BY <1>1, <3>3
    <3> QED BY <3>2, <3>3
  <2> QED
    BY <1>2, <1>3, <2>1 DEF ElectionInv, CountedAreVotes
<1>5. VoteOnce' /\ VotesOnDisk'
  BY <1>2 DEF ElectionInv, VoteOnce, VotesOnDisk
<1>6. AsksInRound' /\ AnswersAreVotes'
  BY <1>1, <1>2 DEF ElectionInv, AsksInRound, AnswersAreVotes
<1>7. WinsHaveMajority'
  BY <1>2, WinsStay
<1> QED
  BY <1>4, <1>5, <1>6, <1>7 DEF ElectionInv

(* A node gives its vote only in a term in which it has given none.        *)
LEMMA VoteGiven ==
    ASSUME TypeOK, TypeOK', ElectionInv, NEW n \in Node, HandleRequestVote(n)
    PROVE  ElectionInv'
<1> DEFINE grant(m) == /\ m.term >= currentTerm[n]
                       /\ Voted(n, m) = Nil
                       /\ UpToDate(n, m)
<1>1. PICK m \in net :
         /\ m.type = "vote"
         /\ currentTerm' = [currentTerm EXCEPT ![n] = Larger(@, m.term)]
         /\ votedFor' = [votedFor EXCEPT ![n] =
                           IF grant(m) THEN m.caller ELSE Voted(n, m)]
         /\ net' = Answered(m, VoteAnswer(m, currentTerm'[n], grant(m)))
         /\ votes' = IF grant(m) THEN votes \cup {<<n, m.term, m.caller>>} ELSE votes
         /\ m.peer = n
  BY DEF HandleRequestVote
<1>2. lock[n] = "free" /\ UNCHANGED <<lock, yes, wins>>
  BY DEF HandleRequestVote, roundVars
<1>3. /\ m.term \in Nat /\ m.caller \in Node /\ m.caller # Nil
      /\ currentTerm[n] \in Nat
  BY NodeAssumption DEF TypeOK, Message, Request, VoteRequest, AppendRequest, Answer
<1>4. /\ currentTerm'[n] = Larger(currentTerm[n], m.term)
      /\ votedFor'[n] = IF grant(m) THEN m.caller ELSE Voted(n, m)
      /\ \A k \in Node \ {n} : currentTerm'[k] = currentTerm[k] /\ votedFor'[k] = votedFor[k]
  BY <1>1 DEF TypeOK
<1>5. /\ currentTerm'[n] >= currentTerm[n] /\ currentTerm'[n] \in Nat
      /\ grant(m) => currentTerm'[n] = m.term
  BY <1>3, <1>4 DEF Larger
<1>6. currentTerm'[n] = currentTerm[n] /\ votedFor[n] # Nil => votedFor'[n] # Nil
  BY <1>3, <1>4 DEF Larger, Voted
<1>7. grant(m) => \A v \in votes : v[1] = n => v[2] # m.term
  <2> SUFFICES ASSUME grant(m), NEW v \in votes, v[1] = n PROVE v[2] # m.term
    OBVIOUS
  <2>1. /\ v[2] \in Nat /\ v[2] <= currentTerm[n]
        /\ v[2] = currentTerm[n] => votedFor[n] # Nil
    BY DEF ElectionInv, VotesOnDisk, TypeOK
  <2>2. CASE m.term > currentTerm[n]
    BY <2>1, <2>2, <1>3
  <2>3. CASE m.term = currentTerm[n]
    BY <2>1, <2>3, <1>3 DEF Voted
  <2> QED BY <2>2, <2>3, <1>3
<1>8. votes \subseteq votes' /\ (grant(m) => <<n, m.term, m.caller>> \in votes')
  BY <1>1
<1> HIDE DEF grant
<1>9. VoteOnce'
  BY <1>1, <1>7 DEF ElectionInv, VoteOnce
<1>10. VotesOnDisk'
  <2> SUFFICES ASSUME NEW v \in votes'
               PROVE  /\ v[2] <= currentTerm'[v[1]]
                      /\ v[2] = currentTerm'[v[1]] => votedFor'[v[1]] # Nil
    BY DEF VotesOnDisk
  <2>1. CASE v \in votes
    <3>1. /\ v[1] \in Node /\ v[2] \in Nat /\ currentTerm[v[1]] \in Nat
          /\ v[2] <= currentTerm[v[1]]
          /\ v[2] = currentTerm[v[1]] => votedFor[v[1]] # Nil
      BY <2>1 DEF ElectionInv, VotesOnDisk, TypeOK
    <3>2. CASE v[1] = n
      BY <3>1, <3>2, <1>3, <1>5, <1>6
    <3>3. CASE v[1] # n
      BY <3>1, <3>3, <1>4
    <3> QED BY <3>2, <3>3
  <2>2. CASE grant(m) /\ v = <<n, m.term, m.caller>>
    BY <2>2, <1>3, <1>4, <1>5
  <2> QED BY <1>1, <2>1, <2>2
<1>11. \A k \in net : k.caller \in Node
  BY DEF TypeOK, Message, Request, VoteRequest, AppendRequest, Answer
<1>12. \A k \in net : OfElection(k) => k.caller # n
  BY <1>2, NoElectionNoCalls
<1>13. AsksInRound'
  <2>1. \A k \in net' : k.type = "vote" => k \in net
    BY <1>1 DEF Answered, VoteAnswer
  <2> QED
    BY <2>1, <1>2, <1>4, <1>11, <1>12 DEF ElectionInv, AsksInRound, OfElection
<1>14. AnswersAreVotes'
  <2> SUFFICES ASSUME NEW k \in net', k.type = "voted"
               PROVE  /\ lock'[k.caller] = "vote"
                      /\ k.ok => <<k.peer, currentTerm'[k.caller], k.caller>> \in votes'
    BY DEF AnswersAreVotes
  <2>1. CASE k \in net
    BY <2>1, <1>2, <1>4, <1>8, <1>11, <1>12 DEF ElectionInv, AnswersAreVotes, OfElection
  <2>2. CASE k = VoteAnswer(m, currentTerm'[n], grant(m)) /\ m.live
    <3>1. k.caller = m.caller /\ k.peer = n /\ k.ok = grant(m)
      BY <2>2, <1>1 DEF VoteAnswer
    <3>2. m.caller # n /\ lock[m.caller] = "vote" /\ m.term = currentTerm[m.caller]
      BY <2>2, <1>1, <1>12 DEF ElectionInv, AsksInRound, OfElection
    <3> QED BY <3>1, <3>2, <1>2, <1>3, <1>4, <1>8
  <2> QED BY <1>1, <2>1, <2>2 DEF Answered
<1>15. CountedAreVotes'
  <2>1. \A p \in yes[n] : FALSE
    BY <1>2 DEF ElectionInv, CountedAreVotes
  <2> QED
    BY <2>1, <1>2, <1>4, <1>8 DEF ElectionInv, CountedAreVotes
<1>16. WinsHaveMajority'
  BY <1>2, <1>8, WinsStay
<1> QED
  BY <1>9, <1>10, <1>13, <1>14, <1>15, <1>16 DEF ElectionInv

LEMMA ElectionNext == TypeOK /\ TypeOK' /\ ElectionInv /\ [Next]_vars => ElectionInv'
<1> SUFFICES ASSUME TypeOK, TypeOK', ElectionInv, [Next]_vars PROVE ElectionInv'
  OBVIOUS
<1>1. CASE UNCHANGED vars
  BY <1>1, NotElection DEF vars, diskVars, roundVars, history
<1>2. ASSUME NEW n \in Node, Election(n) PROVE ElectionInv'
  BY <1>2, QuietSteps, ElectionStarts, VoteCounted, ElectionEnds, VoteGiven DEF Election
<1>3. ASSUME NEW n \in Node, Replication(n) PROVE ElectionInv'
  BY <1>3, QuietSteps, FollowSteps, BroadcastSteps DEF Replication
<1>4. ASSUME NEW n \in Node, Client(n) PROVE ElectionInv'
  BY <1>4, QuietSteps DEF Client
<1>5. ASSUME NEW n \in Node, Failure(n) PROVE ElectionInv'
  BY <1>5, CrashSteps DEF Failure
<1> QED
  BY <1>1, <1>2, <1>3, <1>4, <1>5 DEF Next, IdleTick

(* The strengthened invariant holds in every state of Raft.                *)
THEOREM ElectionInvariant == Spec => []ElectionInv
<1>1. Spec => []TypeOK
  BY TypeCorrect
<1> QED
  BY <1>1, ElectionInit, ElectionNext, PTL DEF Spec

(* Two majorities of votes of one term have a voter in common.             *)
LEMMA OneWinPerTerm ==
    ASSUME TypeOK, ElectionInv PROVE ElectionSafety
<1> SUFFICES ASSUME NEW w1 \in wins, NEW w2 \in wins, w1[1] = w2[1]
             PROVE  w1[2] = w2[2]
  BY DEF ElectionSafety
<1>1. PICK P \in SUBSET Node :
         Majority(P) /\ \A q \in P : <<q, w1[1], w1[2]>> \in votes
  BY DEF ElectionInv, WinsHaveMajority
<1>2. PICK Q \in SUBSET Node :
         Majority(Q) /\ \A q \in Q : <<q, w2[1], w2[2]>> \in votes
  BY DEF ElectionInv, WinsHaveMajority
<1>3. PICK q \in P \cap Q : TRUE
  BY <1>1, <1>2, MajoritiesMeet
<1> QED
  BY <1>1, <1>2, <1>3 DEF ElectionInv, VoteOnce

(* At most one node wins the election of a term (raft.go:334-373).         *)
THEOREM OneLeaderPerTerm == Spec => []ElectionSafety
<1>1. TypeOK /\ ElectionInv => ElectionSafety
  BY OneWinPerTerm
<1> QED
  BY <1>1, TypeCorrect, ElectionInvariant, PTL

(* A node votes for at most one candidate of a term, restarts included     *)
(* (raft.go:54-88, 319-322, 421-422).                                      *)
THEOREM OneVotePerTerm == Spec => []VoteOnce
<1>1. ElectionInv => VoteOnce
  BY DEF ElectionInv
<1> QED
  BY <1>1, ElectionInvariant, PTL

=============================================================================

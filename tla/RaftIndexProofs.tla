------------------------- MODULE RaftIndexProofs -------------------------
(***************************************************************************)
(* The indexes of a leader and of CommitChanges, for every number of       *)
(* nodes and whatever is lost, late or restarted: NextIndex never leaves   *)
(* the log, an answer stands for what it says, and every index is handed   *)
(* on once.                                                                *)
(*                                                                         *)
(* What carries it is the discipline of a broadcast.  While it is open its *)
(* node holds the mutex, so its log, term and arrays stay as they were     *)
(* when the requests were built, and each peer has one message on its way: *)
(* the request or the answer to it.                                        *)
(***************************************************************************)
EXTENDS RaftProofs

\* A message of an open broadcast.
InRound(m) == m.type \in {"append", "appended"} /\ m.live

BuiltFromLog(m) ==
    /\ m.term = currentTerm[m.caller]
    /\ m.prev + Len(m.entries) = Len(log[m.caller])
    /\ nextIndex[m.caller][m.peer] = m.prev + 1
    /\ m.prev = 0 => m.prevTerm = 0

\* A refusal in the leader's own term can be stepped back for.
MayStepBack(m) ==
    ~m.ok /\ m.term <= currentTerm[m.caller] => nextIndex[m.caller][m.peer] >= 2

OfItsRound(m) ==
    /\ lock[m.caller] \in {"append", "wait"}
    /\ m.peer # m.caller
    /\ m.type = "append" => BuiltFromLog(m)
    /\ m.type = "appended" => MayStepBack(m)

OnePerPeer(S) ==
    \A a, b \in S : InRound(a) /\ InRound(b) /\ a.caller = b.caller /\ a.peer = b.peer
        => a = b

InRange(n) ==
    leading[n] => \A m \in Node \ {n} : /\ nextIndex[n][m] \in 1..(Len(log[n]) + 1)
                                        /\ matchIndex[n][m] <= Len(log[n])

BroadcastInv ==
    /\ \A m \in net : InRound(m) => OfItsRound(m)
    /\ OnePerPeer(net)
    /\ \A n \in Node : InRange(n)

\* What BroadcastInv reads of a node.
SameNode(p) ==
    /\ lock'[p] = lock[p] /\ log'[p] = log[p] /\ currentTerm'[p] = currentTerm[p]
    /\ nextIndex'[p] = nextIndex[p] /\ matchIndex'[p] = matchIndex[p]
    /\ leading'[p] = leading[p]

LEMMA MessageParts ==
    ASSUME TypeOK, NEW m \in net
    PROVE  /\ m.caller \in Node /\ m.peer \in Node /\ m.term \in Nat
           /\ m.live \in BOOLEAN
           /\ m.type \in {"vote", "append", "voted", "appended"}
           /\ m.type = "append" => m \in AppendRequest /\ m.prev \in Nat /\ m.prevTerm \in Nat
           /\ m.type \in {"voted", "appended"} => m \in Answer /\ m.ok \in BOOLEAN
BY DEF TypeOK, Message, Request, VoteRequest, AppendRequest, Answer

(* A step of n that sends nothing for a broadcast, and has none open when  *)
(* it is over, disturbs no broadcast.                                      *)
LEMMA NoBroadcast ==
    ASSUME TypeOK, BroadcastInv, NEW n \in Node,
           \A p \in Node \ {n} : SameNode(p),
           \A m \in net' : InRound(m) => m \in net /\ m.caller # n,
           InRange(n)'
    PROVE  BroadcastInv'
<1>1. ASSUME NEW m \in net', InRound(m) PROVE OfItsRound(m)'
  <2>1. m \in net /\ m.caller \in Node \ {n} /\ OfItsRound(m)
    BY <1>1, MessageParts DEF BroadcastInv
  <2>2. SameNode(m.caller)
    BY <2>1
  <2> QED
    BY <2>1, <2>2 DEF SameNode, OfItsRound, BuiltFromLog, MayStepBack
<1>2. OnePerPeer(net)'
  BY DEF OnePerPeer, BroadcastInv
<1>3. \A p \in Node \ {n} : InRange(p)'
  BY DEF SameNode, InRange, BroadcastInv
<1> QED
  BY <1>1, <1>2, <1>3 DEF BroadcastInv, InRound

(* A step that changes nothing a broadcast depends on.                     *)
LEMMA SameBroadcast ==
    ASSUME TypeOK, BroadcastInv, \A p \in Node : SameNode(p),
           \A m \in net' : InRound(m) => m \in net
    PROVE  BroadcastInv'
<1>1. ASSUME NEW m \in net', InRound(m) PROVE OfItsRound(m)'
  <2>1. m \in net /\ m.caller \in Node /\ OfItsRound(m)
    BY <1>1, MessageParts DEF BroadcastInv
  <2> QED
    BY <2>1 DEF SameNode, OfItsRound, BuiltFromLog, MayStepBack
<1>2. OnePerPeer(net)'
  BY DEF OnePerPeer, BroadcastInv
<1>3. \A p \in Node : InRange(p)'
  BY DEF SameNode, InRange, BroadcastInv
<1> QED
  BY <1>1, <1>2, <1>3 DEF BroadcastInv, InRound

-----------------------------------------------------------------------------
(* Steps of a node that has no broadcast open afterwards.                  *)

(* What an abandoned call leaves behind is in no round.                    *)
LEMMA ClosedBroadcast ==
    ASSUME TypeOK, NEW n \in Node, NEW kept, CloseCalls(n, Abandon(kept)),
           kept \subseteq Request
    PROVE  \A m \in net' : InRound(m) => m \in net /\ m.caller # n
<1>1. \A m \in Abandon(kept) : ~InRound(m)
  <2> SUFFICES ASSUME NEW r \in kept PROVE ~InRound([r EXCEPT !.live = FALSE])
    BY DEF Abandon
  <2>1. r \in VoteRequest \/ r \in AppendRequest
    BY DEF Request
  <2>2. [r EXCEPT !.live = FALSE].live = FALSE
    BY <2>1 DEF VoteRequest, AppendRequest
  <2> QED
    BY <2>2 DEF InRound
<1>2. net' = (net \ Calls(n)) \cup Abandon(kept)
  BY DEF CloseCalls
<1> QED
  BY <1>1, <1>2 DEF Calls, InRound

LEMMA PendingRequests ==
    ASSUME TypeOK, NEW n \in Node PROVE Pending(n) \subseteq Request
BY RequestType

(* A node without an open broadcast has no message of one.                 *)
LEMMA NoneOpen ==
    ASSUME TypeOK, BroadcastInv, NEW n \in Node, lock[n] \notin {"append", "wait"}
    PROVE  \A m \in net : InRound(m) => m.caller # n
BY DEF BroadcastInv, OfItsRound

LEMMA EmptyRange ==
    ASSUME TypeOK, NEW n \in Node, DropLeaderState(n) PROVE InRange(n)'
BY DEF TypeOK, DropLeaderState, InRange

LEMMA StartElectionKeeps ==
    ASSUME TypeOK, BroadcastInv, NEW n \in Node, StartElection(n)
    PROVE  BroadcastInv'
<1>1. \A p \in Node \ {n} : SameNode(p)
  BY DEF StartElection, leaderVars, SameNode, TypeOK
<1>2. \A m \in net' : InRound(m) => m \in net
  BY DEF StartElection, InRound
<1>3. \A m \in net : InRound(m) => m.caller # n
  BY NoneOpen DEF StartElection
<1>4. InRange(n)'
  BY DEF StartElection, leaderVars, InRange, BroadcastInv
<1> QED
  BY <1>1, <1>2, <1>3, <1>4, NoBroadcast

LEMMA StepDownKeeps ==
    ASSUME TypeOK, BroadcastInv, NEW n \in Node, StepDown(n)
    PROVE  BroadcastInv'
<1>1. \A p \in Node \ {n} : SameNode(p)
  BY DEF StepDown, Unlock, SameNode, TypeOK
<1>2. \A m \in net' : InRound(m) => m \in net /\ m.caller # n
  <2>1. PICK m \in Calls(n) : StepDown(n)!2!(m)
    BY DEF StepDown
  <2>2. PICK kept \in SUBSET Pending(n), late \in SUBSET Pending(n) :
           CloseCalls(n, Abandon((kept \ late)
                                 \cup {[r EXCEPT !.term = m.term] : r \in late}))
    BY <2>1
  <2>3. m.term \in Nat
    BY MessageParts DEF Calls
  <2>4. late \subseteq Request /\ kept \subseteq Request
    BY PendingRequests
  <2>5. \A r \in late : [r EXCEPT !.term = m.term] \in Request
    BY <2>3, <2>4, RequestType
  <2>6. (kept \ late) \cup {[r EXCEPT !.term = m.term] : r \in late} \subseteq Request
    BY <2>4, <2>5
  <2> QED
    BY <2>2, <2>6, ClosedBroadcast
<1>3. InRange(n)'
  BY DEF StepDown, InRange, BroadcastInv
<1> QED
  BY <1>1, <1>2, <1>3, NoBroadcast

LEMMA LoseElectionKeeps ==
    ASSUME TypeOK, BroadcastInv, NEW n \in Node, LoseElection(n)
    PROVE  BroadcastInv'
<1>1. \A p \in Node \ {n} : SameNode(p)
  BY DEF LoseElection, Unlock, diskVars, SameNode, TypeOK
<1>2. \A m \in net' : InRound(m) => m \in net /\ m.caller # n
  BY ClosedBroadcast, PendingRequests DEF LoseElection
<1>3. InRange(n)'
  BY DEF LoseElection, diskVars, InRange, BroadcastInv
<1> QED
  BY <1>1, <1>2, <1>3, NoBroadcast

LEMMA WinElectionKeeps ==
    ASSUME TypeOK, BroadcastInv, NEW n \in Node, WinElection(n)
    PROVE  BroadcastInv'
<1>1. \A p \in Node \ {n} : SameNode(p)
  BY DEF WinElection, Unlock, diskVars, SameNode, TypeOK
<1>2. \A m \in net' : InRound(m) => m \in net /\ m.caller # n
  BY ClosedBroadcast, PendingRequests DEF WinElection
<1>3. InRange(n)'
  <2>1. log'[n] = log[n] /\ Len(log[n]) \in Nat
    BY LenProperties DEF WinElection, diskVars, TypeOK
  <2>2. \A m \in Node \ {n} : /\ nextIndex'[n][m] = Len(log[n]) + 1
                              /\ matchIndex'[n][m] = 0
    BY DEF WinElection, TypeOK
  <2> QED
    BY <2>1, <2>2 DEF InRange
<1> QED
  BY <1>1, <1>2, <1>3, NoBroadcast

LEMMA EndBroadcastKeeps ==
    ASSUME TypeOK, BroadcastInv, NEW n \in Node, EndBroadcast(n)
    PROVE  BroadcastInv'
<1>1. \A p \in Node \ {n} : SameNode(p)
  BY DEF EndBroadcast, Unlock, diskVars, leaderVars, SameNode, TypeOK
<1>2. \A m \in net' : InRound(m) => m \in net /\ m.caller # n
  BY ClosedBroadcast, PendingRequests DEF EndBroadcast
<1>3. InRange(n)'
  BY DEF EndBroadcast, diskVars, leaderVars, InRange, BroadcastInv
<1> QED
  BY <1>1, <1>2, <1>3, NoBroadcast

LEMMA RequestVoteKeeps ==
    ASSUME TypeOK, BroadcastInv, NEW n \in Node, HandleRequestVote(n)
    PROVE  BroadcastInv'
<1>1. PICK m \in net : HandleRequestVote(n)!2!(m)
  BY DEF HandleRequestVote
<1>2. lock[n] = "free" /\ UNCHANGED <<log, lock>>
  BY DEF HandleRequestVote, roundVars
<1>3. DropLeaderState(n) \/ UNCHANGED <<leading, nextIndex, matchIndex>>
  BY <1>1
<1>4. \A p \in Node \ {n} : SameNode(p)
  <2>1. currentTerm' = [currentTerm EXCEPT ![n] = Larger(@, m.term)]
    BY <1>1
  <2> QED
    BY <1>2, <1>3, <2>1 DEF DropLeaderState, SameNode, TypeOK
<1>5. \A r \in net' : InRound(r) => r \in net
  <2>1. \A t, ok : ~InRound(VoteAnswer(m, t, ok))
    BY DEF VoteAnswer, InRound
  <2> QED
    BY <1>1, <2>1 DEF Answered
<1>6. InRange(n)'
  BY <1>2, <1>3, EmptyRange DEF InRange, BroadcastInv
<1> QED
  BY <1>2, <1>4, <1>5, <1>6, NoneOpen, NoBroadcast

LEMMA ApplyRequestKeeps ==
    ASSUME TypeOK, BroadcastInv, NEW n \in Node, NEW v \in Value, ApplyRequest(n, v)
    PROVE  BroadcastInv'
<1>1. \A p \in Node \ {n} : SameNode(p)
  BY DEF ApplyRequest, leaderVars, roundVars, SameNode, TypeOK
<1>2. \A m \in net' : InRound(m) => m \in net /\ m.caller # n
  BY NoneOpen DEF ApplyRequest
<1>3. InRange(n)'
  <2>1. log[n] \in Seq(Entry) /\ NewEntry(v) \in Entry /\ Len(log[n]) \in Nat
    BY LenProperties DEF TypeOK, NewEntry, Entry
  <2>2. log'[n] = Append(log[n], NewEntry(v))
    BY DEF ApplyRequest, TypeOK
  <2>3. Len(log'[n]) = Len(log[n]) + 1
    BY <2>1, <2>2, AppendProperties
  <2>4. InRange(n) /\ UNCHANGED <<leading, nextIndex, matchIndex>>
    BY DEF BroadcastInv, ApplyRequest, leaderVars
  <2>5. \A m \in Node : nextIndex[n][m] \in Nat /\ matchIndex[n][m] \in Nat
    BY DEF TypeOK
  <2> QED
    BY <2>1, <2>3, <2>4, <2>5 DEF InRange
<1> QED
  BY <1>1, <1>2, <1>3, NoBroadcast

LEMMA RebootKeeps ==
    ASSUME TypeOK, BroadcastInv, NEW n \in Node, Failure(n)
    PROVE  BroadcastInv'
<1>1. Reboot(n)
  BY DEF Failure, Crash, CrashInVote, CrashInAppend
<1>2. \A p \in Node \ {n} : SameNode(p)
  <2>1. \A p \in Node \ {n} : log'[p] = log[p]
    BY DEF Failure, Crash, CrashInVote, CrashInAppend, TypeOK
  <2>2. \A p \in Node \ {n} : currentTerm'[p] = currentTerm[p]
    BY DEF Failure, Crash, CrashInVote, CrashInAppend, TypeOK
  <2> QED
    BY <1>1, <2>1, <2>2 DEF Reboot, DropLeaderState, Unlock, SameNode, TypeOK
<1>3. InRange(n)'
  BY <1>1, EmptyRange DEF Reboot
<1>4. CASE Crash(n)
  <2>1. \A m \in net' : InRound(m) => m \in net /\ m.caller # n
    BY <1>4, ClosedBroadcast, PendingRequests DEF Crash
  <2> QED
    BY <1>2, <1>3, <2>1, NoBroadcast
<1>5. CASE CrashInVote(n) \/ CrashInAppend(n)
  <2>1. lock[n] = "free" /\ net' \subseteq net
    BY <1>5 DEF CrashInVote, CrashInAppend
  <2> QED
    BY <1>2, <1>3, <2>1, NoneOpen, NoBroadcast
<1> QED
  BY <1>4, <1>5 DEF Failure

-----------------------------------------------------------------------------
(* A peer answers a request of a broadcast.                                *)

(* The answer takes the place of its request; a refusal is of a newer term *)
(* or of a request that did not start at the sentinel.                     *)
LEMMA AnswerKeeps ==
    ASSUME TypeOK, BroadcastInv, NEW n \in Node, NEW m \in net,
           m.type = "append", m.peer = n, lock[n] = "free",
           \A p \in Node \ {n} : SameNode(p), InRange(n)',
           NEW t \in Nat, NEW ok \in BOOLEAN,
           \/ net' = net \ {m}
           \/ net' = Answered(m, AppendAnswer(m, t, ok)),
           m.live => ok \/ t > currentTerm[m.caller] \/ m.prev # 0
    PROVE  BroadcastInv'
<1> DEFINE a == AppendAnswer(m, t, ok)
<1>1. m.caller \in Node /\ m.term \in Nat /\ m.prev \in Nat
  BY MessageParts
<1>2. /\ a.type = "appended" /\ a.caller = m.caller /\ a.peer = m.peer
      /\ a.term = t /\ a.ok = ok
  BY DEF AppendAnswer, VoteAnswer
<1> HIDE DEF a
<1>3. \A x \in net' : (x = a /\ m.live) \/ x \in net \ {m}
  BY DEF Answered, a
<1>4. \A x \in net : InRound(x) => x.caller # n
  BY NoneOpen
<1>5. m.live => InRound(m) /\ OfItsRound(m)
  BY DEF InRound, BroadcastInv
<1>6. ASSUME m.live PROVE OfItsRound(a)'
  <2>1. m.caller \in Node \ {n} /\ SameNode(m.caller)
    BY <1>1, <1>4, <1>5, <1>6
  <2>2. BuiltFromLog(m) /\ m.peer # m.caller /\ lock[m.caller] \in {"append", "wait"}
    BY <1>5, <1>6 DEF OfItsRound
  <2>3. ~ok /\ t <= currentTerm[m.caller] => nextIndex[m.caller][m.peer] >= 2
    <3>1. SUFFICES ASSUME ~ok, t <= currentTerm[m.caller]
                   PROVE  nextIndex[m.caller][m.peer] >= 2
      OBVIOUS
    <3>2. currentTerm[m.caller] \in Nat
      BY <1>1 DEF TypeOK
    <3>3. m.prev # 0
      BY <1>6, <3>1, <3>2
    <3>4. nextIndex[m.caller][m.peer] = m.prev + 1
      BY <2>2 DEF BuiltFromLog
    <3> QED
      BY <1>1, <3>3, <3>4
  <2> QED
    BY <1>2, <2>1, <2>2, <2>3 DEF OfItsRound, MayStepBack, SameNode
<1>7. ASSUME NEW x \in net \ {m}, InRound(x) PROVE OfItsRound(x)'
  <2>1. x.caller \in Node \ {n} /\ OfItsRound(x)
    BY <1>4, <1>7, MessageParts DEF BroadcastInv
  <2>2. SameNode(x.caller)
    BY <2>1
  <2> QED
    BY <2>1, <2>2 DEF SameNode, OfItsRound, BuiltFromLog, MayStepBack
<1>8. OnePerPeer(net')
  <2>1. \A x \in net \ {m} : InRound(x) /\ m.live => ~(x.caller = a.caller /\ x.peer = a.peer)
    BY <1>2, <1>5 DEF BroadcastInv, OnePerPeer
  <2>2. OnePerPeer(net)
    BY DEF BroadcastInv
  <2> QED
    BY <1>3, <2>1, <2>2 DEF OnePerPeer
<1>9. \A p \in Node \ {n} : InRange(p)'
  BY DEF SameNode, InRange, BroadcastInv
<1>10. \A x \in net' : InRound(x) => OfItsRound(x)'
  BY <1>3, <1>6, <1>7
<1> QED
  BY <1>8, <1>9, <1>10 DEF BroadcastInv, InRound, OnePerPeer

(* A follower only refuses a request of its term when the request starts   *)
(* behind the sentinel, which every log has (log.go:160-187).              *)
LEMMA SentinelFits ==
    ASSUME TypeOK, BroadcastInv, NEW n \in Node, NEW m \in net,
           m.type = "append", m.live, ~Fits(n, m)
    PROVE  m.prev # 0
<1>1. m.prev = 0 => m.prevTerm = 0
  BY DEF BroadcastInv, InRound, OfItsRound, BuiltFromLog
<1>2. Len(log[n]) \in Nat
  BY LenProperties DEF TypeOK
<1> QED
  BY <1>1, <1>2 DEF Fits, TermAt

LEMMA FollowKeeps ==
    ASSUME TypeOK, NEW n \in Node, NEW m, FollowLeader(n, m),
           UNCHANGED roundVars, NEW l, log' = [log EXCEPT ![n] = l]
    PROVE  (\A p \in Node \ {n} : SameNode(p)) /\ InRange(n)'
<1>1. InRange(n)'
  BY EmptyRange DEF FollowLeader
<1>2. \A p \in Node \ {n} : SameNode(p)
  BY DEF FollowLeader, DropLeaderState, roundVars, SameNode, TypeOK
<1> QED
  BY <1>1, <1>2

LEMMA AppendKeeps ==
    ASSUME TypeOK, BroadcastInv, NEW n \in Node,
           RejectMismatch(n) \/ AcceptAppend(n) \/ PanicInAppend(n)
    PROVE  BroadcastInv'
<1>1. lock[n] = "free" /\ UNCHANGED roundVars
  BY DEF RejectMismatch, AcceptAppend, PanicInAppend
<1>2. CASE RejectMismatch(n)
  <2>1. PICK m \in net : RejectMismatch(n)!2!(m)
    BY <1>2 DEF RejectMismatch
  <2>2. (\A p \in Node \ {n} : SameNode(p)) /\ InRange(n)'
    BY <1>1, <2>1, FollowKeeps
  <2>3. m.live => m.prev # 0
    BY <2>1, SentinelFits
  <2> QED
    BY <1>1, <2>1, <2>2, <2>3, MessageParts, AnswerKeeps
<1>3. CASE AcceptAppend(n)
  <2>1. PICK m \in net : AcceptAppend(n)!2!(m)
    BY <1>3 DEF AcceptAppend
  <2>2. (\A p \in Node \ {n} : SameNode(p)) /\ InRange(n)'
    BY <1>1, <2>1, FollowKeeps
  <2> QED
    BY <1>1, <2>1, <2>2, MessageParts, AnswerKeeps
<1>4. CASE PanicInAppend(n)
  <2>1. PICK m \in net : PanicInAppend(n)!2!(m)
    BY <1>4 DEF PanicInAppend
  <2>2. (\A p \in Node \ {n} : SameNode(p)) /\ InRange(n)'
    BY <1>1, <2>1, FollowKeeps
  <2> QED
    BY <1>1, <2>1, <2>2, MessageParts, AnswerKeeps
<1> QED
  BY <1>2, <1>3, <1>4

(* A stale request is refused with the newer term.                         *)
LEMMA StaleKeeps ==
    ASSUME TypeOK, BroadcastInv, NEW n \in Node, RejectStaleAppend(n)
    PROVE  BroadcastInv'
<1>1. PICK m \in net : RejectStaleAppend(n)!2!(m)
  BY DEF RejectStaleAppend
<1>2. \A p \in Node : SameNode(p)
  BY DEF RejectStaleAppend, diskVars, leaderVars, roundVars, SameNode
<1>3. InRange(n)'
  BY <1>2 DEF SameNode, InRange, BroadcastInv
<1>4. m.live => currentTerm[n] > currentTerm[m.caller]
  <2>1. m.live => m.term = currentTerm[m.caller]
    BY <1>1 DEF BroadcastInv, InRound, OfItsRound, BuiltFromLog
  <2>2. m.term \in Nat /\ currentTerm[n] \in Nat /\ m.term < currentTerm[n]
    BY <1>1, MessageParts DEF TypeOK, Stale
  <2> QED
    BY <2>1, <2>2
<1>5. currentTerm[n] \in Nat /\ lock[n] = "free"
  BY DEF TypeOK, RejectStaleAppend
<1> QED
  BY <1>1, <1>2, <1>3, <1>4, <1>5, AnswerKeeps

-----------------------------------------------------------------------------
(* The broadcast itself.                                                   *)

LEMMA SentLength ==
    ASSUME NEW s \in Seq(Entry) PROVE Len(Sent(s)) = Len(s)
<1>1. Len(s) \in Nat /\ DOMAIN s = 1..Len(s)
  BY LenProperties
<1>2. Sent(s) \in Seq(Entry)
  BY SentType
<1>3. DOMAIN Sent(s) = 1..Len(s)
  BY <1>1 DEF Sent
<1>4. DOMAIN Sent(s) = 1..Len(Sent(s)) /\ Len(Sent(s)) \in Nat
  BY <1>2, LenProperties
<1> QED
  BY <1>1, <1>3, <1>4

LEMMA StartBroadcastKeeps ==
    ASSUME TypeOK, LeadershipFlags, BroadcastInv, NEW n \in Node, StartBroadcast(n)
    PROVE  BroadcastInv'
<1> DEFINE ask(m) ==
      [type |-> "append", caller |-> n, peer |-> m, term |-> currentTerm[n],
       prev |-> PrevIndex(n, m), prevTerm |-> TermAt(log[n], PrevIndex(n, m)),
       entries |-> Sent(SubSeq(log[n], PrevIndex(n, m) + 1, Len(log[n]))),
       commit |-> commitIndex[n], live |-> TRUE]
           asked == {ask(m) : m \in Node \ {n}}
<1>1. /\ net' = net \cup asked
      /\ UNCHANGED <<log, currentTerm, nextIndex, matchIndex, leading>>
      /\ lock[n] = "free" /\ lock' = [lock EXCEPT ![n] = "append"]
  BY DEF StartBroadcast, diskVars, leaderVars
<1>2. leading[n]
  BY DEF StartBroadcast, LeadershipFlags
<1>3. log[n] \in Seq(Entry) /\ Len(log[n]) \in Nat
  BY LenProperties DEF TypeOK
<1>4. \A x \in net : InRound(x) => x.caller # n
  BY <1>1, NoneOpen
<1>5. ASSUME NEW m \in Node \ {n} PROVE BuiltFromLog(ask(m))
  <2>1. nextIndex[n][m] \in 1..(Len(log[n]) + 1)
    BY <1>2 DEF BroadcastInv, InRange
  <2>2. PrevIndex(n, m) = nextIndex[n][m] - 1 /\ PrevIndex(n, m) \in 0..Len(log[n])
    BY <1>3, <2>1 DEF PrevIndex
  <2> DEFINE s == SubSeq(log[n], PrevIndex(n, m) + 1, Len(log[n]))
  <2>3. \A i \in PrevIndex(n, m) + 1 .. Len(log[n]) : log[n][i] \in Entry
    BY <1>3, <2>2, ElementOfSeq
  <2>4. s \in Seq(Entry) /\ Len(s) = Len(log[n]) - PrevIndex(n, m)
    BY <1>3, <2>2, <2>3, SubSeqProperties
  <2>5. Len(Sent(s)) = Len(log[n]) - PrevIndex(n, m)
    BY <2>4, SentLength
  <2>6. ask(m).prev + Len(ask(m).entries) = Len(log[n])
    BY <1>3, <2>2, <2>5
  <2>7. nextIndex[n][m] = PrevIndex(n, m) + 1
    BY <2>1, <2>2
  <2>8. PrevIndex(n, m) = 0 => TermAt(log[n], PrevIndex(n, m)) = 0
    BY DEF TermAt
  <2> QED
    BY <2>6, <2>7, <2>8 DEF BuiltFromLog
<1>6. \A x \in asked : x.caller = n /\ x.peer # n /\ x.type = "append" /\ BuiltFromLog(x)
  BY <1>5
<1>7. \A x, y \in asked : x.peer = y.peer => x = y
  <2>1. \A m \in Node : ask(m).peer = m
    OBVIOUS
  <2> HIDE DEF ask
  <2> QED
    BY <2>1
<1> HIDE DEF asked
<1>8. lock'[n] = "append" /\ \A p \in Node \ {n} : lock'[p] = lock[p]
  BY <1>1 DEF TypeOK
<1>9. ASSUME NEW x \in net', InRound(x) PROVE OfItsRound(x)'
  <2>1. CASE x \in asked
    BY <1>1, <1>6, <1>8, <2>1 DEF OfItsRound, BuiltFromLog
  <2>2. CASE x \in net
    <3>1. OfItsRound(x) /\ x.caller \in Node \ {n}
      BY <1>4, <1>9, <2>2, MessageParts DEF BroadcastInv
    <3> QED
      BY <1>1, <1>8, <3>1 DEF OfItsRound, BuiltFromLog, MayStepBack
  <2> QED
    BY <1>1, <2>1, <2>2
<1>10. OnePerPeer(net')
  BY <1>1, <1>4, <1>6, <1>7 DEF OnePerPeer, BroadcastInv
<1>11. \A p \in Node : InRange(p)'
  BY <1>1 DEF InRange, BroadcastInv
<1> QED
  BY <1>9, <1>10, <1>11 DEF BroadcastInv, InRound, OnePerPeer

(* Requests that are built late carry the new commit index and are         *)
(* otherwise the same.                                                     *)
LEMMA CalcCommitKeeps ==
    ASSUME TypeOK, BroadcastInv, NEW n \in Node, CalcCommit(n)
    PROVE  BroadcastInv'
<1>1. PICK idx \in {matchIndex[n][m] : m \in Node} :
         IF commitIndex[n] < idx
            THEN /\ CommitChanges(n, log[n], idx)
                 /\ \E late \in SUBSET Pending(n) :
                      net' = (net \ late) \cup {[m EXCEPT !.commit = idx] : m \in late}
            ELSE UNCHANGED <<commitVars, net>>
  BY DEF CalcCommit
<1>2. PICK late \in SUBSET Pending(n) :
         net' = (net \ late) \cup {[m EXCEPT !.commit = idx] : m \in late}
  <2>1. CASE commitIndex[n] < idx
    BY <1>1, <2>1
  <2>2. CASE ~(commitIndex[n] < idx)
    <3>1. net' = net
      BY <1>1, <2>2
    <3>2. {[m EXCEPT !.commit = idx] : m \in {}} = {}
      OBVIOUS
    <3>3. net' = (net \ {}) \cup {[m EXCEPT !.commit = idx] : m \in {}}
      BY <3>1, <3>2, Zenon
    <3> QED
      BY <3>3, Zenon
  <2> QED
    BY <2>1, <2>2
<1>3. /\ UNCHANGED <<log, currentTerm, nextIndex, matchIndex, leading>>
      /\ lock[n] = "append" /\ lock' = [lock EXCEPT ![n] = "wait"]
  BY DEF CalcCommit, diskVars, leaderVars
<1>4. \A p \in Node : lock[p] \in {"append", "wait"} => lock'[p] \in {"append", "wait"}
  BY <1>3 DEF TypeOK
<1> DEFINE Old(x, r) ==
      /\ r \in net /\ InRound(r) /\ x.type = r.type /\ x.caller = r.caller /\ x.peer = r.peer
      /\ x.term = r.term
      /\ x.type = "append" => /\ x.prev = r.prev /\ x.prevTerm = r.prevTerm
                              /\ x.entries = r.entries
      /\ x.type = "appended" => x.ok = r.ok
      /\ x = IF r \in late THEN [r EXCEPT !.commit = idx] ELSE r
<1>5. ASSUME NEW x \in net', InRound(x) PROVE \E r \in net : Old(x, r)
  <2>1. CASE x \in net \ late
    BY <1>5, <2>1
  <2>2. CASE x \notin net \ late
    <3>1. PICK r \in late : x = [r EXCEPT !.commit = idx]
      BY <1>2, <2>2
    <3>2. r \in net /\ (r \in VoteRequest \/ r \in AppendRequest)
      BY PendingRequests DEF Request, Pending, Calls
    <3>3. r \in AppendRequest
      BY <1>5, <3>1, <3>2 DEF InRound, VoteRequest
    <3>4. /\ x.type = r.type /\ x.caller = r.caller /\ x.peer = r.peer /\ x.term = r.term
          /\ x.prev = r.prev /\ x.prevTerm = r.prevTerm /\ x.entries = r.entries
          /\ x.live = r.live /\ r.type = "append"
      BY <3>1, <3>3 DEF AppendRequest
    <3> QED
      BY <1>5, <3>1, <3>2, <3>4 DEF InRound
  <2> QED
    BY <2>1, <2>2
<1>6. ASSUME NEW x \in net', InRound(x) PROVE OfItsRound(x)'
  <2>1. PICK r \in net : Old(x, r)
    BY <1>5, <1>6
  <2>2. OfItsRound(r) /\ r.caller \in Node
    BY <2>1, MessageParts DEF BroadcastInv
  <2> QED
    BY <1>3, <1>4, <2>1, <2>2 DEF OfItsRound, BuiltFromLog, MayStepBack
<1>7. OnePerPeer(net')
  <2> SUFFICES ASSUME NEW x \in net', NEW y \in net', InRound(x), InRound(y),
                      x.caller = y.caller, x.peer = y.peer
               PROVE  x = y
    BY DEF OnePerPeer
  <2>1. PICK r \in net : Old(x, r)
    BY <1>5
  <2>2. PICK s \in net : Old(y, s)
    BY <1>5
  <2>3. r = s
    BY <2>1, <2>2 DEF BroadcastInv, OnePerPeer
  <2> QED
    BY <2>1, <2>2, <2>3
<1>8. \A p \in Node : InRange(p)'
  BY <1>3 DEF InRange, BroadcastInv
<1> QED
  BY <1>6, <1>7, <1>8 DEF BroadcastInv, InRound, OnePerPeer


(* An answer moves the index of its peer only, which has no other message  *)
(* on its way.                                                             *)
LEMMA AppendAnswerKeeps ==
    ASSUME TypeOK, BroadcastInv, NEW n \in Node, HandleAppendAnswer(n)
    PROVE  BroadcastInv'
<1>1. PICK m \in Calls(n) : HandleAppendAnswer(n)!2!(m)
  BY DEF HandleAppendAnswer
<1>2. UNCHANGED <<log, currentTerm, lock, leading>>
  BY DEF HandleAppendAnswer, diskVars, roundVars
<1>3. /\ m \in net /\ m.caller = n /\ m.type = "appended" /\ InRound(m)
      /\ net' = net \ {m}
  BY <1>1 DEF Calls, InRound
<1>4. CASE m.term > currentTerm[n]
  <2>1. \A p \in Node : SameNode(p)
    BY <1>1, <1>2, <1>4 DEF SameNode
  <2> QED
    BY <1>3, <2>1, SameBroadcast
<1>5. CASE ~(m.term > currentTerm[n])
  <2>1. m.peer \in Node \ {n} /\ m.ok \in BOOLEAN /\ m.term \in Nat /\ OfItsRound(m)
    BY <1>3, MessageParts DEF BroadcastInv, OfItsRound
  <2>2. /\ currentTerm[n] \in Nat /\ Len(log[n]) \in Nat
        /\ nextIndex[n][m.peer] \in Nat /\ matchIndex[n][m.peer] \in Nat
    <3>1. log[n] \in Seq(Entry) /\ currentTerm[n] \in Nat
      BY DEF TypeOK
    <3>2. nextIndex[n] \in [Node -> Nat] /\ matchIndex[n] \in [Node -> Nat]
      BY DEF TypeOK
    <3> QED
      BY <2>1, <3>1, <3>2, LenProperties
  <2> DEFINE next == IF m.ok THEN Len(log[n]) + 1
                     ELSE IF nextIndex[n][m.peer] = 0 THEN MaxUint
                     ELSE nextIndex[n][m.peer] - 1
             match == IF m.ok THEN Len(log[n]) ELSE matchIndex[n][m.peer]
  <2>3. /\ nextIndex' = [nextIndex EXCEPT ![n][m.peer] = next]
        /\ matchIndex' = [matchIndex EXCEPT ![n][m.peer] = match]
    BY <1>1, <1>5 DEF Covered
  <2>4. leading[n] => next \in 1..(Len(log[n]) + 1) /\ match <= Len(log[n])
    <3> SUFFICES ASSUME leading[n]
                 PROVE  next \in 1..(Len(log[n]) + 1) /\ match <= Len(log[n])
      OBVIOUS
    <3>1. /\ nextIndex[n][m.peer] \in 1..(Len(log[n]) + 1)
          /\ matchIndex[n][m.peer] <= Len(log[n])
      BY <2>1 DEF BroadcastInv, InRange
    <3>2. ~m.ok => nextIndex[n][m.peer] >= 2
      <4>1. m.term <= currentTerm[n]
        BY <1>5, <2>1, <2>2
      <4> QED
        BY <1>3, <2>1, <4>1 DEF OfItsRound, MayStepBack
    <3>3. CASE m.ok
      BY <2>2, <3>3
    <3>4. CASE ~m.ok
      BY <2>2, <3>1, <3>2, <3>4
    <3> QED
      BY <3>3, <3>4
  <2> HIDE DEF next, match
  <2>5. \A p, q \in Node : ~(p = n /\ q = m.peer) =>
           nextIndex'[p][q] = nextIndex[p][q] /\ matchIndex'[p][q] = matchIndex[p][q]
    BY <2>1, <2>3 DEF TypeOK
  <2>6. nextIndex'[n][m.peer] = next /\ matchIndex'[n][m.peer] = match
    BY <2>1, <2>3 DEF TypeOK
  <2>7. ASSUME NEW p \in Node PROVE InRange(p)'
    <3> SUFFICES ASSUME leading[p], NEW q \in Node \ {p}
                 PROVE  /\ nextIndex'[p][q] \in 1..(Len(log[p]) + 1)
                        /\ matchIndex'[p][q] <= Len(log[p])
      BY <1>2 DEF InRange
    <3>1. CASE p = n /\ q = m.peer
      BY <2>4, <2>6, <3>1
    <3>2. CASE ~(p = n /\ q = m.peer)
      BY <2>5, <3>2 DEF InRange, BroadcastInv
    <3> QED
      BY <3>1, <3>2
  <2>8. ASSUME NEW x \in net', InRound(x) PROVE OfItsRound(x)'
    <3>1. x \in net /\ x # m /\ OfItsRound(x) /\ x.caller \in Node /\ x.peer \in Node
      BY <1>3, <2>8, MessageParts DEF BroadcastInv
    <3>2. ~(x.caller = n /\ x.peer = m.peer)
      BY <1>3, <2>8, <3>1 DEF BroadcastInv, OnePerPeer
    <3>3. nextIndex'[x.caller][x.peer] = nextIndex[x.caller][x.peer]
      BY <2>5, <3>1, <3>2
    <3> QED
      BY <1>2, <3>1, <3>3 DEF OfItsRound, BuiltFromLog, MayStepBack
  <2>9. OnePerPeer(net')
    BY <1>3 DEF OnePerPeer, BroadcastInv
  <2> QED
    BY <2>7, <2>8, <2>9 DEF BroadcastInv, InRound, OnePerPeer
<1> QED
  BY <1>4, <1>5

LEMMA BroadcastNext ==
    TypeOK /\ LeadershipFlags /\ BroadcastInv /\ [Next]_vars => BroadcastInv'
<1> SUFFICES ASSUME TypeOK, LeadershipFlags, BroadcastInv, [Next]_vars
             PROVE  BroadcastInv'
  OBVIOUS
<1>1. CASE UNCHANGED vars
  <2>1. (\A p \in Node : SameNode(p)) /\ net' = net
    BY <1>1 DEF vars, diskVars, leaderVars, roundVars, SameNode
  <2> QED
    BY <2>1, SameBroadcast
<1>2. ASSUME NEW n \in Node, Election(n) PROVE BroadcastInv'
  <2>1. CASE TimerFires(n) \/ CheckAlreadyLeader(n) \/ CountVote(n)
    <3>1. (\A p \in Node : SameNode(p)) /\ net' \subseteq net
      BY <2>1 DEF TimerFires, CheckAlreadyLeader, CountVote, diskVars, leaderVars,
                  roundVars, SameNode
    <3> QED
      BY <3>1, SameBroadcast
  <2> QED
    BY <1>2, <2>1, StartElectionKeeps, StepDownKeeps, LoseElectionKeeps,
       WinElectionKeeps, RequestVoteKeeps DEF Election
<1>3. ASSUME NEW n \in Node, Replication(n) PROVE BroadcastInv'
  BY <1>3, StaleKeeps, AppendKeeps, StartBroadcastKeeps, CalcCommitKeeps,
     AppendAnswerKeeps, EndBroadcastKeeps DEF Replication
<1>4. ASSUME NEW n \in Node, NEW v \in Value, CheckLeader(n, v) PROVE BroadcastInv'
  <2>1. (\A p \in Node : SameNode(p)) /\ net' = net
    BY <1>4 DEF CheckLeader, diskVars, leaderVars, roundVars, SameNode
  <2> QED
    BY <2>1, SameBroadcast
<1>5. ASSUME NEW n \in Node, Failure(n) PROVE BroadcastInv'
  BY <1>5, RebootKeeps
<1> QED
  BY <1>1, <1>2, <1>3, <1>4, <1>5, ApplyRequestKeeps DEF Next, IdleTick, Client

(* Every message of a broadcast stands for the log and the arrays of its   *)
(* sender as they are now (raft.go:147-219, 258-285).                      *)
THEOREM BroadcastInvariant == Spec => []BroadcastInv
<1>1. Init => BroadcastInv
  BY DEF Init, BroadcastInv, OnePerPeer, InRange
<1> QED
  BY <1>1, BroadcastNext, TypeCorrect, LeaderHasState, PTL DEF Spec

(* A successful answer covers the log as it is when it comes, which is     *)
(* what leaderHB takes it for (raft.go:206-207).                           *)
THEOREM AnswersCoverTheLog == Spec => []RequestCoversLog
<1>1. BroadcastInv => RequestCoversLog
  BY DEF BroadcastInv, InRound, OfItsRound, BuiltFromLog, RequestCoversLog
<1> QED
  BY <1>1, BroadcastInvariant, PTL

(* The leader's arrays stay inside its log, and NextIndex never wraps      *)
(* (raft.go:153-162, 209).                                                 *)
THEOREM NextIndexStaysInLog == Spec => []NextIndexInRange
<1>1. BroadcastInv => NextIndexInRange
  BY DEF BroadcastInv, InRange, NextIndexInRange
<1> QED
  BY <1>1, BroadcastInvariant, PTL


-----------------------------------------------------------------------------
(* CommitChanges.                                                          *)

Gapless(n) == Len(applied[n]) = lastApplied[n] /\ lastApplied[n] <= commitIndex[n]

LEMMA GaplessMeans == AppliedGapless <=> \A n \in Node : Gapless(n)
BY DEF AppliedGapless, Gapless

(* CommitChanges hands on as many entries as lastApplied moves, also when  *)
(* it reads past the end of the log.                                       *)
LEMMA CommitGapless ==
    ASSUME TypeOK, AppliedGapless, NEW n \in Node, NEW entries \in Seq(Entry),
           NEW commit \in Nat, CommitChanges(n, entries, commit)
    PROVE  AppliedGapless'
<1> DEFINE limit == CommitLimit(entries, commit)
           extra == IF limit > Len(entries) /\ lastApplied[n] < limit
                      THEN <<Overrun>> ELSE <<>>
           first == FirstToApply(n)
           last == limit - Len(extra)
           handed == SubSeq(entries, first, last)
<1>1. Len(entries) \in Nat
  BY LenProperties
<1>2. limit \in Nat /\ limit <= Len(entries) + 1 /\ limit <= commit
  BY <1>1 DEF CommitLimit
<1>3. /\ extra \in Seq(Entry)
      /\ Len(extra) = IF limit > Len(entries) /\ lastApplied[n] < limit THEN 1 ELSE 0
  <2>1. <<Overrun>> \in Seq(Entry) /\ Len(<<Overrun>>) = 1
    BY DEF Overrun, Entry
  <2>2. <<>> \in Seq(Entry) /\ Len(<<>>) = 0
    OBVIOUS
  <2> HIDE DEF limit
  <2> QED
    BY <2>1, <2>2
<1>4. lastApplied[n] \in Nat /\ lastApplied[n] <= limit /\ first = lastApplied[n] + 1
  BY DEF TypeOK, CommitChanges, FirstToApply
<1> HIDE DEF limit, extra, first
<1>5. /\ first \in Int /\ last \in Int
      /\ \A i \in first..last : entries[i] \in Entry
      /\ last = lastApplied[n] + (last - first + 1) /\ last - first + 1 \in Nat
  <2>1. last \in Int /\ last >= lastApplied[n] /\ (last > lastApplied[n] => last <= Len(entries))
    BY <1>1, <1>2, <1>3, <1>4
  <2>2. \A i \in first..last : i \in 1..Len(entries)
    BY <1>1, <1>4, <2>1
  <2>3. \A i \in first..last : entries[i] \in Entry
    BY <2>2, ElementOfSeq
  <2> HIDE DEF last
  <2>4. first \in Int /\ last \in Int
    BY <1>4, <2>1
  <2>5. last = lastApplied[n] + (last - first + 1) /\ last - first + 1 \in Nat
    BY <1>4, <2>1
  <2> QED
    BY <2>3, <2>4, <2>5
<1>6. handed \in Seq(Entry) /\ Len(handed) = last - first + 1
  BY <1>5, SubSeqProperties
<1>7. applied' = [applied EXCEPT ![n] = applied[n] \o handed \o extra]
  BY DEF CommitChanges, limit, extra, first
<1>8. applied[n] \in Seq(Entry) /\ Len(applied[n]) = lastApplied[n]
  BY DEF TypeOK, AppliedGapless
<1> HIDE DEF handed
<1>9. Len(applied[n] \o handed \o extra) = limit
  <2>1. /\ applied[n] \o handed \in Seq(Entry)
        /\ Len(applied[n] \o handed) = Len(applied[n]) + Len(handed)
    BY <1>6, <1>8, ConcatProperties
  <2>2. Len(applied[n] \o handed \o extra) = Len(applied[n] \o handed) + Len(extra)
    BY <1>3, <2>1, ConcatProperties
  <2>3. Len(extra) \in Nat
    BY <1>3
  <2> QED
    BY <1>2, <1>4, <1>5, <1>6, <1>8, <2>1, <2>2, <2>3
<1>10. Gapless(n)'
  <2>1. commitIndex'[n] = commit /\ lastApplied'[n] = limit
    BY DEF CommitChanges, TypeOK, limit
  <2>2. applied'[n] = applied[n] \o handed \o extra
    BY <1>7 DEF TypeOK
  <2> QED
    BY <1>2, <1>9, <2>1, <2>2 DEF Gapless
<1>11. ASSUME NEW p \in Node \ {n} PROVE Gapless(p)'
  <2>1. /\ commitIndex'[p] = commitIndex[p] /\ lastApplied'[p] = lastApplied[p]
        /\ applied'[p] = applied[p]
    BY <1>7 DEF CommitChanges, TypeOK
  <2> QED
    BY <2>1, GaplessMeans DEF Gapless
<1> QED
  BY <1>10, <1>11 DEF AppliedGapless, Gapless

LEMMA SameCommit ==
    ASSUME AppliedGapless, UNCHANGED commitVars PROVE AppliedGapless'
BY DEF AppliedGapless, commitVars

LEMMA RebootGapless ==
    ASSUME TypeOK, AppliedGapless, NEW n \in Node, Reboot(n)
    PROVE  AppliedGapless'
<1>1. /\ commitIndex' = [commitIndex EXCEPT ![n] = 0]
      /\ lastApplied' = [lastApplied EXCEPT ![n] = 0]
      /\ applied' = [applied EXCEPT ![n] = <<>>]
  BY DEF Reboot
<1>2. Gapless(n)'
  <2>1. commitIndex'[n] = 0 /\ lastApplied'[n] = 0 /\ applied'[n] = <<>>
    BY <1>1 DEF TypeOK
  <2> QED
    BY <2>1 DEF Gapless
<1>3. ASSUME NEW p \in Node \ {n} PROVE Gapless(p)'
  <2>1. /\ commitIndex'[p] = commitIndex[p] /\ lastApplied'[p] = lastApplied[p]
        /\ applied'[p] = applied[p]
    BY <1>1 DEF TypeOK
  <2> QED
    BY <2>1, GaplessMeans DEF Gapless
<1> QED
  BY <1>2, <1>3 DEF AppliedGapless, Gapless

LEMMA GaplessNext == TypeOK /\ AppliedGapless /\ [Next]_vars => AppliedGapless'
<1> SUFFICES ASSUME TypeOK, AppliedGapless, [Next]_vars PROVE AppliedGapless'
  OBVIOUS
<1>1. CASE UNCHANGED vars
  BY <1>1, SameCommit DEF vars
<1>2. ASSUME NEW n \in Node, Election(n) PROVE AppliedGapless'
  <2>1. UNCHANGED commitVars
    BY <1>2 DEF Election, TimerFires, CheckAlreadyLeader, StartElection, CountVote,
                StepDown, LoseElection, WinElection, HandleRequestVote
  <2> QED
    BY <2>1, SameCommit
<1>3. ASSUME NEW n \in Node, Replication(n) PROVE AppliedGapless'
  <2>1. CASE AcceptAppend(n)
    <3>1. PICK m \in net : AcceptAppend(n)!2!(m)
      BY <2>1 DEF AcceptAppend
    <3>2. m \in AppendRequest
      BY <3>1, MessageParts
    <3>3. m.entries \in Seq(Entry) /\ m.commit \in Nat
      BY <3>2 DEF AppendRequest
    <3>4. Corrected(n, m) \o m.entries \in Seq(Entry)
      BY <3>2, <3>3, CorrectedType, ConcatProperties
    <3>5. log'[n] \in Seq(Entry)
      BY <3>1, <3>4 DEF TypeOK
    <3>6. Larger(commitIndex[n], m.commit) \in Nat
      BY <3>3 DEF Larger, TypeOK
    <3> QED
      BY <3>1, <3>5, <3>6, CommitGapless
  <2>2. CASE CalcCommit(n)
    <3>1. PICK idx \in {matchIndex[n][m] : m \in Node} :
             CommitChanges(n, log[n], idx) \/ UNCHANGED commitVars
      BY <2>2 DEF CalcCommit
    <3>2. idx \in Nat /\ log[n] \in Seq(Entry)
      BY DEF TypeOK
    <3> QED
      BY <3>1, <3>2, CommitGapless, SameCommit
  <2>3. CASE RejectStaleAppend(n) \/ RejectMismatch(n) \/ PanicInAppend(n)
               \/ StartBroadcast(n) \/ HandleAppendAnswer(n) \/ EndBroadcast(n)
    <3>1. UNCHANGED commitVars
      BY <2>3 DEF RejectStaleAppend, RejectMismatch, PanicInAppend, StartBroadcast,
                  HandleAppendAnswer, EndBroadcast
    <3> QED
      BY <3>1, SameCommit
  <2> QED
    BY <1>3, <2>1, <2>2, <2>3 DEF Replication
<1>4. ASSUME NEW n \in Node, Client(n) PROVE AppliedGapless'
  <2>1. UNCHANGED commitVars
    BY <1>4 DEF Client, CheckLeader, ApplyRequest
  <2> QED
    BY <2>1, SameCommit
<1>5. ASSUME NEW n \in Node, Failure(n) PROVE AppliedGapless'
  BY <1>5, RebootGapless DEF Failure, Crash, CrashInVote, CrashInAppend
<1> QED
  BY <1>1, <1>2, <1>3, <1>4, <1>5 DEF Next, IdleTick

(* commitQueue gets every index once and in order, up to lastApplied and   *)
(* never past commitIndex (env.go:50-75).                                  *)
THEOREM EveryIndexOnce == Spec => []AppliedGapless
<1>1. Init => AppliedGapless
  BY DEF Init, AppliedGapless
<1> QED
  BY <1>1, GaplessNext, TypeCorrect, PTL DEF Spec

(* Of two nodes and more, the leader alone is no majority: the commit      *)
(* index is an index that some peer has too, so inside the log, and not    *)
(* the leader's own MaxUint (raft.go:222-256).                             *)
LEMMA CommitInsideLog ==
    ASSUME TypeOK, NextIndexInRange, Cardinality(Node) > 1,
           NEW n \in Node, leading[n], NEW m \in Node,
           IsCommitIndex(matchIndex[n], matchIndex[n][m])
    PROVE  matchIndex[n][m] <= Len(log[n])
<1> DEFINE idx == matchIndex[n][m]
           S == {p \in Node : matchIndex[n][p] >= idx}
<1>1. \A p \in Node : matchIndex[n][p] \in Nat
  BY DEF TypeOK
<1>2. Len(log[n]) \in Nat
  BY LenProperties DEF TypeOK
<1>3. Cardinality(S) > Cardinality(Node) \div 2
  BY DEF IsCommitIndex, Majority
<1>4. PICK p \in S : p # n
  <2> SUFFICES ASSUME S \subseteq {n} PROVE FALSE
    OBVIOUS
  <2>1. IsFiniteSet({n}) /\ Cardinality({n}) = 1
    BY FS_Singleton
  <2>2. Cardinality(S) <= 1
    <3> HIDE DEF S
    <3> QED
      BY <2>1, FS_Subset
  <2>3. Cardinality(Node) \in Nat /\ Cardinality(S) \in Nat
    <3>1. IsFiniteSet(S)
      BY <2>1, FS_Subset
    <3> QED
      BY <3>1, NodeAssumption, FS_CardinalityType
  <2>4. Cardinality(Node) \div 2 >= 1
    BY <2>3
  <2> HIDE DEF S
  <2> QED
    BY <1>3, <2>2, <2>3, <2>4
<1>5. matchIndex[n][p] <= Len(log[n])
  BY <1>4 DEF NextIndexInRange
<1> QED
  BY <1>1, <1>2, <1>4, <1>5

(* In a cluster of two nodes and more the leader's slice is inside its log *)
(* and starts where the last one ended (raft.go:268-271): CommitChanges    *)
(* does not panic in the goroutine of periodicLeaderHB.                    *)
THEOREM LeaderCommitsSafely ==
    ASSUME Cardinality(Node) > 1
    PROVE  Spec => []LeaderNeverPanics
<1>1. TypeOK /\ LeadershipFlags /\ NextIndexInRange /\ AppliedGapless => LeaderNeverPanics
  <2> SUFFICES ASSUME TypeOK, LeadershipFlags, NextIndexInRange, AppliedGapless,
                      NEW n \in Node, lock[n] = "append", NEW m \in Node,
                      IsCommitIndex(matchIndex[n], matchIndex[n][m]),
                      commitIndex[n] < matchIndex[n][m]
               PROVE  ~MayPanic(n, log[n], matchIndex[n][m])
    BY DEF LeaderNeverPanics
  <2>1. leading[n]
    BY DEF LeadershipFlags
  <2>2. matchIndex[n][m] <= Len(log[n])
    BY <2>1, CommitInsideLog
  <2>3. /\ Len(log[n]) \in Nat /\ matchIndex[n][m] \in Nat
        /\ lastApplied[n] \in Nat /\ commitIndex[n] \in Nat
    <3>1. log[n] \in Seq(Entry) /\ matchIndex[n] \in [Node -> Nat]
      BY DEF TypeOK
    <3> QED
      BY <3>1, LenProperties DEF TypeOK
  <2>4. lastApplied[n] <= commitIndex[n]
    BY DEF AppliedGapless
  <2>5. CommitLimit(log[n], matchIndex[n][m]) = matchIndex[n][m]
    BY <2>2, <2>3 DEF CommitLimit
  <2> QED
    BY <2>2, <2>3, <2>4, <2>5 DEF MayPanic
<1> QED
  BY <1>1, TypeCorrect, LeaderHasState, NextIndexStaysInLog, EveryIndexOnce, PTL

=============================================================================

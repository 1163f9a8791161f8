------------------------------- MODULE Raft -------------------------------
(***************************************************************************)
(* The replication core of the key-value store under 2/server: elections   *)
(* (raft.go), the replicated log as its critical sections see it           *)
(* (log.go, env.go), the leader's bookkeeping (state.go, env.go) and the   *)
(* requests that clients append to it (env.go).                            *)
(*                                                                         *)
(* Every node has one mutex, TEnv.m.  A handler runs entirely under it and *)
(* is one action.  An election and a heartbeat broadcast also run under    *)
(* it, but wait for their RPCs while they hold it: each is a ROUND, opened *)
(* by one action and closed by another, and lock[n] says which round holds *)
(* the mutex of n in between.                                              *)
(*                                                                         *)
(* An RPC belongs to the round of its caller while it is live.  When the   *)
(* round ends, the caller forgets its calls; a request that is already on  *)
(* its way may still be handled by the peer, later and out of order, and   *)
(* its answer goes nowhere.                                                *)
(*                                                                         *)
(* Log indexes are the program's: entry 0 is the sentinel that NewLog puts *)
(* in front, so len(Entries) is Len(log[n]) + 1.                           *)
(***************************************************************************)
EXTENDS Integers, Sequences, FiniteSets

CONSTANTS
    Node,         \* the nodes of nodesConfig
    Value,        \* client operations, each submitted at most once
    Nil,          \* a nil *uint64: no vote, no known leader
    MaxUint,      \* ^uint64(0), the leader's own entry in MatchIndex
    MaxTerm,      \* bound: no election is started beyond this term
    MaxAbandoned, \* bound: abandoned requests still on their way
    MaxCrashes    \* bound: crashes in a behaviour

ASSUME NodeAssumption == IsFiniteSet(Node) /\ Nil \notin Node
ASSUME BoundAssumption ==
    /\ MaxTerm \in Nat /\ MaxAbandoned \in Nat /\ MaxCrashes \in Nat
    /\ MaxUint \in Nat \ {0}

VARIABLES
    currentTerm, votedFor,             \* PState, on disk
    log,                               \* Log.Entries without the sentinel, on disk
    isLeader,                          \* RaftState.isLeader
    leading, nextIndex, matchIndex,    \* TEnv.leaderState # nil, and its arrays
    leaderId,                          \* TEnv.leaderId
    commitIndex, lastApplied,          \* TEnv
    applied,                           \* entries sent to commitQueue since the start
    lock, yes, no,                     \* who holds TEnv.m; the votes counted so far
    timer, gotHb,                      \* where periodicCheckHb is; RaftState.gotHb
    net,                               \* RPCs: requests on their way, answers to live calls
    fresh, checked,                    \* operations not submitted; past the leader check
    crashes,                           \* number of crashes so far
    votes, wins,                       \* history: votes granted, elections won,
    belated                            \* a late append request was acted on

diskVars   == <<currentTerm, votedFor, log>>
leaderVars == <<isLeader, leading, nextIndex, matchIndex, leaderId>>
commitVars == <<commitIndex, lastApplied, applied>>
roundVars  == <<lock, yes, no>>
timerVars  == <<timer, gotHb>>
clientVars == <<fresh, checked>>
history    == <<votes, wins, belated>>
vars == <<diskVars, leaderVars, commitVars, roundVars, timerVars, net,
          clientVars, crashes, history>>

-----------------------------------------------------------------------------
(* Types.                                                                  *)

Entry == [term : Nat, val : Value \cup {Nil}, chan : BOOLEAN]
\* An entry of commitQueue that was read past the end of Entries.  The spare
\* capacity behind them may hold an entry that was cut: no property tells.
Overrun == [term |-> 0, val |-> Nil, chan |-> FALSE]

VoteRequest == [type : {"vote"}, caller : Node, peer : Node, term : Nat,
                lastIdx : Nat, lastTerm : Nat, live : BOOLEAN]
AppendRequest == [type : {"append"}, caller : Node, peer : Node, term : Nat,
                  prev : Nat, prevTerm : Nat, entries : Seq(Entry),
                  commit : Nat, live : BOOLEAN]
Answer == [type : {"voted", "appended"}, caller : Node, peer : Node,
           term : Nat, ok : BOOLEAN, live : {TRUE}]
Request == VoteRequest \cup AppendRequest
Message == Request \cup Answer

TypeOK ==
    /\ currentTerm \in [Node -> Nat]
    /\ votedFor \in [Node -> Node \cup {Nil}]
    /\ log \in [Node -> Seq(Entry)]
    /\ isLeader \in [Node -> BOOLEAN]
    /\ leading \in [Node -> BOOLEAN]
    /\ nextIndex \in [Node -> [Node -> Nat]]
    /\ matchIndex \in [Node -> [Node -> Nat]]
    /\ leaderId \in [Node -> Node \cup {Nil}]
    /\ commitIndex \in [Node -> Nat]
    /\ lastApplied \in [Node -> Nat]
    /\ applied \in [Node -> Seq(Entry)]
    /\ lock \in [Node -> {"free", "vote", "append", "wait"}]
    /\ yes \in [Node -> SUBSET Node]
    /\ no \in [Node -> SUBSET Node]
    /\ timer \in [Node -> {"armed", "revote", "campaign"}]
    /\ gotHb \in [Node -> BOOLEAN]
    /\ net \subseteq Message
    /\ fresh \subseteq Value
    /\ checked \in [Node -> SUBSET Value]
    /\ crashes \in Nat
    /\ votes \subseteq Node \X Nat \X Node
    /\ wins \subseteq Nat \X Node
    /\ belated \in BOOLEAN

-----------------------------------------------------------------------------
(* Helpers.                                                                *)

\* Mutant of Majority: half of the nodes is enough.
HalfIsMajority(S) == Cardinality(S) >= Cardinality(Node) \div 2

\* More than len(nodesConfig) / 2, as both counters of an election compare.
Majority(S) == Cardinality(S) > Cardinality(Node) \div 2

TermAt(entries, i) == IF i = 0 THEN 0 ELSE entries[i].term
LastTerm(n) == TermAt(log[n], Len(log[n]))

\* Mutant of PrevIndex: NextIndex stands for the last index that matches.
PrevTwoBack(n, m) == IF nextIndex[n][m] < 2 THEN 0 ELSE nextIndex[n][m] - 2

\* NextIndex[i] - 1 in uint64, brought back into the log.
PrevIndex(n, m) ==
    LET prev == nextIndex[n][m] - 1
    IN  IF prev < 0 \/ prev > Len(log[n]) THEN Len(log[n]) ELSE prev

\* calcCommitIndex, as a relation: idx is the largest index of the array that
\* more than half of it reaches.  CommitIndex.tla runs the program's loop.
IsCommitIndex(match, idx) ==
    LET Reached(i) == Majority({m \in Node : match[m] >= i})
    IN  /\ \E m \in Node : match[m] = idx
        /\ Reached(idx)
        /\ \A m \in Node : Reached(match[m]) => match[m] <= idx

Larger(a, b) == IF a < b THEN b ELSE a

\* The JSON of an entry leaves statusChan behind.
Sent(entries) == [i \in DOMAIN entries |-> [entries[i] EXCEPT !.chan = FALSE]]

-----------------------------------------------------------------------------
(* RPCs and rounds.                                                        *)

Calls(n) == {m \in net : m.caller = n /\ m.live}
Pending(n) == {m \in Calls(n) : m.type \in {"vote", "append"}}
Abandoned(S) == {m \in S : ~m.live}
Abandon(S) == {[m EXCEPT !.live = FALSE] : m \in S}

\* The handler is done with request m: the answer exists only for a live call.
Answered(m, answer) == (net \ {m}) \cup (IF m.live THEN {answer} ELSE {})

VoteAnswer(m, term, ok) ==
    [type |-> "voted", caller |-> m.caller, peer |-> m.peer, term |-> term,
     ok |-> ok, live |-> TRUE]
AppendAnswer(m, term, ok) == [VoteAnswer(m, term, ok) EXCEPT !.type = "appended"]

\* Mutant of CloseCalls: the answers of the round are still there in the next.
AnswersKept(n, kept) ==
    /\ net' = (net \ Pending(n)) \cup kept
    /\ kept = {} \/ Cardinality(Abandoned(net) \cup kept) <= MaxAbandoned

\* The context of n's round is cancelled: answers are dropped, and of the
\* requests some (kept, the bound permitting) still reach their peers.
CloseCalls(n, kept) ==
    /\ net' = (net \ Calls(n)) \cup kept
    /\ kept = {} \/ Cardinality(Abandoned(net) \cup kept) <= MaxAbandoned

Unlock(n) ==
    /\ lock' = [lock EXCEPT ![n] = "free"]
    /\ yes' = [yes EXCEPT ![n] = {}]
    /\ no' = [no EXCEPT ![n] = {}]

\* env.leaderState = nil
DropLeaderState(n) ==
    /\ leading' = [leading EXCEPT ![n] = FALSE]
    /\ nextIndex' = [nextIndex EXCEPT ![n] = [m \in Node |-> 0]]
    /\ matchIndex' = [matchIndex EXCEPT ![n] = [m \in Node |-> 0]]

-----------------------------------------------------------------------------
(* A fresh cluster: no pstate.json, no log.json.                           *)

Init ==
    /\ currentTerm = [n \in Node |-> 0]
    /\ votedFor = [n \in Node |-> Nil]
    /\ log = [n \in Node |-> <<>>]
    /\ isLeader = [n \in Node |-> FALSE]
    /\ leading = [n \in Node |-> FALSE]
    /\ nextIndex = [n \in Node |-> [m \in Node |-> 0]]
    /\ matchIndex = [n \in Node |-> [m \in Node |-> 0]]
    /\ leaderId = [n \in Node |-> Nil]
    /\ commitIndex = [n \in Node |-> 0]
    /\ lastApplied = [n \in Node |-> 0]
    /\ applied = [n \in Node |-> <<>>]
    /\ lock = [n \in Node |-> "free"]
    /\ yes = [n \in Node |-> {}]
    /\ no = [n \in Node |-> {}]
    /\ timer = [n \in Node |-> "armed"]
    /\ gotHb = [n \in Node |-> FALSE]
    /\ net = {}
    /\ fresh = Value
    /\ checked = [n \in Node |-> {}]
    /\ crashes = 0
    /\ votes = {}
    /\ wins = {}
    /\ belated = FALSE

-----------------------------------------------------------------------------
(* Elections: periodicCheckHb and TryBecomeLeader.                         *)

\* The timer of a node that is not leader fires: a heartbeat since the last
\* time is consumed, without one the node goes for an election.
TimerFires(n) ==
    /\ timer[n] = "armed"
    /\ ~isLeader[n]
    /\ IF gotHb[n] THEN gotHb' = [gotHb EXCEPT ![n] = FALSE] /\ UNCHANGED timer
                   ELSE timer' = [timer EXCEPT ![n] = "revote"] /\ UNCHANGED gotHb
    /\ UNCHANGED <<diskVars, leaderVars, commitVars, roundVars, net,
                   clientVars, crashes, history>>

\* TryBecomeLeader looks at leaderState in a critical section of its own.
CheckAlreadyLeader(n) ==
    /\ timer[n] = "revote"
    /\ lock[n] = "free"
    /\ timer' = [timer EXCEPT ![n] = IF leading[n] THEN "armed" ELSE "campaign"]
    /\ UNCHANGED <<diskVars, leaderVars, commitVars, roundVars, gotHb, net,
                   clientVars, crashes, history>>

StartElection(n) ==
    LET term == currentTerm[n] + 1
    IN  /\ timer[n] = "campaign"
        /\ lock[n] = "free"
        /\ term <= MaxTerm
        /\ currentTerm' = [currentTerm EXCEPT ![n] = term]
        /\ votedFor' = [votedFor EXCEPT ![n] = n]
        /\ lock' = [lock EXCEPT ![n] = "vote"]
        /\ yes' = [yes EXCEPT ![n] = {n}]
        /\ net' = net \cup
             {[type |-> "vote", caller |-> n, peer |-> m, term |-> term,
               lastIdx |-> Len(log[n]), lastTerm |-> LastTerm(n),
               live |-> TRUE] : m \in Node \ {n}}
        /\ votes' = votes \cup {<<n, term, n>>}
        /\ UNCHANGED <<log, leaderVars, commitVars, no, timerVars, clientVars,
                       crashes, wins, belated>>

\* The loop over votedChan goes on while neither counter has its majority.
Undecided(n) == lock[n] = "vote" /\ ~Majority(yes[n]) /\ ~Majority(no[n])

CountVote(n) ==
    /\ Undecided(n)
    /\ \E m \in Calls(n) :
         /\ m.type = "voted"
         /\ m.term <= currentTerm[n]
         /\ yes' = IF m.ok THEN [yes EXCEPT ![n] = @ \cup {m.peer}] ELSE yes
         /\ no' = IF m.ok THEN no ELSE [no EXCEPT ![n] = @ \cup {m.peer}]
         /\ net' = net \ {m}
    /\ UNCHANGED <<diskVars, leaderVars, commitVars, lock, timerVars,
                   clientVars, crashes, history>>

\* An answer of a higher term ends the election.  A goroutine of
\* requestVoteFrom that reads CurrentTerm late, between the assignment and the
\* cancelled context, sends its request with the adopted term.
StepDown(n) ==
    /\ Undecided(n)
    /\ \E m \in Calls(n) :
         /\ m.type = "voted"
         /\ m.term > currentTerm[n]
         /\ currentTerm' = [currentTerm EXCEPT ![n] = m.term]
         /\ \E kept \in SUBSET Pending(n) : \E late \in SUBSET kept :
              CloseCalls(n, Abandon((kept \ late)
                                    \cup {[r EXCEPT !.term = m.term] : r \in late}))
    /\ votedFor' = [votedFor EXCEPT ![n] = Nil]
    /\ isLeader' = [isLeader EXCEPT ![n] = FALSE]
    /\ timer' = [timer EXCEPT ![n] = "armed"]
    /\ Unlock(n)
    /\ UNCHANGED <<log, leading, nextIndex, matchIndex, leaderId, commitVars,
                   gotHb, clientVars, crashes, history>>

\* A majority of refusals, or the context of the election times out.
LoseElection(n) ==
    /\ lock[n] = "vote"
    /\ ~Majority(yes[n])
    /\ \E kept \in SUBSET Pending(n) : CloseCalls(n, Abandon(kept))
    /\ isLeader' = [isLeader EXCEPT ![n] = FALSE]
    /\ timer' = [timer EXCEPT ![n] = "armed"]
    /\ Unlock(n)
    /\ UNCHANGED <<diskVars, leading, nextIndex, matchIndex, leaderId,
                   commitVars, gotHb, clientVars, crashes, history>>

WinElection(n) ==
    /\ lock[n] = "vote"
    /\ Majority(yes[n])
    /\ leaderId' = [leaderId EXCEPT ![n] = n]
    /\ leading' = [leading EXCEPT ![n] = TRUE]
    /\ nextIndex' = [nextIndex EXCEPT ![n] = [m \in Node |-> Len(log[n]) + 1]]
    /\ matchIndex' = [matchIndex EXCEPT ![n] =
                        [m \in Node |-> IF m = n THEN MaxUint ELSE 0]]
    /\ isLeader' = [isLeader EXCEPT ![n] = TRUE]
    /\ \E kept \in SUBSET Pending(n) : CloseCalls(n, Abandon(kept))
    /\ timer' = [timer EXCEPT ![n] = "armed"]
    /\ Unlock(n)
    /\ wins' = wins \cup {<<currentTerm[n], n>>}
    /\ UNCHANGED <<diskVars, commitVars, gotHb, clientVars, crashes, votes, belated>>

-----------------------------------------------------------------------------
(* HandleRequestVote.                                                      *)

\* Mutant of Voted: a request of the node's own term clears its vote.
VoteCleared(n, m) == IF m.term >= currentTerm[n] THEN Nil ELSE votedFor[n]

\* The vote of n in the term of the request, which may be a new one.
Voted(n, m) == IF m.term > currentTerm[n] THEN Nil ELSE votedFor[n]

\* Mutant of FlagAfterVote: isLeader is not stored on a newer term.
FlagKept(n, m) == isLeader[n]

\* isLeader once the request's term is known.
FlagAfterVote(n, m) == isLeader[n] /\ m.term <= currentTerm[n]

\* Mutant of UpToDate: the lengths of the logs are not compared.
TermUpToDate(n, m) == m.lastTerm >= LastTerm(n)

\* The candidate's log, compared with the voter's.
UpToDate(n, m) ==
    \/ m.lastTerm > LastTerm(n)
    \/ m.lastTerm = LastTerm(n) /\ m.lastIdx >= Len(log[n])

HandleRequestVote(n) ==
    /\ lock[n] = "free"
    /\ \E m \in net :
         /\ m.type = "vote" /\ m.peer = n
         /\ LET grant == /\ m.term >= currentTerm[n]
                         /\ Voted(n, m) = Nil
                         /\ UpToDate(n, m)
            IN  /\ currentTerm' = [currentTerm EXCEPT ![n] = Larger(@, m.term)]
                /\ votedFor' = [votedFor EXCEPT ![n] =
                                  IF grant THEN m.caller ELSE Voted(n, m)]
                /\ isLeader' = [isLeader EXCEPT ![n] = FlagAfterVote(n, m)]
                /\ IF m.term > currentTerm[n]
                     THEN DropLeaderState(n)
                     ELSE UNCHANGED <<leading, nextIndex, matchIndex>>
                /\ net' = Answered(m, VoteAnswer(m, currentTerm'[n], grant))
                /\ votes' = IF grant THEN votes \cup {<<n, m.term, m.caller>>} ELSE votes
    /\ UNCHANGED <<log, leaderId, commitVars, roundVars, timerVars, clientVars,
                   crashes, wins, belated>>

-----------------------------------------------------------------------------
(* Commit: TEnv.CommitChanges.                                             *)

\* The last index handed to commitQueue.  The bound is compared with
\* len(Entries), so an index just past the end is let through.
CommitLimit(entries, commit) ==
    IF Len(entries) + 1 < commit THEN Len(entries) ELSE commit

\* Entries[lastApplied + 1 : limit + 1] panics when it starts past its end;
\* a limit past the end of the log reads on into the spare capacity of the
\* slice, or panics too when there is none.
MayPanic(n, entries, commit) ==
    LET limit == CommitLimit(entries, commit)
    IN  lastApplied[n] > limit \/ limit > Len(entries)

\* Mutant of FirstToApply: the sentinel is counted twice.
SkipFirst(n) == lastApplied[n] + 2

FirstToApply(n) == lastApplied[n] + 1

CommitChanges(n, entries, commit) ==
    LET limit == CommitLimit(entries, commit)
        extra == IF limit > Len(entries) /\ lastApplied[n] < limit
                   THEN <<Overrun>> ELSE <<>>
    IN  /\ lastApplied[n] <= limit
        /\ commitIndex' = [commitIndex EXCEPT ![n] = commit]
        /\ lastApplied' = [lastApplied EXCEPT ![n] = limit]
        /\ applied' = [applied EXCEPT ![n] = 
             @ \o SubSeq(entries, FirstToApply(n), limit - Len(extra)) \o extra]

-----------------------------------------------------------------------------
(* HandleAppendEntries.                                                    *)

\* Mutant of Stale: a request of the term before is let through.
StaleByTwo(n, m) == m.term + 1 < currentTerm[n]

Stale(n, m) == m.term < currentTerm[n]

\* The request is not older than the node: whoever sent it is the leader.
FollowLeader(n, m) ==
    /\ gotHb' = [gotHb EXCEPT ![n] = TRUE]
    /\ isLeader' = [isLeader EXCEPT ![n] = FALSE]
    /\ DropLeaderState(n)
    /\ leaderId' = [leaderId EXCEPT ![n] = m.caller]
    /\ currentTerm' = [currentTerm EXCEPT ![n] = m.term]
    /\ votedFor' = [votedFor EXCEPT ![n] = m.caller]

\* Mutant of Fits: the last entry of the log counts as past its end.
FitsBeforeEnd(n, m) ==
    m.prev < Len(log[n]) /\ TermAt(log[n], m.prev) = m.prevTerm

\* Log.CheckAndCorrect: cut after prev; on another term at prev cut prev too.
Fits(n, m) == m.prev <= Len(log[n]) /\ TermAt(log[n], m.prev) = m.prevTerm
Corrected(n, m) ==
    IF m.prev > Len(log[n]) THEN log[n]
    ELSE SubSeq(log[n], 1, IF Fits(n, m) THEN m.prev ELSE m.prev - 1)

RejectStaleAppend(n) ==
    /\ lock[n] = "free"
    /\ \E m \in net :
         /\ m.type = "append" /\ m.peer = n
         /\ Stale(n, m)
         /\ net' = Answered(m, AppendAnswer(m, currentTerm[n], FALSE))
    /\ UNCHANGED <<diskVars, leaderVars, commitVars, roundVars, timerVars,
                   clientVars, crashes, history>>

RejectMismatch(n) ==
    /\ lock[n] = "free"
    /\ \E m \in net :
         /\ m.type = "append" /\ m.peer = n
         /\ ~Stale(n, m)
         /\ ~Fits(n, m)
         /\ FollowLeader(n, m)
         /\ log' = [log EXCEPT ![n] = Corrected(n, m)]
         /\ net' = Answered(m, AppendAnswer(m, m.term, FALSE))
         /\ belated' = (belated \/ ~m.live)
    /\ UNCHANGED <<commitVars, roundVars, timer, clientVars, crashes, votes, wins>>

\* The request is appended; what the leader has committed is handed on.
AcceptAppend(n) ==
    /\ lock[n] = "free"
    /\ \E m \in net :
         /\ m.type = "append" /\ m.peer = n
         /\ ~Stale(n, m)
         /\ Fits(n, m)
         /\ FollowLeader(n, m)
         /\ log' = [log EXCEPT ![n] = Corrected(n, m) \o m.entries]
         /\ CommitChanges(n, log'[n], Larger(commitIndex[n], m.commit))
         /\ net' = Answered(m, AppendAnswer(m, m.term, TRUE))
         /\ belated' = (belated \/ ~m.live)
    /\ UNCHANGED <<roundVars, timer, clientVars, crashes, votes, wins>>

\* CommitChanges panics: net/http recovers, the deferred Unlock releases the
\* mutex, the log stays as it is and the caller gets no answer.
PanicInAppend(n) ==
    /\ lock[n] = "free"
    /\ \E m \in net :
         /\ m.type = "append" /\ m.peer = n
         /\ ~Stale(n, m)
         /\ Fits(n, m)
         /\ FollowLeader(n, m)
         /\ log' = [log EXCEPT ![n] = Corrected(n, m) \o m.entries]
         /\ MayPanic(n, log'[n], Larger(commitIndex[n], m.commit))
         /\ net' = net \ {m}
         /\ belated' = (belated \/ ~m.live)
    /\ UNCHANGED <<commitVars, roundVars, timer, clientVars, crashes, votes, wins>>

-----------------------------------------------------------------------------
(* The leader's heartbeat: leaderHBBroadcast and leaderHB.                 *)

StartBroadcast(n) ==
    /\ isLeader[n]
    /\ lock[n] = "free"
    /\ lock' = [lock EXCEPT ![n] = "append"]
    /\ net' = net \cup
         {[type |-> "append", caller |-> n, peer |-> m, term |-> currentTerm[n],
           prev |-> PrevIndex(n, m), prevTerm |-> TermAt(log[n], PrevIndex(n, m)),
           entries |-> Sent(SubSeq(log[n], PrevIndex(n, m) + 1, Len(log[n]))),
           commit |-> commitIndex[n], live |-> TRUE] : m \in Node \ {n}}
    /\ UNCHANGED <<diskVars, leaderVars, commitVars, yes, no, timerVars,
                   clientVars, crashes, history>>

\* calcCommitIndex runs beside the goroutines of leaderHB: it sees the answers
\* handled so far, and the goroutines that have not built their request yet
\* (late) put the new commit index in it.
CalcCommit(n) ==
    /\ lock[n] = "append"
    /\ lock' = [lock EXCEPT ![n] = "wait"]
    /\ \E idx \in {matchIndex[n][m] : m \in Node} :
         /\ IsCommitIndex(matchIndex[n], idx)
         /\ IF commitIndex[n] < idx
              THEN /\ CommitChanges(n, log[n], idx)
                   /\ \E late \in SUBSET Pending(n) :
                        net' = (net \ late) \cup {[m EXCEPT !.commit = idx] : m \in late}
              ELSE UNCHANGED <<commitVars, net>>
    /\ UNCHANGED <<diskVars, leaderVars, yes, no, timerVars, clientVars,
                   crashes, history>>

\* Mutant of Covered: len(Entries) taken for the last index.
CoveredTooFar(n) == Len(log[n]) + 1

\* Mutant of Covered: the sentinel is taken off twice.
CoveredTooLow(n) == Len(log[n]) - 1

\* The index a successful answer stands for: the last one of the log as it is
\* when the answer comes.
Covered(n) == Len(log[n])

\* leaderHB gets its answer.  NextIndex and MatchIndex are taken from the log
\* as it is now, not from the request; a failure steps NextIndex back in uint64.
HandleAppendAnswer(n) ==
    /\ lock[n] \in {"append", "wait"}
    /\ \E m \in Calls(n) :
         /\ m.type = "appended"
         /\ net' = net \ {m}
         /\ IF m.term > currentTerm[n]
              THEN /\ isLeader' = [isLeader EXCEPT ![n] = FALSE]
                   /\ UNCHANGED <<nextIndex, matchIndex>>
              ELSE /\ nextIndex' = [nextIndex EXCEPT ![n][m.peer] =
                        IF m.ok THEN Len(log[n]) + 1
                        ELSE IF @ = 0 THEN MaxUint ELSE @ - 1]
                   /\ matchIndex' = [matchIndex EXCEPT ![n][m.peer] =
                        IF m.ok THEN Covered(n) ELSE @]
                   /\ UNCHANGED isLeader
    /\ UNCHANGED <<diskVars, leading, leaderId, commitVars, roundVars,
                   timerVars, clientVars, crashes, history>>

\* wg.Wait returns: every call is answered, has failed or timed out.
EndBroadcast(n) ==
    /\ lock[n] = "wait"
    /\ \E kept \in SUBSET Pending(n) : CloseCalls(n, Abandon(kept))
    /\ Unlock(n)
    /\ UNCHANGED <<diskVars, leaderVars, commitVars, timerVars, clientVars,
                   crashes, history>>

-----------------------------------------------------------------------------
(* Client operations: the check of handleCreate, handleUpdateOrCas and      *)
(* handleDelete, and the append of ApplyRequestSync, are two critical       *)
(* sections.                                                                *)

CheckLeader(n, v) ==
    /\ v \in fresh
    /\ lock[n] = "free"
    /\ leading[n]
    /\ fresh' = fresh \ {v}
    /\ checked' = [checked EXCEPT ![n] = @ \cup {v}]
    /\ UNCHANGED <<diskVars, leaderVars, commitVars, roundVars, timerVars, net,
                   crashes, history>>

\* The entry is built without its Term, which therefore stays 0.
NewEntry(v) == [term |-> 0, val |-> v, chan |-> TRUE]

\* Mutant of ApplyRequest: the append does not take the mutex.
ApplyUnlocked(n, v) ==
    /\ v \in checked[n]
    /\ checked' = [checked EXCEPT ![n] = @ \ {v}]
    /\ log' = [log EXCEPT ![n] = Append(@, NewEntry(v))]
    /\ UNCHANGED <<currentTerm, votedFor, leaderVars, commitVars, roundVars,
                   timerVars, net, fresh, crashes, history>>

ApplyRequest(n, v) ==
    /\ v \in checked[n]
    /\ lock[n] = "free"
    /\ checked' = [checked EXCEPT ![n] = @ \ {v}]
    /\ log' = [log EXCEPT ![n] = Append(@, NewEntry(v))]
    /\ UNCHANGED <<currentTerm, votedFor, leaderVars, commitVars, roundVars,
                   timerVars, net, fresh, crashes, history>>

-----------------------------------------------------------------------------
(* Crashes.  The process dies and starts again from pstate.json and        *)
(* log.json; being down for a while looks the same as being slow.          *)

Reboot(n) ==
    /\ crashes < MaxCrashes
    /\ crashes' = crashes + 1
    /\ isLeader' = [isLeader EXCEPT ![n] = FALSE]
    /\ DropLeaderState(n)
    /\ leaderId' = [leaderId EXCEPT ![n] = Nil]
    /\ commitIndex' = [commitIndex EXCEPT ![n] = 0]
    /\ lastApplied' = [lastApplied EXCEPT ![n] = 0]
    /\ applied' = [applied EXCEPT ![n] = <<>>]
    /\ Unlock(n)
    /\ timer' = [timer EXCEPT ![n] = "armed"]
    /\ gotHb' = [gotHb EXCEPT ![n] = FALSE]
    /\ checked' = [checked EXCEPT ![n] = {}]
    /\ UNCHANGED <<fresh, votes, wins>>

Crash(n) ==
    /\ Reboot(n)
    /\ \E kept \in SUBSET Pending(n) : CloseCalls(n, Abandon(kept))
    /\ log' = [log EXCEPT ![n] = Sent(@)]
    /\ UNCHANGED <<currentTerm, votedFor, belated>>

\* The process dies inside HandleRequestVote, after the new term is on disk
\* and before the vote is.
CrashInVote(n) ==
    /\ lock[n] = "free"
    /\ Reboot(n)
    /\ \E m \in net :
         /\ m.type = "vote" /\ m.peer = n
         /\ m.term > currentTerm[n]
         /\ currentTerm' = [currentTerm EXCEPT ![n] = m.term]
         /\ net' = net \ {m}
    /\ votedFor' = [votedFor EXCEPT ![n] = Nil]
    /\ log' = [log EXCEPT ![n] = Sent(@)]
    /\ UNCHANGED belated

\* The process dies inside HandleAppendEntries: the term is on disk, the log
\* is as it was, or cut, or cut with the first k entries appended.
CrashInAppend(n) ==
    /\ lock[n] = "free"
    /\ Reboot(n)
    /\ \E m \in net :
         /\ m.type = "append" /\ m.peer = n
         /\ ~Stale(n, m)
         /\ currentTerm' = [currentTerm EXCEPT ![n] = m.term]
         /\ votedFor' = [votedFor EXCEPT ![n] = m.caller]
         /\ \E stored \in {log[n], Corrected(n, m)} \cup
                 {Corrected(n, m) \o SubSeq(m.entries, 1, k) :
                    k \in IF Fits(n, m) THEN 0..Len(m.entries) ELSE {}} :
              log' = [log EXCEPT ![n] = Sent(stored)]
         /\ net' = net \ {m}
         /\ belated' = (belated \/ ~m.live)

-----------------------------------------------------------------------------
\* A tick with nothing to do: the election timer of a leader, the heartbeat
\* ticker of a node that leads no more.
IdleTick == UNCHANGED vars

Election(n) ==
    \/ TimerFires(n) \/ CheckAlreadyLeader(n) \/ StartElection(n)
    \/ CountVote(n) \/ StepDown(n) \/ LoseElection(n) \/ WinElection(n)
    \/ HandleRequestVote(n)

Replication(n) ==
    \/ RejectStaleAppend(n) \/ RejectMismatch(n) \/ AcceptAppend(n)
    \/ PanicInAppend(n)
    \/ StartBroadcast(n) \/ CalcCommit(n) \/ HandleAppendAnswer(n)
    \/ EndBroadcast(n)

Client(n) == \E v \in Value : CheckLeader(n, v) \/ ApplyRequest(n, v)

Failure(n) == Crash(n) \/ CrashInVote(n) \/ CrashInAppend(n)

Next == IdleTick
        \/ \E n \in Node : Election(n) \/ Replication(n) \/ Client(n) \/ Failure(n)

Spec == Init /\ [][Next]_vars

=============================================================================

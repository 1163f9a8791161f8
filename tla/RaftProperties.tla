-------------------------- MODULE RaftProperties --------------------------
(***************************************************************************)
(* What the replication core promises, over the states and steps of Raft.  *)
(***************************************************************************)
EXTENDS Raft

(* At most one node wins the election of a term (raft.go:334-373): the     *)
(* votes of a term, counted while the candidate waits under its mutex,     *)
(* never give two of them a majority.                                      *)
ElectionSafety ==
    \A w1, w2 \in wins : w1[1] = w2[1] => w1[2] = w2[2]

(* A node votes for at most one candidate per term (raft.go:54-88), also   *)
(* when it restarts in between, when it learns of a leader and takes that  *)
(* for its vote (raft.go:422), and when it is a candidate itself.          *)
VoteOnce ==
    \A v1, v2 \in votes : v1[1] = v2[1] /\ v1[2] = v2[2] => v1[3] = v2[3]

(* Why there is one leader per term.  Every vote is covered by what the     *)
(* voter has in pstate.json, so that it is not given away again; every     *)
(* call and every answer of an election belongs to the election its caller *)
(* is holding now, and what it counts are votes of that election's term:   *)
(* no answer outlives the round it was asked in (raft.go:317-378).         *)
VotesOnDisk ==
    \A v \in votes :
        /\ v[2] <= currentTerm[v[1]]
        /\ v[2] = currentTerm[v[1]] => votedFor[v[1]] # Nil
AsksInRound ==
    \A m \in net : m.type = "vote" /\ m.live
        => lock[m.caller] = "vote" /\ m.term = currentTerm[m.caller]
AnswersAreVotes ==
    \A m \in net : m.type = "voted"
        => /\ lock[m.caller] = "vote"
           /\ m.ok => <<m.peer, currentTerm[m.caller], m.caller>> \in votes
CountedAreVotes ==
    \A n \in Node : \A p \in yes[n] :
        lock[n] = "vote" /\ <<p, currentTerm[n], n>> \in votes
WinsHaveMajority ==
    \A w \in wins : \E Q \in SUBSET Node :
        Majority(Q) /\ \A q \in Q : <<q, w[1], w[2]>> \in votes
ElectionInv ==
    /\ VoteOnce
    /\ VotesOnDisk
    /\ AsksInRound
    /\ AnswersAreVotes
    /\ CountedAreVotes
    /\ WinsHaveMajority

(* What is in pstate.json only moves forward: the term never decreases, and *)
(* a vote is not forgotten before the term ends, whatever handler, election *)
(* or restart takes the step.                                              *)
TermAndVoteStick ==
    [][\A n \in Node :
          /\ currentTerm'[n] >= currentTerm[n]
          /\ currentTerm'[n] = currentTerm[n] /\ votedFor[n] # Nil
                => votedFor'[n] # Nil]_vars

(* Whoever believes to lead has a leaderState to lead with, for as long as *)
(* its goroutines use it: leaderHB and calcCommitIndex dereference         *)
(* env.leaderState without a test (raft.go:153, 206-209, 268), although    *)
(* isLeader is an atomic that is stored apart from it.                     *)
LeadershipFlags ==
    \A n \in Node : isLeader[n] \/ lock[n] \in {"append", "wait"} => leading[n]

(* The leader's arrays stay inside its log, so NextIndex - 1 is an index of *)
(* Entries and never wraps (raft.go:153-162, 209), however many refusals   *)
(* NextIndex was stepped back for and whenever the answers come.           *)
NextIndexInRange ==
    \A n \in Node : leading[n] =>
        \A m \in Node \ {n} : /\ nextIndex[n][m] \in 1..(Len(log[n]) + 1)
                              /\ matchIndex[n][m] <= Len(log[n])

(* NextIndex and MatchIndex are set from the length of the log at the time *)
(* of the answer (raft.go:206-207), not from the request: right only as    *)
(* long as the log does not grow while a round is open.                    *)
RequestCoversLog ==
    \A m \in net : m.type = "append" /\ m.live =>
        m.prev + Len(m.entries) = Len(log[m.caller])

(* commitQueue gets every index once and in order, up to lastApplied and   *)
(* never past commitIndex (env.go:50-75), also after a panic half way.     *)
AppliedGapless ==
    \A n \in Node : /\ Len(applied[n]) = lastApplied[n]
                    /\ lastApplied[n] <= commitIndex[n]

(* The slice of calcCommitIndex's result (raft.go:268-271) is inside the   *)
(* leader's log and starts where the last one ended: CommitChanges cannot  *)
(* panic in the goroutine of periodicLeaderHB, where nobody recovers.      *)
LeaderNeverPanics ==
    \A n \in Node : lock[n] = "append" =>
        \A m \in Node :
            IsCommitIndex(matchIndex[n], matchIndex[n][m])
            /\ commitIndex[n] < matchIndex[n][m]
               => ~MayPanic(n, log[n], matchIndex[n][m])

(* So far no node has acted on an AppendEntries whose caller had given up  *)
(* on it (raft.go:166-180): such a request cuts the follower back to the   *)
(* log its leader had then (log.go:175-178), and nobody counts with that.  *)
Undisturbed == ~belated

(* As long as that is so: what a leader counts as replicated (raft.go:207) *)
(* is at least as long as it says on every node that still is in the       *)
(* leader's term.                                                          *)
MatchIndexHonest ==
    Undisturbed =>
        \A n, m \in Node :
            n # m /\ leading[n] /\ currentTerm[m] = currentTerm[n]
                => matchIndex[n][m] <= Len(log[m])

(* As long as that is so: the log of the leader of the newest term reaches *)
(* every commit index there is, so that no follower is cut below what it   *)
(* has committed (log.go:175-178, raft.go:75-80).                          *)
LeaderLongEnough ==
    Undisturbed =>
        \A n \in Node :
            leading[n] /\ (\A m \in Node : currentTerm[m] <= currentTerm[n])
                => \A m \in Node : commitIndex[m] <= Len(log[n])

(* "I am not leader anymore" (raft.go:249, 277): between rounds, a node    *)
(* that stopped being leader has no leaderState either, so that it accepts *)
(* no operations (external.go:24-29) and may stand for election again.     *)
NoZombieLeader ==
    \A n \in Node : lock[n] = "free" /\ ~isLeader[n] => ~leading[n]

(* "Entry created successfully" (external.go:148): an operation that its   *)
(* client was told of is the one every node applies at that index.         *)
AckedIsApplied ==
    \A n, m \in Node : \A i \in DOMAIN applied[n] \cap DOMAIN applied[m] :
        applied[n][i].chan => applied[m][i].val = applied[n][i].val

=============================================================================

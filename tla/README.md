# A TLA+ model of tors_hw

The repository holds three small distributed systems. This directory models
all three, checks the models with TLC, and proves with TLAPS what can be
proved for every number of nodes.

| system | where | what it is |
|---|---|---|
| KV | `2/server`, `2/client` (Go) | a key-value store replicated with Raft |
| LWW | `3/server` (Go) | a replicated map, last writer wins |
| integrator | `1/client`, `1/server` (C++) | a client that finds workers by UDP broadcast and hands them parts of an integral over TCP |

The repository has no tests and no documents. What it says of itself is in
comments, assertions, log messages and answers to clients; the findings quote
these.

## Inventory

### KV

| part | state | operations | hard behaviour | what makes it correct |
|---|---|---|---|---|
| Raft core (`raft.go`, `env.go`) | term, vote, log, `isLeader`, `leaderState`, `leaderId`, `commitIndex`, `lastApplied`, `gotHb` | `periodicCheckHb`, `TryBecomeLeader`, `HandleRequestVote`, `periodicLeaderHB`, `leaderHBBroadcast`, `leaderHB`, `calcCommitIndex`, `HandleAppendEntries`, `CommitChanges`, `ApplyRequestSync` | goroutines that read and write beside the mutex holder; the mutex held while waiting for RPCs; late requests; restarts between two disk writes; unsigned indexes | one leader per term, one vote per term, indexes inside the log, every index handed on once, acknowledged operations kept |
| persistent state (`state.go`) | `pstate.json` | `SetVote`, `DumpPState`, `NewPState` | crash between two dumps, ignored errors | never goes back |
| log file (`log.go`) | `log.json` | `Append`, `CheckAndCorrect`, `DumpLog`, `NewLog` | torn writes, rewriting, restart | a restart finds what memory held |
| handlers (`external.go`) | `roundRobin` | create, update, compare-and-set, delete, get, redirects | check-then-act over two critical sections, redirects to itself, endless waits | an answer means the operation is applied everywhere, at one index |
| database (`db.go`, `atomic_alert.go`) | the map, `commitQueue` | `periodicUpdate`, `CommitEntry` | bounded queue written under the Raft mutex | replicas apply the same operations |
| client (`client/main.go`) | none | requests, redirects, retries | retries of what was done | |

The goroutines of one node share `TEnv` under one mutex, `TEnv.m`; nodes talk
by HTTP; committed entries go through `commitQueue` to the database; a
handler waits for its entry on `statusChan`.

### LWW

Each node has a clock, a copy of the map, and one goroutine per change and
target (`broadcastToNode`). `PATCH` and `DELETE` take a timestamp and
broadcast to every node, itself included; `HandleBroadcast` calls
`TDb.Put` or `TDb.Delete`, which keep the entry of the highest timestamp.
Hard: deliveries in any order, lost answers, process ends, clocks that start
again. Correct means that every copy keeps the newest change it was sent and
that all copies become equal.

### Integrator

`TDiscovery` broadcasts and collects addresses (shared through `rcu.h`),
`PrepareRequests` cuts the points into parts, `TRequestSender` and
`TSocketSet` send them with `poll` and move a part to another endpoint when
one fails. The server answers discovery in one thread and accepts one
connection at a time. Hard: partial answers, workers that die, stale or dead
endpoints, reuse of descriptors, `poll` with no timeout. Correct means that
every part is answered exactly once and the calculation ends.

`PROJECT.json` lists every component with its status, and under `hazards` each
place that is hard to test.

## Modules

### Raft.tla

The replication core. One node's state is one entry of each variable; the
comment at each variable names the field.

*Actions and the mutex.* A handler runs entirely under `TEnv.m` and is one
action. An election and a heartbeat broadcast also run under it but wait for
RPCs meanwhile: each is a **round**, and `lock[n]` is `"vote"`, `"append"`
(before the commit index is computed) or `"wait"` (after) while the round
holds the mutex. No handler of `n` can run then: its requests stay in `net`.

| code | actions |
|---|---|
| `periodicCheckHb` | `TimerFires` |
| `AlreadyLeader` and the critical section of `TryBecomeLeader` | `CheckAlreadyLeader`; `StartElection`, `CountVote`, `StepDown`, `LoseElection`, `WinElection` |
| `HandleRequestVote` | `HandleRequestVote` |
| `leaderHBBroadcast`, `leaderHB` | `StartBroadcast`, `CalcCommit`, `HandleAppendAnswer`, `EndBroadcast` |
| `HandleAppendEntries` | `RejectStaleAppend`, `RejectMismatch`, `AcceptAppend`, `PanicInAppend` |
| `isLeader()` of a client handler, `ApplyRequestSync` | `CheckLeader`, `ApplyRequest` |
| the process dies and starts again | `Crash`, `CrashInVote`, `CrashInAppend` |

*Messages.* `net` is a set: delivery is in any order, a message may stay for
ever (lost), and a call may be given up at any time. When a round ends its
context is cancelled: `CloseCalls` drops the answers, and any of the requests,
up to `MaxAbandoned`, stay as abandoned requests that a peer may still handle
later. HTTP does not send a POST twice, so nothing is duplicated.

*Data races.* A goroutine of `requestVoteFrom` may read `CurrentTerm` after a
newer term has replaced it (`StepDown`, the set `late`); one of `leaderHB` may
read `commitIndex` before or after `CalcCommit` (its `late`); `calcCommitIndex`
sees `MatchIndex` with any of the answers handled so far.

*Panics.* `CommitChanges` may slice beyond or backwards; `net/http` recovers,
so `PanicInAppend` keeps what was done before and answers nothing. A limit
just past the log reads the spare capacity of the slice (`Overrun`) or panics,
whichever it happens to be. What is there may be an entry that was cut, or
nothing; no property tells these apart, so `Overrun` is one value.

*Late requests.* `belated` is a history variable: it becomes true when a node
acts on an `AppendEntries` whose caller had given up on it. No guard reads it.

*Memory and file.* `log` is both. A process that ends after the write of an
appended entry and before memory has it, or after memory is cut and before the
file is, leaves what it leaves just after the whole step or just before it:
`Crash` after `ApplyRequest`, or one of the choices of `CrashInAppend`.
`LogStore` has these steps one by one.

*Indexes* are the program's, entry 0 being the sentinel. `nextIndex` is
stepped back in `uint64`: below 0 comes `MaxUint`. Only 0, the indexes of the
log and `MaxUint` are told apart.

*Not in the model:* the contents of operations (they are in `Store`), the
alert that brings a heartbeat forward (a heartbeat is possible at any time
anyway), write errors of `pstate.json`.

### RaftProperties.tla, MCRaft.tla

The properties of Raft, and the symmetry set and view for TLC.

### Db.tla, KeyValue.tla

`Db` is the map of `db.go` and its four operations, each one step under the
mutex of the map. `KeyValue` is what the store promises its clients, with no
nodes in it: writes take effect one after another in one `order`, each once
and between its submission and its answer; the answer of a write is its status
at its place in the order; a read shows the map after some prefix. The promise
may become `void`: that step and those after it are `Anything`.

### Store.tla, MCStore.tla

The whole path of a request, from the client program through the handlers,
`Raft`, `commitQueue` and the database back to the client. `Store` EXTENDS
`Raft` and composes its actions unchanged (`Core`), except that a failure also
takes the handlers, the queue and the map of its process (`Restart`).

| code | actions |
|---|---|
| the loop over tries of `client/main.go` | `SentTo`, `Turn` (guards), `Resend` |
| `isLeader()` in `handleCreate`, `handleUpdateOrCas`, `handleDelete` | `PassCheck` (Raft's `CheckLeader`), `FailCheck` |
| `redirectToLeader` | `Redirect` |
| `ApplyRequestSync` | `Submit` (Raft's `ApplyRequest`) |
| `handleGet`: to a follower, the check, the read | `RedirectRead`, `PassRead`, `Get` |
| `periodicUpdate`, `CommitEntry`, the answer through `statusChan` | `Consume` |
| a process ends: its clients get an error, `NewDb` starts empty | `Restart` |

`order` is a history: the writes, in the sequence in which the first node
handed them on. `Implements` is the refinement

    Abstract == INSTANCE KeyValue WITH
        submitted <- writes that passed the leader check,
        order     <- order,
        answer    <- the status told, as success or failure,
        void      <- ~Calm (see Conditional properties)

so a heartbeat that commits is `TakeEffect`, `Consume` at the node with the
handler is `AnswerWrite`, `Get` is `AnswerRead`, and the rest stutters. The
mutants of `Submit` and `NewDb` (the answer taken from the map as it is now,
a map that survives the process) break it.

A write that its client sends again, after the process with its handler is
gone, is a submission of its own: it may take effect twice, and nothing in the
code prevents it.

### CommitIndex.tla

`calcCommitIndex` itself, one loop iteration per step, over every array a
leader can have. Its result is what `Raft!IsCommitIndex` says.

### LogStore.tla

`log.json` as pieces: whole entries and the torn rest of a write. Appending is
two writes and then the entry in memory (`WriteLength`, `WriteData`, `Grow`);
cutting shortens memory first, and the deferred `DumpLog` replaces the file
through a rename (`Cut`, `Dump`). The process may end between any two of these,
or a write may come up short. So a restart may find more than memory held: the
entry of an append that had its JSON written, or the entries that a cut had
taken out of memory only. `RestartIsPrefix` says that this is all. `NewLog` tells short lengths and
short data (corrupted, it goes on) from a length with nothing behind it (an
error, it gives up). What stands behind a torn piece is read as a part of it:
it is either too short or no JSON (the length of every entry under 16 MB has a
zero byte), and the model allows both outcomes.

### Lww.tla

The whole of `3/server`. `calls` holds the goroutines of `broadcastToNode`: an
`open` one may still reach its target; a `broken` one was handled but gets no
answer; an `orphan` has lost its sender. A call without an answer dereferences
a nil response and ends the sender (`CallFails`), so the retry loop never
retries. A change that meets its own timestamp ends the receiver
(`FatalSameTimestamp`). An ended process loses its clock and its copy. `Get`
is what a reader is shown; a deleted key keeps its timestamp, which is why an
older change cannot bring it back.

### Integrator.tla

The client of `1/client` with its two threads, the workers of `1/server`, and
a network between them. `Calc` runs in the thread of `main`, `Hear` and
`UpdateList` in the updater's.

| code | actions |
|---|---|
| `BroadcastAndListen`, `TRcu.Set` | `Hear`, `UpdateList` |
| `Calc`, `PrepareRequests` | `Calc` |
| `NextEndpoint`, `UpdateEndpoints` | `Assign`, and again in `HandleResult` |
| `SendRequests`: sockets for requests without one | `Register` |
| `TSocketSet::Poll` | `Poll` |
| the loop over its results | `HandleResult`, one result a step |
| the sum and its asserts | `AddUp` |
| `RunServer`, `HandleClient` | `Accept`, `Answer` |
| the kernel, and the end of a worker | `Connect`, `Die` |

A connection is `connecting`, `queued` in the backlog, `served`, and in the end
`answered`, `closed` with nothing in it, or `reset`. Results of one `Poll` are
handled one by one while descriptors of closed sockets are free again: the
least free one is what `socket()` returns (`FreeFd`). `old` are the requests
whose endpoint is an object of the list before `UpdateEndpoints`, so marking
it dead does not show in the new one. The accept queue is taken in any order,
more than the FIFO that it is, and has room for every connection, also beyond
the five of `listen` (`worker_server.cpp:97`): a client has one connection for
each request, so this is more only for lists of more than five workers.

`Calc` runs as soon as `main` has read its points, however many lines those
are. Its asserts may fail in four ways: there is no list yet
(`discovery.cpp:185`), it is empty (`:57`), there are fewer than two points
(`:58`), or an answer is empty because a worker ended (`:191`).

### Proof modules

`RaftProofs` (types, persistent state and flags, elections), `RaftIndexProofs`
(broadcasts, indexes and what is handed on) and `RaftLengthProofs` (lengths of
logs over several terms) are about `Raft.tla`; `StoreProofs` builds on all
three and is about `Store.tla`; `CommitIndexProofs`, `LogStoreProofs`,
`LwwProofs` and `IntegratorProofs` are about the modules they are named after;
each as TLC checks it.

## Runs

| run | instance | states | what it shows |
|---|---|---|---|
| `raft_elections` | 3 nodes, no operations, terms to 2, one restart | 720 000 | elections are safe; votes and terms are not taken back; leaders have a `leaderState` |
| `raft_replication` | 3 nodes, 1 operation, terms to 2, no late requests, no restart | 660 000 | `MatchIndex` is honest and a new leader's log reaches every commit index |
| `raft_late_requests` | 2 nodes, 2 operations, terms to 2, 1 abandoned request, 1 restart | 540 000 | types, index ranges, gapless hand-over, no panic in the leader, an honest `MatchIndex` until a late request is acted on |
| `raft_zombie` | 2 nodes | violation | see Findings |
| `raft_acked` | 2 nodes, 2 operations, terms to 3 | violation | see Findings |
| `commit_index` | up to 5 nodes, indexes to 3 | 12 000 | the loop is right, by its loop invariant |
| `log_store` | 2 entries, 4 pieces, 2 process ends, 1 failed rewrite | 250 000 | restarts keep a prefix, the file follows memory |
| `log_truncated` | the same, no failed rewrite | violation | see Findings |
| `lww` | 2 nodes, 1 key, 3 changes, 1 fault | 114 000 | newest change wins, copies become equal, what is read only gets newer |
| `lww_same_timestamp` | 2 nodes, 2 changes, 1 fault | violation | see Findings |
| `store` | 2 nodes, a create and a compare-and-set of one key, 1 read, terms to 2, 1 restart, no late requests | 930 000 | the store is one map to its clients; replicas agree; a waiting handler can still be answered; what was answered stays |
| `integrator` | 2 workers and the client's own address, 0, 1, 5 or 6 points | 270 000 | each request is summed once, endpoints are given up for their own failures, the calculation ends |

### Why these bounds

Raft: two terms are a leader and its successor, and three nodes give a
majority that can exclude the old leader. Two nodes are enough where the
question is between a leader and one follower. A third term is needed only for
an old leader to come back (`raft_acked`). An abandoned request matters when
it arrives after newer ones, for which one is enough. Elections do not read
operations, so `raft_elections` has none.

Nodes and operations are compared only for equality, so they are symmetric.
The histories `votes` and `wins` are in no guard; runs that check neither use
the view `NoHistory`, which leaves them out.

Store: the two writes are of one key, and the status of each depends on which
comes first, so a wrong order or a wrong moment of the answer shows. One
client writes and then reads, another one writes. `CHECK_DEADLOCK FALSE`,
because no election starts beyond `MaxTerm` and requests may be left waiting.
The view leaves out `votes` and `wins`, and of an answered request its answer
and its node: no guard and no invariant reads these, and an answer is given
once, which is the step that `Implements` looks at. Of `wins` it keeps the
number, as the properties read no more of it.

The bounds of `store` keep it inside `Calm` (two terms cannot have three
winners), so there its properties are checked at their full strength. Beyond
them, with larger bounds than fit into a regular run and exploration cut off
where `Calm` ends, they hold too: with `MaxTerm = 3` and no restart (730 000
states), with `MaxTerm = 3` and a restart (3.7 million), and with
`MaxAbandoned = 1` and no restart. In these, elections fail, a candidate tries
again, and requests of rounds given up arrive late. `raft_elections` with
`MaxAbandoned = 1` and no restart passes as well.

Integrator: a list of two or three addresses, heard in part and in any order.
The client hears its own broadcast, so its own host, which has no worker, may
stand in the list: one request can fail at any host and two at two of them.
`MaxUnupdated` is the program's 5. With 5 points the parts are 2 and 3 (the
last takes one point more rather than leave one), with 6 they are equal, and 0
and 1 are too few.

Every run of Raft checks deadlock (`IdleTick`, a timer with nothing to do, is
always possible, so this says little: liveness of elections is open, see
below). `commit_index` stops when the loop does, `log_store` when the process
ends for good or the bounds are used up, and `lww` when there are no changes
left: these have `CHECK_DEADLOCK FALSE`.

LWW: three changes of one key over two nodes give two changes of one node
(reordered), two of equal time from different nodes (ties), and after a
restart a repeated timestamp. Keys do not interact: a change of several keys
is several changes with one timestamp. `MaxPerKey = 1` leaves out requests that
name one key twice: both entries would have one timestamp, and every node that
gets them would end.

### Conditional properties

What the replication of the KV store promises ends in two events, which the
code can reach. The properties name them as conditions on the history of the
behaviour, instead of leaving them to the bounds:

- `Undisturbed`: no node has acted on an `AppendEntries` whose caller had given
  up on it. Such a request makes the follower cut its log behind `prevLogIndex`
  without comparing what follows (`log.go:175-178`), which takes entries away
  that its leader has counted and acknowledged. That requests outlive their
  rounds, and that late requests for votes are granted, is not excluded.
- `AtMostTwoLeaders`: no third election was won. Entries have no term
  (`env.go:87`), so the third leader may be the first one again, with entries
  of its own at places where the second committed others: the finding
  `raft_acked`. How many elections are held, and in which terms, does not
  matter.

`MatchIndexHonest` and `LeaderLongEnough` hold while `Undisturbed`; the second
is checked where no request outlives its round, the first also in
`raft_late_requests`, where that happens: followers panic there
(`PanicInAppend`) and recover with the next heartbeat, and the other properties
of that run hold nevertheless.

`ReplicasAgree`, `StillAnswerable`, `AnsweredIsReplicated` and `Implements` hold
while `Calm`, which is both. Each condition is needed: with `MaxAbandoned = 1` a
late `AppendEntries` takes an acknowledged entry from the follower in the
leader's own term, and with a third winner replicas disagree. After that an
entry may also come back without its channel (`env.go:90`, `log.go:26`), and its
handler waits for ever. Nothing is claimed of the store from there on. The
conditions are about the past: once they are broken they stay broken, so each
property covers every behaviour up to that point. Restarts are not excluded.

`LeaderNeverPanics` needs a second node: alone, a leader has only its own
entry in `MatchIndex`, `MaxUint`, and takes that for the commit index.

`CalcEnds` and `AssertsOnlyThen` speak of workers that run or end. A machine
that falls silent (no `FIN`, no `RST`) leaves the client in `poll(-1)` for
ever. `CalcEnds` is about a short list: with three dead addresses the loop
need not end, as every sixth choice starts again with all of them alive, and a
living worker behind five dead ones is not reached.

### Fairness

`Lww` assumes that at each node some handler that can run eventually does. A
broadcast is a goroutine with a request of one second, the handler takes one
mutex for a map access, and no lock is held while waiting. Calls that fail end
a process and are not covered by `EventuallyEqual`, which speaks of behaviours
where no process ends.

`Integrator` assumes that the thread of `Calc` runs on (`WF_vars(Sender)`: it
waits for nothing but `poll`, and `Poll` is enabled only when a socket can be
taken out) and that the network and the workers do (`WF_vars(Network)`: a
worker serves one connection after another and holds none without reading
it). Nothing is assumed of the updater: when the list is not there in time
`Calc` ends by its assertion.

Elections need randomised timeouts to end, which the model leaves open; no
liveness is claimed for Raft.

## Findings

1. **A leader that is none** (`raft_zombie`, `raft.go:200-203`). An answer with
   a newer term clears `isLeader` but not `leaderState`. The node says "I am
   not leader anymore", goes on accepting operations, never sends them, and
   does not stand for election.
2. **Acknowledged operations are replaced** (`raft_acked`, `env.go:87`).
   Entries are built without their term, so all have term 0 and no comparison
   of terms ever fails. A node with another entry at an index can win and
   commit it after the client was told "Entry created successfully". This takes
   three winners of elections: `MapsFollowOneOrder` says that two do not suffice, with
   any restarts.
3. **Truncation that does not happen** (`log_truncated`, `log.go:83, 105`).
   The file is opened for reading. Entries appended behind the torn piece are
   lost at the next start, or the start fails.
4. **Equal timestamps** (`lww_same_timestamp`, `3/server/db.go:32, 47`). After
   a restart a node gives out old timestamps; "Timestamps can not be same"
   then ends other processes.

## What is proved

For every finite set of nodes, any operations and any values of the bounds,
from `NodeAssumption` and `BoundAssumption` of `Raft`:

| theorem | says |
|---|---|
| `TypeCorrect` | `Spec => []TypeOK` |
| `ElectionInvariant` | `Spec => []ElectionInv` |
| `OneVotePerTerm` | `Spec => []VoteOnce` |
| `OneLeaderPerTerm` | `Spec => []ElectionSafety` |
| `TermsAndVotesStick` | `Spec => TermAndVoteStick` |
| `LeaderHasState` | `Spec => []LeadershipFlags` |
| `BroadcastInvariant` | `Spec => []BroadcastInv` |
| `AnswersCoverTheLog` | `Spec => []RequestCoversLog` |
| `NextIndexStaysInLog` | `Spec => []NextIndexInRange` |
| `EveryIndexOnce` | `Spec => []AppliedGapless` |
| `LeaderCommitsSafely` | `Spec => []LeaderNeverPanics`, for two nodes and more |
| `LeaderCountsHonestly` | `Spec => []MatchIndexHonest`, for two nodes and more |
| `LeaderReachesCommits` | `Spec => []LeaderLongEnough`, for two nodes and more |

From these and the two assumptions of `Store` (`ValueAssumption`: `Nil` is no
write; `RequestAssumption`: no request is both a write and a read, and no HTTP
status is the absence of an answer), for any nodes, requests, operations, keys
and values of the bounds:

| theorem | says |
|---|---|
| `StoreIsRaft` | `StoreSpec => Spec`: what is proved of `Raft` holds in the store |
| `StoreTypeCorrect` | `StoreSpec => []StoreTypeOK` |
| `MapsFollowOneOrder` | `StoreSpec => []ReplicasAgree` (*) |
| `HandlersAreAnswered` | `StoreSpec => []StillAnswerable` (*) |
| `AnswersAreKept` | `StoreSpec => []AnsweredIsReplicated` (*) |
| `StoreImplements` | `StoreSpec => Implements` (*) |

(*) for two nodes and more. That comes from the lengths (`LeaderNeverPanics`
needs it); for one node TLC finds no violation, and nothing is proved.

No theorem bounds terms, restarts or late requests. Where a promise ends, the
property says so (see Conditional properties): with `Undisturbed` in
`MatchIndexHonest` and `LeaderLongEnough`, with `Calm` in the four marked (*).

From the assumptions of `Lww`, for any nodes, keys, values and bounds:

| theorem | says |
|---|---|
| `LwwTypeCorrect` | `Spec => []TypeOK` |
| `CopyHoldsNewest` | `Spec => []StorageIsNewest` |
| `NothingComesBack` | `Spec => ReadsOnlyAdvance` |
| `OneLifeTimestamps` | `Spec => []TimestampsDifferOneLife`, for `MaxPerKey = 1` |

And of the two smaller modules, for any entries and bounds, and for any number
of nodes and any indexes:

| theorem | says |
|---|---|
| `FileFollows` | `Spec => []FileFollowsMemory` |
| `RestartHasPrefix` | `Spec => RestartIsPrefix` |
| `CommitIndexIsRight` | `Spec => []ResultIsCommitIndex` |
| `LoopCounts` | `Spec => []GroupsCounted` |

From the assumptions of `Integrator`, for any hosts, lists of endpoints,
descriptors and numbers of points, 0 and 1 included:

| theorem | says |
|---|---|
| `IntegratorTypes` | `Spec => []TypeOK` |
| `EveryPointIsRequested` | `Spec => []RequestsHoldAllPoints` |
| `DescriptorsLeadBack` | `Spec => []FdsFindTheirRequests` |
| `EveryAnswerIsAdded` | `Spec => []SumIsComplete` |
| `OnlyTheDeadAreGivenUp` | `Spec => []GivesUpOnTheDead` |
| `AssertsForAReason` | `Spec => []AssertsOnlyThen` |

*Elections.* `ElectionSafety` is not inductive: it does not say why the votes
counted were given. `ElectionInv` says that

- every vote is covered by the voter's disk (`VotesOnDisk`), so a second one
  in its term would meet a vote that is still there (`VoteOnce`);
- every live request for a vote belongs to the election its caller holds, and
  has its term (`AsksInRound`): abandoned requests may still be granted, but
  nobody hears of it;
- an answer that is still on its way is to the current election and, if it
  grants, is a vote in it (`AnswersAreVotes`), so what is counted are votes
  (`CountedAreVotes`) and a win has a majority of them (`WinsHaveMajority`).

Two majorities share a node (`MajoritiesMeet`, by cardinalities), which voted
once. Most actions end or leave alone the election of their node; the lemmas
`RoundOver` and `NotElection` and their users take these together, and each
remaining action has its own. The mutant `AnswersKept` (answers that survive
the round) shows that the round discipline of the code is what carries this.

*Broadcasts and indexes.* `HandleAppendAnswer` sets `NextIndex` and
`MatchIndex` from the log as it is when the answer comes. This is right only
because a live call exists only while its caller holds the mutex
(`BroadcastInv`), and nothing else appends meanwhile: then every live request
ends where the log ends (`RequestCoversLog`). `NextIndexInRange` also needs
that nobody refuses, in the leader's own term, a request that begins at the
sentinel, which every log has: so `NextIndex` is stepped back to 1 and no
further, and `NextIndex - 1` does not wrap. `AppliedGapless` follows the slices of
`CommitChanges`, also when a panic leaves the log changed and the rest not.
`LeaderNeverPanics` combines the two: the result of `calcCommitIndex` is an
entry of `MatchIndex` that a majority reaches, a majority of two nodes or more
holds a node other than the leader, and so the result is inside the log.

*Lengths.* Entries carry no term (`NewEntry`), so logs are compared by their
lengths alone: a vote goes to a candidate that is not shorter, and a follower
that takes entries over has the leader's length afterwards (`AppendFrom`).
A crash in the middle of that leaves a part of them, and no answer, so the
leader does not count it. Neither property is inductive. `StepFacts` says what
any step does to terms, lengths, leaders, votes and counts, and the rest of the
argument uses only that. The invariant, `Lengths`, has six parts:

- `OnTime`: what a live request says of its caller's log is still so, and all
  terms in logs are 0. Requests that were given up may say anything: an
  `AppendEntries` among them is not acted on while `Undisturbed`, and a vote
  that is granted to one is of a term its caller is past (`Outlived`), so it
  binds the voter and counts for nobody;
- `LeadersWon`: a leader leads the term it won, and a candidate is ahead of all
  that it won and of the requests left of its elections;
- `Honest`: whoever a leader counts, in its array or by an answer that is still
  on its way, has the leader's term and is that long, or has a newer term;
- `Paired`: what a leader counts for a peer is below where it asks it to append,
  also after the step back that a refusal on its way will cause: a follower is
  not cut below what it is counted for, not even by a crash;
- `Choosable`: take nodes that a leader counts up to an index, and others that
  are not past the leader's term. If together they are a majority, then the
  counted ones are `Firm`: they keep reaching the index, as does whoever leads
  in that term or later, and whoever stands for election with a vote of theirs,
  and a newer leader asks none of them to append below it.
  The other nodes are there because the invariant must hold before the leader
  has counted its majority;
- `CommitsSettled`: every commit index, on a node or on its way to one, was
  chosen by a leader, and a majority is firm about it. `FirmStep` shows that
  this stays, term after term.

`Undisturbed => Lengths` is what is inductive: once a late request was acted on
the condition stays broken (`StaysUndisturbed`). `Honest` gives
`MatchIndexHonest`, and `CommitsSettled` gives `LeaderLongEnough`.

*The store: one order.* `StoreStep` shows that a step of `Store` is one of `Raft`
or leaves it alone, so all of the above may be used. Why the writes have one
order is then a matter of two leaders, as entries carry no terms. The two terms
that are won, `old` and `new`, are parameters: `CalmIn(old, new)` says that no
other is won and that nothing came late. While `Calm` there are two such numbers
(`SomeTwoTerms`), but they are not known before the elections are over, so the
invariant is about all pairs (`Followed`): for each pair, `OneOrder(old, new)`
holds as long as `CalmIn(old, new)` does. The terms in between and after, of
elections that nobody won, may be any. `OneOrder` is inductive together with
`Lengths`:

- `Writers`: only a node that has won a term takes operations up. `Places`: no operation is taken up twice
  (`TakenUpOnce`), one that is in several logs is at the same index in all
  (`OnePlace`), and what is sent has lost its channel (`SentBare`);
- `Phase` is the history of the cluster in three cases. `Nobody` has won. Or
  `OneTerm(old, a)`: `a` won the first term, and every log is the beginning of its
  log. Or `Second(old, new, b, B)`: `b` won the second term, with a log of length `B`, up
  to which all logs agree (`TwoTerms`). Whatever the old leader may still count
  ends at `B` (`Predecessor`, `CountsUpTo`: a majority voted for `b`, and its
  members are past the old term), so what it goes on to commit is part
  of the new leader's log; and whoever is asked to append by `b` agrees with it
  so far (`Successor`). In both terms the order is the beginning of the
  leader's log (`InOrder`);
- `Ordered`: commit indexes and what was handed on are within the order, whose
  end is firm. That an old leader still commits while the new one does already
  is the case this is for (`CommitsUpTo`, `TwoTermsHands`).

`Predecessor` fails with a third winner: that leader may be the first one again,
whose log never agreed with that of the second beyond `B`, and that is what
`raft_acked` shows.

*The store: maps.* `KeyValue!MapAfter` is a recursive function, and that it has
the values its definition asks for is shown first (`MapsExist`, `SameMaps`), by
an induction over the least counterexample (`UpTo`). A step of `Consume` is a
step of that function.

*The store: answers.* `Replicated` says that beyond `B` the order is in the logs
of a majority that are in the second term, agree with `b` and are counted by it;
up to `B` all logs agree, and `OrderSettled` has a majority that reaches it.
`RequestInv` is about the requests: what was handed on is in the log still, with
its channel if the log has it (`Held`); a channel that was not served belongs to
a handler that waits (`Channels`), so no answer is given twice, or to a request
that is answered already; and a write whose handler waits at `n` is about to be
appended there, is in the log with its channel, or the leader of the second term
does without it (`HandledKept`, `Without`). In the last case it never takes
effect. For `StillAnswerable` the danger is that `n` loses its entry and gets the
same operation again from the new leader, without the channel: `Apart` says that
an entry of `n` beyond `B` that has its channel is not in the log of `b`.

*The store: refinement.* `KvStepHolds` has one lemma for each action of `KeyValue`:
`PassIsAccept`, `OrderAdvances` (every step that leaves requests and answers as
they are lets the order grow, or stutters), `TakeIsAnswer` and `GetIsAnswer`.
All this is for a step from `Calm` to `Calm` (`StillCalm`); the step that ends it,
and those after it, are `Anything`, with `void` true from then on. That no write
takes effect twice, or before it was submitted, comes from `OnePlace` and
`LogsSubmitted` at the leader. The proof found a mistake in `Resend`: a write
that was lost with its process counted as sent again at the next failure of that
node. With one restart, as in the run, this cannot show.

*Commit index.* `LoopInv` says that the array is a rearrangement of
`MatchIndex` and sorted (`IsSorted`), that the last `currCnt` indexes passed
are the group being counted and all before it are smaller (`GroupPlaced`), and
that `maxIdx` is the largest index that a majority reaches among the groups
before (`BestSoFar`). How many nodes reach an index is counted over the sorted
array, by cardinalities of intervals.

*Log file.* `FileFollowsMemory` is about a process between appends and cuts.
`LogInv` also describes the file in the middle of each, and the one an ended
process leaves: what can be read of it, up to the first torn piece, are the
first entries of what that process held (`Held`: memory, with the entry that is
in the file already, or the log that a cut was to shorten). All of it holds
until a rewrite falls short (`shortDumps > 0`, see the hazard on `DumpLog`), as
the two properties say.

*Last writer wins.* `StorageIsNewest` is inductive as it stands, given that
`Compare` is reflexive, antisymmetric and transitive on timestamps (the lemmas
in front of it). `ReadsOnlyAdvance` follows step by step: a handler that
replaces the entry of a key has compared first, and a deletion keeps its
timestamp. `OneLifeTimestamps` uses that the clock of a life is ahead of every
change made in it.

*Integrator.* None of the properties is inductive; `IntegratorInv` follows every
socket from `Register` to `HandleResult`. The open ones are those of the set
and those that the last `Poll` took out and the loop has not reached. There is
one for each request that waits for its answer; it stands in the map under the
descriptor that its connection has, which is why a descriptor that `socket()`
gives out again leads to its new request and never to the old one (`OpenInv`).
A socket that ended without an answer belongs to a host that is down
(`WorkerGone`), so what the loop marks is dead (`GivesUpOnTheDead`), and a
request that was added up has its answer (`AnswersInv`). For the assertion that
no endpoint lives, `RowCovers` shows that the search from `NextEndpoint` on
meets every place of the list. `PrepareRequests` and `Picked` are recursive
functions, and what they compute is shown by induction: the library's theorem
of induction takes an operator and cannot be used, but the natural numbers are
well-founded (`NatLessThanWellFounded`), so a set of counterexamples has a least
member (`LeastElement`), and `UpToAll` makes an induction of that.

## Only model-checked

- Liveness under fairness (`EventuallyEqual`, `CalcEnds`), as TLAPS
  does not reason about fairness.
- The four findings: a violation is a behaviour, which TLC exhibits.

## Not modelled

- **Liveness of elections.** They need randomised timeouts to end, and two
  candidates may block each other until theirs run out (`raft.go:317`); the
  model leaves timing open, so no liveness is claimed for Raft.
- **The capacity of `commitQueue`** (`env.go:61`). It is written under `TEnv.m`
  and blocks when full; the database never takes that mutex, so it empties,
  and the sends of one critical section are taken as one step.
- **The ten seconds of a client** (`client/main.go:56`). All tries of a command
  share one context; when it is over the loop spins on errors. The client has
  no state that this could spoil.
- **Malformed requests** (`external.go`, 400, 404, 405): they change nothing.
- **A `leaderId` that is the node's own** is in `Store` as it is in the code:
  the client goes round until something changes. No answer is wrong by it.
- **Write errors of `pstate.json`** (`state.go:56`), and errors of opening,
  creating and renaming files.
- **The backlog of five** (`worker_server.cpp:97`), see `Integrator.tla` above.
- **What a read past the log finds** (`env.go:57`): `Overrun` is one value.
- **Silent machines, and a client that ends first**, in the integrator: a
  connection reset in the backlog makes the first `read` of `HandleClient`
  fail and ends the worker (`worker_server.cpp:42`). Failures of local system
  calls and the parts in which a request is sent.
- **The sum itself** (`calc.cpp`). The rectangle between the last point of one
  request and the first of the next is in neither: the sum of the requests is
  less than the integral. Nothing in the repository says otherwise, and
  floating-point sums are nothing for a model checker.
- **Parsing** of options, configuration files and JSON.

## What could come next

1. A run of `Store` with fairness: a write handled by a stable leader is
   answered, or the leader is deposed.
2. Write errors of `pstate.json` as an option of the crash actions.
3. A cluster of one node, where the leader's own `MaxUint` is the commit index.
4. Silent machines in `Integrator`, and a second client.

-------------------------------- MODULE Lww --------------------------------
(***************************************************************************)
(* The replicated map of 3/server.  Every node keeps a whole copy.  A      *)
(* change takes one timestamp of the node it arrives at and is sent, entry *)
(* by entry, to every node, the node itself included, by one goroutine per *)
(* target; a copy keeps, per key, the entry of the highest timestamp.      *)
(*                                                                         *)
(* Nothing is on disk.  A node starts with an empty copy and a clock at 0. *)
(***************************************************************************)
EXTENDS Integers, FiniteSets

CONSTANTS
    Node,        \* ids: positions in the configuration file
    Key, Value,
    Deleted,     \* what a deleted key holds
    Nothing,     \* no entry under a key
    MaxChanges,  \* bound: requests of clients in a behaviour
    MaxPerKey,   \* bound: entries of one request with the same key
    MaxCrashes   \* bound: process ends that the network or a user causes

ASSUME NodeAssumption == Node \subseteq Nat /\ IsFiniteSet(Node)
ASSUME ValueAssumption == Deleted \notin Value /\ IsFiniteSet(Key)

VARIABLES
    up, clock,   \* is the process running; TClock.Ts.Time
    storage,     \* TDb.Storage
    calls,       \* goroutines of broadcastToNode that have not returned
    crashes,     \* how many
    changes,     \* how many requests of clients
    received     \* history: the changes a running node has handled

vars == <<up, clock, storage, calls, crashes, changes, received>>

Timestamp == [time : Nat, id : Node]
Change == [key : Key, val : Value \cup {Deleted}, ts : Timestamp]

ASSUME NothingAssumption == Nothing \notin Change

\* open: the request may still arrive.  broken: it was handled, or killed its
\* handler, and the caller gets no answer.  orphan: the caller is gone.
Call == [from : Node, to : Node, change : Change,
         status : {"open", "broken", "orphan"}]

TypeOK ==
    /\ up \in [Node -> BOOLEAN]
    /\ clock \in [Node -> Nat]
    /\ storage \in [Node -> [Key -> Change \cup {Nothing}]]
    /\ calls \subseteq Call
    /\ crashes \in Nat /\ changes \in Nat
    /\ received \in [Node -> SUBSET Change]

Init ==
    /\ up = [n \in Node |-> TRUE]
    /\ clock = [n \in Node |-> 0]
    /\ storage = [n \in Node |-> [k \in Key |-> Nothing]]
    /\ calls = {}
    /\ crashes = 0 /\ changes = 0
    /\ received = [n \in Node |-> {}]

-----------------------------------------------------------------------------

\* Mutant of Compare: of two entries of the same time the first one stays.
CompareTimes(a, b) == IF a.time < b.time THEN -1 ELSE 1

\* Compare of clock.go: by time, then by the id of the node.
Compare(a, b) ==
    IF a.time # b.time THEN IF a.time < b.time THEN -1 ELSE 1
    ELSE IF a.id < b.id THEN -1 ELSE IF a.id = b.id THEN 0 ELSE 1

\* Mutant of Targets: a node does not send to itself.
OtherNodes(n) == Node \ {n}

\* Mutant of Targets: an empty last line of the configuration is a node too.
EmptyLine(n) == Node \cup {Cardinality(Node)}

\* broadcastToAll goes over the whole configuration.
Targets(n) == Node

\* Mutant of Tick: the clock is read and not advanced.
ClockRead(n) == [time |-> clock[n], id |-> n]

\* newTs, under the clock's mutex: the clock's new value, which the change gets.
Tick(n) == [time |-> clock[n] + 1, id |-> n]

\* The entries of a request, all with one timestamp, to every target.
BroadcastToAll(n, entries) ==
    /\ changes < MaxChanges
    /\ changes' = changes + 1
    /\ clock' = [clock EXCEPT ![n] = Tick(n).time]
    /\ calls' = calls \cup
         {[from |-> n, to |-> m, status |-> "open",
           change |-> [key |-> e[1], val |-> e[2], ts |-> Tick(n)]]
             : m \in Targets(n), e \in entries}
    /\ UNCHANGED <<up, storage, crashes, received>>

HandlePatch(n) ==
    /\ up[n]
    /\ \E entries \in SUBSET (Key \X Value) :
         /\ IsFiniteSet(entries)
         /\ \A k \in Key : Cardinality({e \in entries : e[1] = k}) <= MaxPerKey
         /\ BroadcastToAll(n, entries)

HandleDelete(n) ==
    /\ up[n]
    /\ \E keys \in SUBSET Key : BroadcastToAll(n, keys \X {Deleted})

-----------------------------------------------------------------------------

Arrives(n, c) == c \in calls /\ c.to = n /\ c.status # "broken" /\ up[n]

Same(n, change) ==
    /\ storage[n][change.key] # Nothing
    /\ Compare(storage[n][change.key].ts, change.ts) = 0

\* Mutant of Newer: whatever arrives last is kept.
LastArrived(n, change) == TRUE

\* Mutant of Newer: a deleted entry counts as no entry.
DeletedIsNothing(n, change) ==
    \/ storage[n][change.key] = Nothing
    \/ storage[n][change.key].val = Deleted
    \/ Compare(storage[n][change.key].ts, change.ts) < 0

Newer(n, change) ==
    \/ storage[n][change.key] = Nothing
    \/ Compare(storage[n][change.key].ts, change.ts) < 0

\* What a reader of the key gets: TDb.Get, and "Not found" of HandleGet.
Get(n, k) ==
    IF storage[n][k] = Nothing \/ storage[n][k].val = Deleted
      THEN Nothing ELSE storage[n][k].val

\* The call returns, or its answer is lost on the way back.
Return(c) ==
    \/ calls' = calls \ {c}
    \/ /\ c.status = "open"
       /\ crashes < MaxCrashes
       /\ calls' = (calls \ {c}) \cup {[c EXCEPT !.status = "broken"]}

\* TDb.Put and TDb.Delete, which differ in what they store.
HandleBroadcast(n, c) ==
    /\ Arrives(n, c)
    /\ ~Same(n, c.change)
    /\ storage' = IF Newer(n, c.change)
                    THEN [storage EXCEPT ![n][c.change.key] = c.change]
                    ELSE storage
    /\ received' = [received EXCEPT ![n] = @ \cup {c.change}]
    /\ Return(c)
    /\ UNCHANGED <<up, clock, crashes, changes>>

-----------------------------------------------------------------------------
(* The process of n ends.  Of its calls to others some are on their way.   *)

Die(n, rest) ==
    /\ crashes' = crashes + 1
    /\ UNCHANGED changes
    /\ up' = [up EXCEPT ![n] = FALSE]
    /\ clock' = [clock EXCEPT ![n] = 0]
    /\ storage' = [storage EXCEPT ![n] = [k \in Key |-> Nothing]]
    /\ received' = [received EXCEPT ![n] = {}]
    /\ LET mine == {c \in rest : c.from = n /\ c.status # "orphan"}
       IN  \E sent \in SUBSET {c \in mine : c.status = "open" /\ c.to # n} :
             calls' = (rest \ mine) \cup {[c EXCEPT !.status = "orphan"] : c \in sent}

\* "Timestamps can not be same": log.Fatal in Put or Delete, mid-request.
FatalSameTimestamp(n, c) ==
    /\ Arrives(n, c)
    /\ Same(n, c.change)
    /\ Die(n, (calls \ {c}) \cup
              (IF c.status = "open" THEN {[c EXCEPT !.status = "broken"]} ELSE {}))

\* Do returns an error and no response: resp.Body is read through nil in a
\* goroutine that nobody recovers, and the sender's process ends.  The request
\* itself, if it only timed out, may still arrive.
CallFails(n, c) ==
    /\ c \in calls
    /\ c.from = n
    /\ \/ c.status = "broken"
       \/ c.status = "open" /\ crashes < MaxCrashes
    /\ up[n]
    /\ Die(n, calls)

Crash(n) ==
    /\ up[n]
    /\ crashes < MaxCrashes
    /\ Die(n, calls)

Vanish(c) ==
    /\ c \in calls /\ c.status = "orphan"
    /\ calls' = calls \ {c}
    /\ UNCHANGED <<up, clock, storage, crashes, changes, received>>

Restart(n) ==
    /\ ~up[n]
    /\ up' = [up EXCEPT ![n] = TRUE]
    /\ UNCHANGED <<clock, storage, calls, crashes, changes, received>>

Next ==
    \/ \E n \in Node : HandlePatch(n)
    \/ \E n \in Node : HandleDelete(n)
    \/ \E n \in Node, c \in calls : HandleBroadcast(n, c)
    \/ \E n \in Node, c \in calls : FatalSameTimestamp(n, c)
    \/ \E n \in Node, c \in calls : CallFails(n, c)
    \/ \E n \in Node : Crash(n)
    \/ \E n \in Node : Restart(n)
    \/ \E c \in calls : Vanish(c)

\* A goroutine that was started runs, and the handler it reaches runs too.
Fairness ==
    \A n \in Node : WF_vars(\E c \in calls : HandleBroadcast(n, c))

Spec == Init /\ [][Next]_vars /\ Fairness

-----------------------------------------------------------------------------

(* A running copy holds, under every key, the entry of the highest         *)
(* timestamp among all changes it was sent since it started, in whatever   *)
(* order they arrived and whoever crashed (db.go:25-54).                   *)
StorageIsNewest ==
    \A n \in Node, k \in Key :
        LET seen == {c \in received[n] : c.key = k}
        IN  IF seen = {} THEN storage[n][k] = Nothing
            ELSE /\ storage[n][k] \in seen
                 /\ \A c \in seen : Compare(c.ts, storage[n][k].ts) <= 0

(* "Timestamps can not be same" (db.go:32, 47): a change never meets an    *)
(* entry of its own timestamp under its key.                               *)
TimestampsDiffer ==
    \A n \in Node : \A c \in calls : Arrives(n, c) => ~Same(n, c.change)

(* While no process has ended, and as long as no request names a key twice *)
(* (MaxPerKey = 1), the same holds: concurrent requests never share a time *)
(* (server.go:96-101).                                                     *)
TimestampsDifferOneLife == crashes = 0 => TimestampsDiffer

(* What a reader gets from one life of a node changes only to a newer       *)
(* change: nothing that was overwritten or deleted comes back, in whatever *)
(* order the broadcasts arrive (db.go:25-64).                              *)
ReadsOnlyAdvance ==
    [][\A n \in Node, k \in Key :
         up[n] /\ up'[n] /\ Get(n, k)' # Get(n, k) =>
            /\ storage'[n][k] # Nothing
            /\ \/ storage[n][k] = Nothing
               \/ Compare(storage[n][k].ts, storage'[n][k].ts) < 0]_vars

(* If no process ever ends, then once clients stop changing things all      *)
(* copies become equal and stay so, and have handled the same changes: no  *)
(* order of the goroutines leaves a node behind or with another winner     *)
(* (server.go:66-75, db.go:30-35).                                         *)
EventuallyEqual ==
    <>[](\/ crashes > 0
         \/ \A n, m \in Node : /\ storage[n] = storage[m]
                               /\ received[n] = received[m])

=============================================================================

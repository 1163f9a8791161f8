----------------------------- MODULE LwwProofs -----------------------------
(***************************************************************************)
(* Every copy of the map holds the newest change it was sent, for every    *)
(* number of nodes, keys, changes and process ends.  StorageIsNewest is    *)
(* inductive, given the types: what it needs of timestamps is that Compare *)
(* orders them.                                                            *)
(***************************************************************************)
EXTENDS Lww, FiniteSetTheorems, TLAPS

(* Compare (clock.go:26-42) is a total order of timestamps.                *)
LEMMA TimestampParts == \A a \in Timestamp : a.time \in Int /\ a.id \in Int
<1> SUFFICES ASSUME NEW a \in Timestamp PROVE a.time \in Int /\ a.id \in Int
  OBVIOUS
<1>1. a.time \in Nat /\ a.id \in Node
  BY DEF Timestamp
<1>2. \A n \in Node : n \in Nat
  BY NodeAssumption
<1> QED
  BY <1>1, <1>2

LEMMA CompareSame == \A a \in Timestamp : Compare(a, a) = 0
BY TimestampParts DEF Compare

LEMMA CompareFlip == \A a, b \in Timestamp : Compare(a, b) >= 0 => Compare(b, a) <= 0
<1> SUFFICES ASSUME NEW a \in Timestamp, NEW b \in Timestamp, Compare(a, b) >= 0
             PROVE  Compare(b, a) <= 0
  OBVIOUS
<1>1. a.time \in Int /\ a.id \in Int /\ b.time \in Int /\ b.id \in Int
  BY TimestampParts
<1> QED
  BY <1>1 DEF Compare

LEMMA CompareTrans ==
    \A a, b, c \in Timestamp : Compare(a, b) <= 0 /\ Compare(b, c) < 0 => Compare(a, c) <= 0
<1> SUFFICES ASSUME NEW a \in Timestamp, NEW b \in Timestamp, NEW c \in Timestamp,
                    Compare(a, b) <= 0, Compare(b, c) < 0
             PROVE  Compare(a, c) <= 0
  OBVIOUS
<1>1. /\ a.time \in Int /\ a.id \in Int /\ b.time \in Int /\ b.id \in Int
      /\ c.time \in Int /\ c.id \in Int
  BY TimestampParts
<1>2. a.time < b.time \/ (a.time = b.time /\ a.id <= b.id)
  BY <1>1 DEF Compare
<1>3. b.time < c.time \/ (b.time = c.time /\ b.id < c.id)
  BY <1>1 DEF Compare
<1>4. a.time < c.time \/ (a.time = c.time /\ a.id < c.id)
  BY <1>1, <1>2, <1>3
<1> QED
  BY <1>1, <1>4 DEF Compare

LEMMA CompareType == \A a, b \in Timestamp : Compare(a, b) \in Int
BY DEF Compare

-----------------------------------------------------------------------------
(* Types.                                                                  *)

LEMMA LwwTypeInit == Init => TypeOK
BY DEF Init, TypeOK

(* The goroutines that a change starts are calls.                          *)
LEMMA BroadcastType ==
    ASSUME TypeOK, NEW n \in Node,
           NEW entries \in SUBSET (Key \X (Value \cup {Deleted})),
           BroadcastToAll(n, entries)
    PROVE  TypeOK'
<1>1. clock[n] + 1 \in Nat /\ changes + 1 \in Nat
  BY DEF TypeOK
<1>2. Tick(n) \in Timestamp
  BY <1>1 DEF Tick, Timestamp
<1>3. Tick(n).time = clock[n] + 1
  BY DEF Tick
<1> DEFINE started(m, e) ==
      [from |-> n, to |-> m, status |-> "open",
       change |-> [key |-> e[1], val |-> e[2], ts |-> Tick(n)]]
<1>4. \A m \in Node, e \in entries : started(m, e) \in Call
  <2> SUFFICES ASSUME NEW m \in Node, NEW e \in entries PROVE started(m, e) \in Call
    OBVIOUS
  <2>1. [key |-> e[1], val |-> e[2], ts |-> Tick(n)] \in Change
    BY <1>2 DEF Change
  <2> QED
    BY <2>1 DEF Call
<1>5. calls' = calls \cup {started(m, e) : m \in Node, e \in entries}
  BY DEF BroadcastToAll, Targets
<1>6. calls' \subseteq Call
  <2> HIDE DEF started
  <2> QED BY <1>4, <1>5 DEF TypeOK
<1>7. clock' \in [Node -> Nat] /\ changes' \in Nat
  BY <1>1, <1>3 DEF BroadcastToAll, TypeOK
<1> QED
  BY <1>6, <1>7 DEF BroadcastToAll, TypeOK

(* A process end leaves calls behind that were there, but for their status. *)
LEMMA DieType ==
    ASSUME TypeOK, NEW n \in Node, NEW rest \in SUBSET Call, Die(n, rest)
    PROVE  TypeOK'
<1> DEFINE mine == {c \in rest : c.from = n /\ c.status # "orphan"}
<1>1. PICK sent \in SUBSET {c \in mine : c.status = "open" /\ c.to # n} :
         calls' = (rest \ mine) \cup {[c EXCEPT !.status = "orphan"] : c \in sent}
  BY DEF Die
<1>2. \A c \in Call : [c EXCEPT !.status = "orphan"] \in Call
  BY DEF Call
<1>3. calls' \subseteq Call
  BY <1>1, <1>2
<1>4. crashes' \in Nat
  BY DEF Die, TypeOK
<1> QED
  BY <1>3, <1>4 DEF Die, TypeOK

LEMMA BroadcastHandledType ==
    ASSUME TypeOK, NEW n \in Node, NEW c \in calls, HandleBroadcast(n, c)
    PROVE  TypeOK'
<1>1. c \in Call
  BY DEF TypeOK
<1>2. c.change \in Change /\ c.change.key \in Key
  BY <1>1 DEF Call, Change
<1>3. [c EXCEPT !.status = "broken"] \in Call
  BY <1>1 DEF Call
<1>4. calls' \subseteq Call
  BY <1>3 DEF HandleBroadcast, Return, TypeOK
<1>5. storage' \in [Node -> [Key -> Change \cup {Nothing}]]
  <2>1. CASE storage' = storage
    BY <2>1 DEF TypeOK
  <2>2. CASE storage' = [storage EXCEPT ![n][c.change.key] = c.change]
    BY <1>2, <2>2 DEF TypeOK
  <2> QED
    BY <2>1, <2>2 DEF HandleBroadcast
<1>6. received' \in [Node -> SUBSET Change]
  BY <1>2 DEF HandleBroadcast, TypeOK
<1> QED
  BY <1>4, <1>5, <1>6 DEF HandleBroadcast, TypeOK

LEMMA LwwTypeNext == TypeOK /\ [Next]_vars => TypeOK'
<1> SUFFICES ASSUME TypeOK, [Next]_vars PROVE TypeOK'
  OBVIOUS
<1>1. CASE UNCHANGED vars
  BY <1>1 DEF vars, TypeOK
<1>2. ASSUME NEW n \in Node, HandlePatch(n) PROVE TypeOK'
  <2>1. PICK entries \in SUBSET (Key \X Value) : BroadcastToAll(n, entries)
    BY <1>2 DEF HandlePatch
  <2>2. entries \in SUBSET (Key \X (Value \cup {Deleted}))
    OBVIOUS
  <2> QED
    BY <2>1, <2>2, BroadcastType
<1>3. ASSUME NEW n \in Node, HandleDelete(n) PROVE TypeOK'
  <2>1. PICK keys \in SUBSET Key : BroadcastToAll(n, keys \X {Deleted})
    BY <1>3 DEF HandleDelete
  <2>2. keys \X {Deleted} \in SUBSET (Key \X (Value \cup {Deleted}))
    OBVIOUS
  <2> QED
    BY <2>1, <2>2, BroadcastType
<1>4. ASSUME NEW n \in Node, NEW c \in calls, HandleBroadcast(n, c) PROVE TypeOK'
  BY <1>4, BroadcastHandledType
<1>5. ASSUME NEW n \in Node, NEW c \in calls, FatalSameTimestamp(n, c) PROVE TypeOK'
  <2> DEFINE rest == (calls \ {c}) \cup
              (IF c.status = "open" THEN {[c EXCEPT !.status = "broken"]} ELSE {})
  <2>1. [c EXCEPT !.status = "broken"] \in Call
    BY DEF TypeOK, Call
  <2>2. rest \in SUBSET Call
    BY <2>1 DEF TypeOK
  <2>3. Die(n, rest)
    BY <1>5 DEF FatalSameTimestamp
  <2> HIDE DEF rest
  <2> QED
    BY <2>2, <2>3, DieType
<1>6. ASSUME NEW n \in Node, Die(n, calls) PROVE TypeOK'
  <2>1. calls \in SUBSET Call
    BY DEF TypeOK
  <2> QED
    BY <1>6, <2>1, DieType
<1>7. ASSUME NEW n \in Node, Restart(n) PROVE TypeOK'
  BY <1>7 DEF Restart, TypeOK
<1>8. ASSUME NEW c \in calls, Vanish(c) PROVE TypeOK'
  BY <1>8 DEF Vanish, TypeOK
<1> QED
  BY <1>1, <1>2, <1>3, <1>4, <1>5, <1>6, <1>7, <1>8 DEF Next, CallFails, Crash

(* Every state of the map is well typed (db.go:8-23, clock.go:7-24).        *)
THEOREM LwwTypeCorrect == Spec => []TypeOK
BY LwwTypeInit, LwwTypeNext, PTL DEF Spec

-----------------------------------------------------------------------------
(* The newest change.                                                      *)

Seen(n, k) == {c \in received[n] : c.key = k}

HoldsNewest(n, k) ==
    /\ Seen(n, k) = {} => storage[n][k] = Nothing
    /\ Seen(n, k) # {} => /\ storage[n][k] \in Seen(n, k)
                          /\ \A c \in Seen(n, k) : Compare(c.ts, storage[n][k].ts) <= 0

LEMMA NewestMeans == StorageIsNewest <=> \A n \in Node, k \in Key : HoldsNewest(n, k)
BY DEF StorageIsNewest, HoldsNewest, Seen

LEMMA SameCopies ==
    ASSUME StorageIsNewest, UNCHANGED <<storage, received>>
    PROVE  StorageIsNewest'
BY DEF StorageIsNewest

(* An ended process starts with an empty copy, and has been sent nothing.  *)
LEMMA EmptyCopy ==
    ASSUME TypeOK, StorageIsNewest, NEW p \in Node, NEW rest, Die(p, rest)
    PROVE  StorageIsNewest'
<1> SUFFICES ASSUME NEW n \in Node, NEW k \in Key PROVE HoldsNewest(n, k)'
  BY DEF StorageIsNewest, HoldsNewest, Seen
<1>1. CASE n = p
  <2>1. received'[n] = {} /\ storage'[n][k] = Nothing
    BY <1>1 DEF Die, TypeOK
  <2> QED
    BY <2>1 DEF HoldsNewest, Seen
<1>2. CASE n # p
  <2>1. received'[n] = received[n] /\ storage'[n] = storage[n]
    BY <1>2 DEF Die, TypeOK
  <2> QED
    BY <2>1, NewestMeans DEF HoldsNewest, Seen
<1> QED
  BY <1>1, <1>2

(* Put and Delete keep the newer of the entry and the change.              *)
LEMMA NewerKept ==
    ASSUME TypeOK, StorageIsNewest, NEW p \in Node, NEW call \in calls,
           HandleBroadcast(p, call)
    PROVE  StorageIsNewest'
<1> DEFINE change == call.change
<1> SUFFICES ASSUME NEW n \in Node, NEW k \in Key PROVE HoldsNewest(n, k)'
  BY DEF StorageIsNewest, HoldsNewest, Seen
<1>1. change \in Change /\ change.key \in Key /\ change.ts \in Timestamp
  BY DEF TypeOK, Call, Change
<1>2. received' = [received EXCEPT ![p] = @ \cup {change}]
  BY DEF HandleBroadcast
<1>3. HoldsNewest(n, k)
  BY NewestMeans
<1>4. \A c \in Seen(n, k) : c.ts \in Timestamp
  BY DEF Seen, TypeOK, Change
<1>7. Nothing \notin Seen(n, k)
  BY NothingAssumption DEF Seen, TypeOK
<1>5. CASE n # p \/ k # change.key
  <2>1. Seen(n, k)' = Seen(n, k)
    BY <1>2, <1>5 DEF Seen, TypeOK
  <2>2. storage'[n][k] = storage[n][k]
    BY <1>1, <1>5 DEF HandleBroadcast, TypeOK
  <2> QED
    BY <1>3, <2>1, <2>2 DEF HoldsNewest
<1>6. CASE n = p /\ k = change.key
  <2>1. Seen(n, k)' = Seen(n, k) \cup {change}
    BY <1>2, <1>6 DEF Seen, TypeOK
  <2>2. Compare(change.ts, change.ts) = 0
    BY <1>1, CompareSame
  <2>3. CASE storage[n][k] = Nothing
    <3>1. storage'[n][k] = change
      BY <1>1, <1>6, <2>3 DEF HandleBroadcast, Newer, TypeOK
    <3>2. Seen(n, k) = {}
      BY <1>3, <1>7, <2>3 DEF HoldsNewest
    <3> QED
      BY <2>1, <2>2, <3>1, <3>2 DEF HoldsNewest
  <2>4. ASSUME storage[n][k] # Nothing PROVE HoldsNewest(n, k)'
    <3> DEFINE old == storage[n][k]
    <3>1. /\ Seen(n, k) # {} /\ old \in Seen(n, k)
          /\ \A c \in Seen(n, k) : Compare(c.ts, old.ts) <= 0
      BY <1>3, <2>4 DEF HoldsNewest
    <3>2. old.ts \in Timestamp
      BY <1>4, <3>1
    <3>3. CASE Compare(old.ts, change.ts) < 0
      <4>1. storage'[n][k] = change
        BY <1>1, <1>6, <3>3 DEF HandleBroadcast, Newer, TypeOK
      <4>2. \A c \in Seen(n, k) : Compare(c.ts, change.ts) <= 0
        BY <1>1, <1>4, <3>1, <3>2, <3>3, CompareTrans
      <4> QED
        BY <2>1, <2>2, <4>1, <4>2 DEF HoldsNewest
    <3>4. CASE ~(Compare(old.ts, change.ts) < 0)
      <4>1. storage'[n][k] = old
        BY <1>6, <2>4, <3>4 DEF HandleBroadcast, Newer
      <4>2. Compare(change.ts, old.ts) <= 0
        <5>1. Compare(old.ts, change.ts) >= 0
          BY <1>1, <3>2, <3>4, CompareType
        <5> QED
          BY <1>1, <3>2, <5>1, CompareFlip
      <4> QED
        BY <2>1, <3>1, <4>1, <4>2 DEF HoldsNewest
    <3> QED
      BY <3>3, <3>4
  <2> QED
    BY <2>3, <2>4
<1> QED
  BY <1>5, <1>6

LEMMA NewestNext == TypeOK /\ StorageIsNewest /\ [Next]_vars => StorageIsNewest'
<1> SUFFICES ASSUME TypeOK, StorageIsNewest, [Next]_vars PROVE StorageIsNewest'
  OBVIOUS
<1>1. CASE UNCHANGED <<storage, received>>
  BY <1>1, SameCopies
<1>2. ASSUME NEW n \in Node, NEW c \in calls, HandleBroadcast(n, c) PROVE StorageIsNewest'
  BY <1>2, NewerKept
<1>3. ASSUME NEW n \in Node, NEW rest, Die(n, rest) PROVE StorageIsNewest'
  BY <1>3, EmptyCopy
<1>4. CASE UNCHANGED vars
  BY <1>1, <1>4 DEF vars
<1>5. ASSUME NEW n \in Node, HandlePatch(n) \/ HandleDelete(n) \/ Restart(n)
      PROVE  StorageIsNewest'
  <2>1. UNCHANGED <<storage, received>>
    BY <1>5 DEF HandlePatch, HandleDelete, BroadcastToAll, Restart
  <2> QED
    BY <1>1, <2>1
<1>6. ASSUME NEW c \in calls, Vanish(c) PROVE StorageIsNewest'
  BY <1>1, <1>6 DEF Vanish
<1>7. ASSUME NEW n \in Node, NEW c \in calls, FatalSameTimestamp(n, c)
      PROVE  StorageIsNewest'
  BY <1>3, <1>7 DEF FatalSameTimestamp
<1>8. ASSUME NEW n \in Node, Die(n, calls) PROVE StorageIsNewest'
  BY <1>3, <1>8
<1> QED
  BY <1>2, <1>4, <1>5, <1>6, <1>7, <1>8 DEF Next, CallFails, Crash

(* A running copy holds, under every key, the newest of the changes it was *)
(* sent since it started (db.go:25-54).                                    *)
THEOREM CopyHoldsNewest == Spec => []StorageIsNewest
<1>1. Init => StorageIsNewest
  BY DEF Init, StorageIsNewest
<1> QED
  BY <1>1, NewestNext, LwwTypeCorrect, PTL DEF Spec

-----------------------------------------------------------------------------
(* Readers.                                                                *)

(* A step of a running copy keeps an entry or replaces it by a newer one.  *)
LEMMA EntryAdvances ==
    ASSUME TypeOK, [Next]_vars, NEW n \in Node, NEW k \in Key, up[n], up'[n]
    PROVE  \/ storage'[n][k] = storage[n][k]
           \/ /\ storage'[n][k] \in Change
              /\ \/ storage[n][k] = Nothing
                 \/ Compare(storage[n][k].ts, storage'[n][k].ts) < 0
<1> DEFINE Goal == \/ storage'[n][k] = storage[n][k]
                   \/ /\ storage'[n][k] \in Change
                      /\ \/ storage[n][k] = Nothing
                         \/ Compare(storage[n][k].ts, storage'[n][k].ts) < 0
<1>1. CASE UNCHANGED storage
  BY <1>1
<1>2. ASSUME NEW p \in Node, NEW rest, Die(p, rest) PROVE Goal
  <2>1. p # n
    BY <1>2 DEF Die, TypeOK
  <2> QED
    BY <1>2, <2>1 DEF Die, TypeOK
<1>3. ASSUME NEW p \in Node, NEW c \in calls, HandleBroadcast(p, c) PROVE Goal
  <2>1. c.change \in Change /\ c.change.key \in Key
    BY DEF TypeOK, Call, Change
  <2>2. CASE p = n /\ k = c.change.key /\ Newer(p, c.change)
    <3>1. storage'[n][k] = c.change
      BY <1>3, <2>1, <2>2 DEF HandleBroadcast, TypeOK
    <3> QED
      BY <2>1, <2>2, <3>1 DEF Newer
  <2>3. CASE ~(p = n /\ k = c.change.key /\ Newer(p, c.change))
    <3>1. storage'[n][k] = storage[n][k]
      BY <1>3, <2>1, <2>3 DEF HandleBroadcast, TypeOK
    <3> QED
      BY <3>1
  <2> QED
    BY <2>2, <2>3
<1>4. CASE UNCHANGED vars
  BY <1>1, <1>4 DEF vars
<1>5. ASSUME NEW p \in Node, HandlePatch(p) \/ HandleDelete(p) \/ Restart(p) PROVE Goal
  BY <1>1, <1>5 DEF HandlePatch, HandleDelete, BroadcastToAll, Restart
<1>6. ASSUME NEW c \in calls, Vanish(c) PROVE Goal
  BY <1>1, <1>6 DEF Vanish
<1>7. ASSUME NEW p \in Node, NEW c \in calls, FatalSameTimestamp(p, c) PROVE Goal
  BY <1>2, <1>7 DEF FatalSameTimestamp
<1> QED
  BY <1>2, <1>3, <1>4, <1>5, <1>6, <1>7 DEF Next, CallFails, Crash

(* Nothing that was overwritten or deleted is read again from a node that  *)
(* did not end in between (db.go:25-64).                                   *)
THEOREM NothingComesBack == Spec => ReadsOnlyAdvance
<1>1. TypeOK /\ [Next]_vars =>
         \A n \in Node, k \in Key :
           up[n] /\ up'[n] /\ Get(n, k)' # Get(n, k) =>
              /\ storage'[n][k] # Nothing
              /\ \/ storage[n][k] = Nothing
                 \/ Compare(storage[n][k].ts, storage'[n][k].ts) < 0
  <2> SUFFICES ASSUME TypeOK, [Next]_vars, NEW n \in Node, NEW k \in Key,
                      up[n], up'[n], Get(n, k)' # Get(n, k)
               PROVE  /\ storage'[n][k] # Nothing
                      /\ \/ storage[n][k] = Nothing
                         \/ Compare(storage[n][k].ts, storage'[n][k].ts) < 0
    OBVIOUS
  <2>1. storage'[n][k] # storage[n][k]
    BY DEF Get
  <2> QED
    BY <2>1, EntryAdvances, NothingAssumption
<1> QED
  BY <1>1, LwwTypeCorrect, PTL DEF Spec, ReadsOnlyAdvance

-----------------------------------------------------------------------------
(* Timestamps, as long as no process has ended and no request names a key  *)
(* twice.  Then a clock is ahead of every timestamp of its node, a target  *)
(* is sent a timestamp under a key once, and what is still to arrive is    *)
(* not there yet.                                                          *)

ClocksAhead ==
    /\ \A c \in calls : c.change.ts.time <= clock[c.change.ts.id]
    /\ \A n \in Node, k \in Key :
         storage[n][k] # Nothing => storage[n][k].ts.time <= clock[storage[n][k].ts.id]

SentOnce ==
    \A c, d \in calls :
        c.to = d.to /\ c.change.key = d.change.key /\ c.change.ts = d.change.ts => c = d

NotThereYet == \A c \in calls : c.status # "broken" => ~Same(c.to, c.change)

OneLife == crashes = 0 => ClocksAhead /\ SentOnce /\ NotThereYet

LEMMA SameMeans == \A a, b \in Timestamp : Compare(a, b) = 0 <=> a = b
<1> SUFFICES ASSUME NEW a \in Timestamp, NEW b \in Timestamp
             PROVE  Compare(a, b) = 0 <=> a = b
  OBVIOUS
<1>1. a.time \in Int /\ a.id \in Int /\ b.time \in Int /\ b.id \in Int
  BY TimestampParts
<1>2. Compare(a, b) = 0 <=> a.time = b.time /\ a.id = b.id
  BY <1>1 DEF Compare
<1>3. a = b <=> a.time = b.time /\ a.id = b.id
  BY DEF Timestamp
<1> QED
  BY <1>2, <1>3

(* A request that names a key once has one entry for it.                   *)
LEMMA AtMostOne ==
    ASSUME NEW S, IsFiniteSet(S), Cardinality(S) <= 1, NEW a \in S, NEW b \in S
    PROVE  a = b
<1>1. Cardinality(S) \in Nat
  BY FS_CardinalityType
<1>2. Cardinality(S) # 0
  BY FS_EmptySet
<1>3. Cardinality(S) = 1
  BY <1>1, <1>2
<1>4. PICK x : S = {x}
  BY <1>3, FS_Singleton
<1> QED
  BY <1>4

(* A request takes a time that is new to its node, and starts one call for *)
(* each key and target.                                                    *)
LEMMA RequestIsNew ==
    ASSUME TypeOK, OneLife, crashes = 0, NEW n \in Node,
           NEW entries \in SUBSET (Key \X (Value \cup {Deleted})),
           \A d, e \in entries : d[1] = e[1] => d = e,
           BroadcastToAll(n, entries)
    PROVE  (ClocksAhead /\ SentOnce /\ NotThereYet)'
<1> DEFINE started(m, e) ==
      [from |-> n, to |-> m, status |-> "open",
       change |-> [key |-> e[1], val |-> e[2], ts |-> Tick(n)]]
           new == {started(m, e) : m \in Node, e \in entries}
<1>1. calls' = calls \cup new
  BY DEF BroadcastToAll, Targets
<1>2. clock[n] \in Nat /\ Tick(n) = [time |-> clock[n] + 1, id |-> n]
  BY DEF TypeOK, Tick
<1>3. clock' = [clock EXCEPT ![n] = clock[n] + 1]
  BY <1>2 DEF BroadcastToAll
<1>4. UNCHANGED storage
  BY DEF BroadcastToAll
<1>5. \A m \in Node : clock[m] \in Nat /\ clock'[m] \in Nat /\ clock[m] <= clock'[m]
  BY <1>3 DEF TypeOK
<1>6. clock'[n] = clock[n] + 1
  BY <1>3 DEF TypeOK
<1>7. \A c \in calls : /\ c.to \in Node /\ c.change \in Change /\ c.change.key \in Key
                       /\ c.change.ts \in Timestamp
                       /\ c.change.ts.time \in Nat /\ c.change.ts.id \in Node
  BY DEF TypeOK, Call, Change, Timestamp
<1>8. \A m \in Node, k \in Key : storage[m][k] # Nothing =>
         /\ storage[m][k].ts \in Timestamp
         /\ storage[m][k].ts.time \in Nat /\ storage[m][k].ts.id \in Node
  BY DEF TypeOK, Change, Timestamp
<1>9. \A c \in new : /\ c.to \in Node /\ c.change.key \in Key
                     /\ c.change.ts = Tick(n)
                     /\ c.change.ts.time = clock[n] + 1 /\ c.change.ts.id = n
  BY <1>2
<1>10. ClocksAhead /\ SentOnce /\ NotThereYet
  BY DEF OneLife
<1>11. \A c \in calls : c.change.ts # Tick(n)
  BY <1>2, <1>7, <1>10 DEF ClocksAhead
<1>12. \A c, d \in new : c.to = d.to /\ c.change.key = d.change.key => c = d
  OBVIOUS
<1> HIDE DEF new
<1>13. ClocksAhead'
  <2>1. \A c \in calls' : c.change.ts.time <= clock'[c.change.ts.id]
    <3>1. \A c \in calls : c.change.ts.time <= clock'[c.change.ts.id]
      BY <1>5, <1>7, <1>10 DEF ClocksAhead
    <3>2. \A c \in new : c.change.ts.time <= clock'[c.change.ts.id]
      BY <1>2, <1>6, <1>9
    <3> QED
      BY <1>1, <3>1, <3>2
  <2>2. \A m \in Node, k \in Key :
          storage[m][k] # Nothing => storage[m][k].ts.time <= clock'[storage[m][k].ts.id]
    BY <1>5, <1>8, <1>10 DEF ClocksAhead
  <2> QED
    BY <1>4, <2>1, <2>2 DEF ClocksAhead
<1>14. SentOnce'
  BY <1>1, <1>9, <1>10, <1>11, <1>12 DEF SentOnce
<1>15. NotThereYet'
  <2>1. ASSUME NEW c \in new PROVE ~Same(c.to, c.change)
    <3> SUFFICES ASSUME storage[c.to][c.change.key] # Nothing,
                        Compare(storage[c.to][c.change.key].ts, c.change.ts) = 0
                 PROVE  FALSE
      BY DEF Same
    <3> DEFINE old == storage[c.to][c.change.key]
    <3>1. old.ts \in Timestamp /\ old.ts.time \in Nat
      BY <1>8, <1>9
    <3>2. c.change.ts \in Timestamp
      BY <1>2, <1>9 DEF Timestamp
    <3>3. old.ts = c.change.ts
      BY <3>1, <3>2, SameMeans
    <3>4. old.ts.time = clock[n] + 1 /\ old.ts.id = n
      BY <1>9, <3>3
    <3>5. old.ts.time <= clock[old.ts.id]
      BY <1>9, <1>10 DEF ClocksAhead
    <3> QED
      BY <1>2, <3>4, <3>5
  <2>2. \A c \in calls : c.status # "broken" => ~Same(c.to, c.change)
    BY <1>10 DEF NotThereYet
  <2> QED
    BY <1>1, <1>4, <2>1, <2>2 DEF NotThereYet, Same
<1> QED
  BY <1>13, <1>14, <1>15

(* What a copy takes is the only call of its timestamp to that node.       *)
LEMMA TakenOnce ==
    ASSUME TypeOK, OneLife, crashes = 0, NEW n \in Node, NEW c \in calls,
           HandleBroadcast(n, c)
    PROVE  (ClocksAhead /\ SentOnce /\ NotThereYet)'
<1> DEFINE broken == [c EXCEPT !.status = "broken"]
<1>1. c \in Call /\ c.change \in Change /\ c.change.key \in Key /\ c.change.ts \in Timestamp
  BY DEF TypeOK, Call, Change
<1>2. broken.to = c.to /\ broken.change = c.change /\ broken.status = "broken"
  BY <1>1 DEF Call
<1>3. calls' \subseteq (calls \ {c}) \cup {broken}
  BY DEF HandleBroadcast, Return
<1>4. ClocksAhead /\ SentOnce /\ NotThereYet
  BY DEF OneLife
<1>5. c.to = n /\ UNCHANGED clock
  BY DEF HandleBroadcast, Arrives
<1>6. \A m \in Node, k \in Key :
         \/ storage'[m][k] = storage[m][k]
         \/ m = n /\ k = c.change.key /\ storage'[m][k] = c.change
  BY <1>1 DEF HandleBroadcast, TypeOK
<1>7. \A d \in calls : d \in Call /\ d.to \in Node /\ d.change.key \in Key
                       /\ d.change.ts \in Timestamp
  BY DEF TypeOK, Call, Change
<1> HIDE DEF broken
<1>8. ClocksAhead'
  <2>1. \A d \in calls' : d.change.ts.time <= clock[d.change.ts.id]
    BY <1>2, <1>3, <1>4 DEF ClocksAhead
  <2>2. \A m \in Node, k \in Key :
          storage'[m][k] # Nothing => storage'[m][k].ts.time <= clock[storage'[m][k].ts.id]
    BY <1>4, <1>6 DEF ClocksAhead
  <2> QED
    BY <1>5, <2>1, <2>2 DEF ClocksAhead
<1>9. SentOnce'
  BY <1>2, <1>3, <1>4 DEF SentOnce
<1>10. NotThereYet'
  <2> SUFFICES ASSUME NEW d \in calls', d.status # "broken" PROVE ~Same(d.to, d.change)'
    BY DEF NotThereYet
  <2>1. d \in calls /\ d # c
    BY <1>2, <1>3
  <2>2. ~Same(d.to, d.change)
    BY <1>4, <2>1 DEF NotThereYet
  <2>3. CASE storage'[d.to][d.change.key] = storage[d.to][d.change.key]
    BY <2>2, <2>3 DEF Same
  <2>4. CASE /\ d.to = n /\ d.change.key = c.change.key
             /\ storage'[d.to][d.change.key] = c.change
    <3>1. d.change.ts # c.change.ts
      BY <1>4, <1>5, <2>1, <2>4 DEF SentOnce
    <3>2. Compare(c.change.ts, d.change.ts) # 0
      BY <1>1, <1>7, <2>1, <3>1, SameMeans
    <3> QED
      BY <2>4, <3>2 DEF Same
  <2> QED
    BY <1>6, <1>7, <2>1, <2>3, <2>4
<1> QED
  BY <1>8, <1>9, <1>10

LEMMA OneLifeNext ==
    ASSUME MaxPerKey = 1, TypeOK, OneLife, [Next]_vars
    PROVE  OneLife'
<1> SUFFICES ASSUME crashes' = 0 PROVE (ClocksAhead /\ SentOnce /\ NotThereYet)'
  BY DEF OneLife
<1>1. ASSUME NEW n \in Node, NEW rest, Die(n, rest) PROVE FALSE
  BY <1>1 DEF Die, TypeOK
<1>2. CASE UNCHANGED <<clock, storage, crashes>> /\ calls' \subseteq calls
  <2>1. ClocksAhead /\ SentOnce /\ NotThereYet
    BY <1>2 DEF OneLife
  <2>2. ClocksAhead'
    BY <1>2, <2>1 DEF ClocksAhead
  <2>3. SentOnce'
    BY <1>2, <2>1 DEF SentOnce
  <2>4. NotThereYet'
    BY <1>2, <2>1 DEF NotThereYet, Same
  <2> QED
    BY <2>2, <2>3, <2>4
<1>3. ASSUME NEW n \in Node, HandlePatch(n)
      PROVE  (ClocksAhead /\ SentOnce /\ NotThereYet)'
  <2>1. PICK entries \in SUBSET (Key \X Value) :
          /\ IsFiniteSet(entries)
          /\ \A k \in Key : Cardinality({e \in entries : e[1] = k}) <= MaxPerKey
          /\ BroadcastToAll(n, entries)
    BY <1>3 DEF HandlePatch
  <2>2. \A d, e \in entries : d[1] = e[1] => d = e
    <3> SUFFICES ASSUME NEW d \in entries, NEW e \in entries, d[1] = e[1] PROVE d = e
      OBVIOUS
    <3> DEFINE same == {x \in entries : x[1] = d[1]}
    <3>1. d[1] \in Key
      OBVIOUS
    <3>2. IsFiniteSet(same)
      BY <2>1, FS_Subset
    <3>3. Cardinality(same) <= 1
      BY <2>1, <3>1
    <3>4. d \in same /\ e \in same
      OBVIOUS
    <3> HIDE DEF same
    <3> QED
      BY <3>2, <3>3, <3>4, AtMostOne
  <2>3. entries \in SUBSET (Key \X (Value \cup {Deleted}))
    OBVIOUS
  <2>4. crashes = 0
    BY <2>1 DEF BroadcastToAll
  <2> QED
    BY <2>1, <2>2, <2>3, <2>4, RequestIsNew
<1>4. ASSUME NEW n \in Node, HandleDelete(n)
      PROVE  (ClocksAhead /\ SentOnce /\ NotThereYet)'
  <2>1. PICK keys \in SUBSET Key : BroadcastToAll(n, keys \X {Deleted})
    BY <1>4 DEF HandleDelete
  <2>2. \A d, e \in keys \X {Deleted} : d[1] = e[1] => d = e
    OBVIOUS
  <2>3. keys \X {Deleted} \in SUBSET (Key \X (Value \cup {Deleted}))
    OBVIOUS
  <2>4. crashes = 0
    BY <2>1 DEF BroadcastToAll
  <2> QED
    BY <2>1, <2>2, <2>3, <2>4, RequestIsNew
<1>5. ASSUME NEW n \in Node, NEW c \in calls, HandleBroadcast(n, c)
      PROVE  (ClocksAhead /\ SentOnce /\ NotThereYet)'
  BY <1>5, TakenOnce DEF HandleBroadcast
<1>6. ASSUME NEW n \in Node, NEW c \in calls, FatalSameTimestamp(n, c) PROVE FALSE
  BY <1>1, <1>6 DEF FatalSameTimestamp
<1>7. ASSUME NEW n \in Node, Restart(n) PROVE (ClocksAhead /\ SentOnce /\ NotThereYet)'
  BY <1>2, <1>7 DEF Restart
<1>8. ASSUME NEW c \in calls, Vanish(c) PROVE (ClocksAhead /\ SentOnce /\ NotThereYet)'
  BY <1>2, <1>8 DEF Vanish
<1>9. CASE UNCHANGED vars
  BY <1>2, <1>9 DEF vars
<1> QED
  BY <1>1, <1>3, <1>4, <1>5, <1>6, <1>7, <1>8, <1>9 DEF Next, CallFails, Crash

(* While no process has ended, no change meets its own timestamp, if no    *)
(* request names a key twice (server.go:96-101, db.go:32, 47).             *)
THEOREM OneLifeTimestamps ==
    ASSUME MaxPerKey = 1
    PROVE  Spec => []TimestampsDifferOneLife
<1>1. Init => OneLife
  BY DEF Init, OneLife, ClocksAhead, SentOnce, NotThereYet
<1>2. TypeOK /\ OneLife /\ [Next]_vars => OneLife'
  BY OneLifeNext
<1>3. OneLife => TimestampsDifferOneLife
  BY DEF OneLife, NotThereYet, TimestampsDifferOneLife, TimestampsDiffer, Arrives
<1> QED
  BY <1>1, <1>2, <1>3, LwwTypeCorrect, PTL DEF Spec

=============================================================================

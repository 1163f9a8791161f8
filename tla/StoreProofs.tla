---------------------------- MODULE StoreProofs ----------------------------
(***************************************************************************)
(* The store under its clients: it is a Raft whatever they do, and as long *)
(* as it is Calm the maps of all nodes follow one order of writes, across  *)
(* elections and restarts.  The terms of the first and the second election *)
(* that are won, old and new, are parameters of what is said about them.   *)
(***************************************************************************)
EXTENDS Store, RaftLengthProofs, WellFoundedInduction

-----------------------------------------------------------------------------
(* Every step of the store is one of its replication core, or leaves the   *)
(* core alone.                                                             *)

LEMMA CoreSteps ==
    ASSUME NEW n \in Node,
           \/ Core(Election(n)) \/ Core(Replication(n)) \/ Restart(n)
           \/ \E w \in Value : PassCheck(n, w) \/ Submit(n, w)
    PROVE  Election(n) \/ Replication(n) \/ Client(n) \/ Failure(n)
BY DEF Core, Restart, PassCheck, Submit, Client

LEMMA CoreRests ==
    ASSUME NEW n \in Node,
           \/ Consume(n)
           \/ \E w \in Value : FailCheck(n, w) \/ Redirect(n, w)
           \/ \E r \in Read : RedirectRead(n, r) \/ PassRead(n, r) \/ Get(n, r)
    PROVE  UNCHANGED vars
BY DEF Consume, FailCheck, Redirect, RedirectRead, PassRead, Get

LEMMA StoreStep == [StoreNext]_storeVars => [Next]_vars
<1> SUFFICES ASSUME [StoreNext]_storeVars PROVE [Next]_vars
  OBVIOUS
<1>1. CASE UNCHANGED storeVars
  BY <1>1 DEF storeVars
<1>2. CASE StoreNext
  BY <1>2, CoreSteps, CoreRests DEF StoreNext, Next
<1> QED
  BY <1>1, <1>2

(* What is proved of the replication core holds in the store: no client,   *)
(* handler or database makes it do anything else.                          *)
THEOREM StoreIsRaft == StoreSpec => Spec
<1>1. StoreInit => Init
  BY DEF StoreInit
<1> QED
  BY <1>1, StoreStep, PTL DEF StoreSpec, Spec

-----------------------------------------------------------------------------
(* Types.                                                                  *)

LEMMA WritesType ==
    ASSUME NEW s \in Seq(Entry)
    PROVE  /\ Writes(s) \in Seq(Value \cup {Nil}) /\ Len(Writes(s)) = Len(s)
           /\ \A i \in 1..Len(s) : Writes(s)[i] = s[i].val
<1>1. Len(s) \in Nat /\ DOMAIN s = 1..Len(s)
  BY LenProperties
<1>2. \A i \in 1..Len(s) : s[i].val \in Value \cup {Nil}
  <2>1. \A i \in 1..Len(s) : s[i] \in Entry
    BY ElementOfSeq
  <2> QED
    BY <2>1 DEF Entry
<1>3. Writes(s) = [i \in 1..Len(s) |-> s[i].val]
  BY <1>1 DEF Writes
<1> QED
  BY <1>1, <1>2, <1>3, IsASeq

(* What was handed on stays handed on, until the process ends.             *)
LEMMA AppliedGrows ==
    ASSUME TypeOK, TypeOK', AppliedGapless, AppliedGapless', NEW n \in Node,
           Election(n) \/ Replication(n), NEW p \in Node
    PROVE  Len(applied[p]) <= Len(applied'[p])
<1>1. /\ lastApplied[p] \in Nat /\ lastApplied'[p] \in Nat
      /\ Len(applied[p]) = lastApplied[p] /\ Len(applied'[p]) = lastApplied'[p]
  BY DEF TypeOK, AppliedGapless
<1>2. CASE UNCHANGED commitVars
  BY <1>1, <1>2 DEF commitVars
<1>3. ASSUME NEW entries, NEW commit, CommitChanges(n, entries, commit)
      PROVE  lastApplied[p] <= lastApplied'[p]
  <2>1. PICK limit : limit = CommitLimit(entries, commit)
    OBVIOUS
  <2>2. lastApplied[n] <= limit /\ lastApplied' = [lastApplied EXCEPT ![n] = limit]
    BY <1>3, <2>1 DEF CommitChanges
  <2>3. lastApplied'[p] = IF p = n THEN limit ELSE lastApplied[p]
    BY <2>2, Zenon DEF TypeOK
  <2> QED
    BY <1>1, <2>2, <2>3
<1>4. UNCHANGED commitVars \/ \E entries, commit : CommitChanges(n, entries, commit)
  <2>1. CASE Election(n)
    BY <2>1 DEF Election, TimerFires, CheckAlreadyLeader, StartElection, CountVote,
                StepDown, LoseElection, WinElection, HandleRequestVote
  <2>2. CASE AcceptAppend(n)
    BY <2>2 DEF AcceptAppend
  <2>3. CASE CalcCommit(n)
    BY <2>3 DEF CalcCommit
  <2>4. CASE RejectStaleAppend(n) \/ RejectMismatch(n) \/ PanicInAppend(n)
               \/ StartBroadcast(n) \/ HandleAppendAnswer(n) \/ EndBroadcast(n)
    BY <2>4 DEF RejectStaleAppend, RejectMismatch, PanicInAppend, StartBroadcast,
                HandleAppendAnswer, EndBroadcast
  <2> QED
    BY <2>1, <2>2, <2>3, <2>4 DEF Replication
<1> QED
  BY <1>1, <1>2, <1>3, <1>4

LEMMA StoreTypeInit == StoreInit => StoreTypeOK
BY DEF StoreInit, Init, StoreTypeOK, Stage

LEMMA CoreTypes ==
    ASSUME TypeOK, TypeOK', AppliedGapless, AppliedGapless', StoreTypeOK,
           NEW n \in Node,
           Core(Election(n)) \/ Core(Replication(n))
    PROVE  StoreTypeOK'
<1>1. UNCHANGED <<at, stage, taken>>
  BY DEF Core, requestVars, dbVars
<1>2. order' \in Seq(Value \cup {Nil})
  <2>1. CASE \E p \in Node : Len(applied'[p]) > Len(order)
    <3>1. PICK q : q = CHOOSE p \in Node : Len(applied'[p]) > Len(order)
      OBVIOUS
    <3>2. q \in Node /\ order' = Writes(applied'[q])
      BY <2>1, <3>1 DEF Core
    <3>3. applied'[q] \in Seq(Entry)
      BY <3>2 DEF TypeOK
    <3> QED
      BY <3>2, <3>3, WritesType
  <2>2. CASE ~ \E p \in Node : Len(applied'[p]) > Len(order)
    BY <2>2 DEF Core, StoreTypeOK
  <2> QED
    BY <2>1, <2>2
<1>3. ASSUME NEW p \in Node PROVE taken'[p] <= Len(applied'[p])
  <2>1. Len(applied[p]) <= Len(applied'[p])
    BY AppliedGrows DEF Core
  <2>2. applied[p] \in Seq(Entry) /\ applied'[p] \in Seq(Entry)
    BY DEF TypeOK
  <2>3. /\ Len(applied[p]) \in Nat /\ Len(applied'[p]) \in Nat /\ taken[p] \in Nat
        /\ taken[p] <= Len(applied[p])
    BY <2>2, LenProperties DEF StoreTypeOK
  <2> QED
    BY <1>1, <2>1, <2>3
<1> QED
  BY <1>1, <1>2, <1>3 DEF StoreTypeOK

LEMMA StoreTypeNext ==
    ASSUME TypeOK, TypeOK', AppliedGapless, AppliedGapless', StoreTypeOK,
           [StoreNext]_storeVars
    PROVE  StoreTypeOK'
<1> USE DEF StoreTypeOK, Stage, AnyRequest, requestVars, dbVars
<1>1. CASE UNCHANGED storeVars
  BY <1>1 DEF storeVars, vars, commitVars
<1>2. ASSUME NEW n \in Node, NEW w \in Value, PassCheck(n, w) PROVE StoreTypeOK'
  BY <1>2 DEF PassCheck, Move, CheckLeader, commitVars
<1>3. ASSUME NEW n \in Node, NEW w \in Value, FailCheck(n, w) PROVE StoreTypeOK'
  BY <1>3 DEF FailCheck, Move, vars, commitVars
<1>4. ASSUME NEW n \in Node, NEW w \in Value, Redirect(n, w) PROVE StoreTypeOK'
  <2>1. RedirectTo(n) \subseteq Node
    BY DEF RedirectTo, TypeOK
  <2> QED
    BY <1>4, <2>1 DEF Redirect, Move, vars, commitVars
<1>5. ASSUME NEW n \in Node, NEW w \in Value, Submit(n, w) PROVE StoreTypeOK'
  BY <1>5 DEF Submit, ApplyRequest, commitVars
<1>6. ASSUME NEW n \in Node, NEW r \in Read, RedirectRead(n, r) PROVE StoreTypeOK'
  BY <1>6 DEF RedirectRead, Move, vars, commitVars
<1>7. ASSUME NEW n \in Node, NEW r \in Read, PassRead(n, r) \/ Get(n, r) PROVE StoreTypeOK'
  BY <1>7 DEF PassRead, Get, Move, vars, commitVars
<1>8. ASSUME NEW n \in Node, Consume(n) PROVE StoreTypeOK'
  <2>1. UNCHANGED <<applied, order>> /\ taken' = [taken EXCEPT ![n] = taken[n] + 1]
    BY <1>8 DEF Consume, vars, commitVars
  <2>2. taken[n] < Len(applied[n]) /\ applied[n] \in Seq(Entry) /\ Len(applied[n]) \in Nat
    BY <1>8, LenProperties DEF Consume, TypeOK
  <2>3. \A p \in Node : taken'[p] \in Nat /\ taken'[p] <= Len(applied'[p])
    BY <2>1, <2>2
  <2>4. /\ at' \in [AnyRequest -> Node \cup {Nil}]
        /\ stage' \in [AnyRequest -> Stage]
    <3>1. CASE UNCHANGED requestVars
      BY <3>1
    <3>2. ASSUME NEW w, Move(w, n, "answered")
          PROVE  /\ at' \in [AnyRequest -> Node \cup {Nil}]
                 /\ stage' \in [AnyRequest -> Stage]
      BY <3>2 DEF Move
    <3> QED
      BY <1>8, <3>1, <3>2 DEF Consume
  <2> QED
    BY <2>1, <2>3, <2>4
<1>9. ASSUME NEW n \in Node, Restart(n) PROVE StoreTypeOK'
  <2>1. applied' = [applied EXCEPT ![n] = <<>>]
    BY <1>9 DEF Restart, Failure, Crash, CrashInVote, CrashInAppend, Reboot
  <2>2. taken' = [taken EXCEPT ![n] = 0] /\ order' = order
    BY <1>9 DEF Restart, NewDb
  <2>3. /\ at' \in [AnyRequest -> Node \cup {Nil}]
        /\ stage' \in [AnyRequest -> Stage]
    BY <1>9 DEF Restart, Resend
  <2>4. \A p \in Node : taken'[p] \in Nat /\ taken'[p] <= Len(applied'[p])
    BY <2>1, <2>2 DEF TypeOK
  <2> QED
    BY <2>2, <2>3, <2>4
<1> QED
  BY <1>1, <1>2, <1>3, <1>4, <1>5, <1>6, <1>7, <1>8, <1>9, CoreTypes DEF StoreNext

(* What the clients, the handlers and the databases hold; a database has   *)
(* taken no more from its queue than was put in (env.go:61, db.go:32-37).  *)
THEOREM StoreTypeCorrect == StoreSpec => []StoreTypeOK
<1> QED
  BY StoreTypeInit, StoreTypeNext, StoreIsRaft, TypeCorrect, EveryIndexOnce, PTL DEF StoreSpec

-----------------------------------------------------------------------------
(* MapAfter, a recursive function: the library's theorems on recursion and *)
(* induction take operators, so both are done by hand, from the natural    *)
(* numbers being well-founded.                                             *)

LEMMA UpTo ==
    ASSUME NEW n \in Nat, NEW T, 0 \in T,
           \A k \in 0..(n - 1) : k \in T => k + 1 \in T
    PROVE  \A k \in 0..n : k \in T
<1> DEFINE U == {k \in 0..n : k \notin T}
           R == OpToRel(<, Nat)
<1> SUFFICES ASSUME U # {} PROVE FALSE
  OBVIOUS
<1>1. IsWellFoundedOn(R, Nat) /\ \A x, y \in Nat : y < x => <<y, x>> \in R
  BY NatLessThanWellFounded DEF OpToRel
<1>2. U \in SUBSET Nat
  OBVIOUS
<1> HIDE DEF R
<1>3. PICK m \in U : \A k \in U : ~(<<k, m>> \in R)
  BY <1>1, <1>2, WFMin
<1>4. m \in 0..n /\ m # 0
  OBVIOUS
<1>5. m - 1 \in 0..(n - 1) /\ m - 1 \in Nat /\ m \in Nat /\ m - 1 < m
  BY <1>4
<1>6. m - 1 \notin U
  BY <1>1, <1>3, <1>5
<1> QED
  BY <1>3, <1>5, <1>6

\* m holds the map after each of the first k writes of s.
MapsOf(m, s, k) ==
    m = [j \in 0..k |-> IF j = 0 THEN EmptyDb ELSE CommitEntry(m[j - 1], Op[s[j]])]

LEMMA MapsExist ==
    ASSUME NEW s, NEW n \in Nat PROVE \E m : MapsOf(m, s, n)
<1> DEFINE T == {k \in Nat : \E m : MapsOf(m, s, k)}
<1>1. 0 \in T
  <2>1. PICK m : m = [j \in 0..0 |-> EmptyDb]
    OBVIOUS
  <2>2. MapsOf(m, s, 0)
    BY <2>1 DEF MapsOf
  <2> QED
    BY <2>2
<1>2. ASSUME NEW k \in 0..(n - 1), k \in T PROVE k + 1 \in T
  <2>1. PICK m : MapsOf(m, s, k)
    BY <1>2
  <2>2. PICK next : next = CommitEntry(m[k], Op[s[k + 1]])
    OBVIOUS
  <2>3. PICK u : u = [j \in 0..(k + 1) |-> IF j <= k THEN m[j] ELSE next]
    OBVIOUS
  <2>4. ASSUME NEW j \in 0..(k + 1)
        PROVE  u[j] = IF j = 0 THEN EmptyDb ELSE CommitEntry(u[j - 1], Op[s[j]])
    <3>1. CASE j = k + 1
      <4>1. u[j] = next /\ u[j - 1] = m[k] /\ s[j] = s[k + 1] /\ j # 0
        BY <2>3, <3>1
      <4> QED
        BY <2>2, <4>1
    <3>2. CASE j = 0
      <4>1. u[j] = m[0] /\ 0 \in 0..k
        BY <2>3, <3>2
      <4> QED
        BY <2>1, <3>2, <4>1 DEF MapsOf
    <3>3. CASE j \in 1..k
      <4>1. u[j] = m[j] /\ u[j - 1] = m[j - 1] /\ j \in 0..k /\ j # 0
        BY <2>3, <3>3
      <4> QED
        BY <2>1, <4>1 DEF MapsOf
    <3> QED
      BY <3>1, <3>2, <3>3
  <2>5. MapsOf(u, s, k + 1)
    <3>1. u = [j \in 0..(k + 1) |-> u[j]]
      BY <2>3
    <3> QED
      BY <2>4, <3>1, Zenon DEF MapsOf
  <2> QED
    BY <2>5
<1> HIDE DEF T
<1>3. n \in T
  BY <1>1, <1>2, UpTo
<1> QED
  BY <1>3 DEF T

LEMMA SameMaps ==
    ASSUME NEW s, NEW t, NEW m, NEW u, NEW k \in Nat, NEW l \in Nat, k <= l,
           MapsOf(m, s, k), MapsOf(u, t, l), \A i \in 1..k : s[i] = t[i]
    PROVE  \A i \in 0..k : m[i] = u[i]
<1> DEFINE T == {i \in 0..k : m[i] = u[i]}
<1>1. 0 \in T
  BY DEF MapsOf
<1>2. ASSUME NEW i \in 0..(k - 1), i \in T PROVE i + 1 \in T
  <2>1. i + 1 \in 0..k /\ i + 1 \in 0..l /\ i + 1 \in 1..k /\ i + 1 # 0 /\ (i + 1) - 1 = i
    OBVIOUS
  <2>2. m[i + 1] = CommitEntry(m[i], Op[s[i + 1]])
    BY <2>1 DEF MapsOf
  <2>3. u[i + 1] = CommitEntry(u[i], Op[t[i + 1]])
    BY <2>1 DEF MapsOf
  <2> QED
    BY <1>2, <2>1, <2>2, <2>3
<1> HIDE DEF T
<1>3. \A i \in 0..k : i \in T
  BY <1>1, <1>2, UpTo
<1> QED
  BY <1>3 DEF T

LEMMA AbstractDb ==
    /\ Abstract!EmptyDb = EmptyDb
    /\ \A d, o : Abstract!Succeeds(d, o) <=> Succeeds(d, o)
    /\ \A d, o : Abstract!CommitEntry(d, o) = CommitEntry(d, o)
<1>1. \A d, o : Abstract!Succeeds(d, o) <=> Succeeds(d, o)
  BY DEF Abstract!Succeeds, Succeeds
<1>2. \A d, o : Abstract!CommitEntry(d, o) = CommitEntry(d, o)
  BY <1>1 DEF Abstract!CommitEntry, CommitEntry
<1> QED
  BY <1>1, <1>2 DEF Abstract!EmptyDb, EmptyDb

\* What MapAfter looks its maps up in.
Maps(s) ==
    CHOOSE m : m = [j \in 0..Len(s) |->
      IF j = 0 THEN Abstract!EmptyDb ELSE Abstract!CommitEntry(m[j - 1], Op[s[j]])]

LEMMA MapsAre ==
    ASSUME NEW s, Len(s) \in Nat PROVE MapsOf(Maps(s), s, Len(s))
<1>1. ASSUME NEW m
      PROVE  MapsOf(m, s, Len(s)) <=>
               m = [j \in 0..Len(s) |-> IF j = 0 THEN Abstract!EmptyDb
                                        ELSE Abstract!CommitEntry(m[j - 1], Op[s[j]])]
  BY AbstractDb DEF MapsOf
<1>2. \E m : MapsOf(m, s, Len(s))
  BY MapsExist
<1> QED
  BY <1>1, <1>2, Zenon DEF Maps

LEMMA MapAfterIs ==
    /\ \A i : Abstract!MapAfter(i) = Maps(order)[i]
    /\ \A i : Abstract!MapAfter(i)' = Maps(order')[i]
BY DEF Abstract!MapAfter, Maps

LEMMA MapOfNone ==
    ASSUME Len(order) \in Nat PROVE Abstract!MapAfter(0) = EmptyDb
BY MapsAre, MapAfterIs DEF MapsOf

LEMMA MapOfNext ==
    ASSUME Len(order) \in Nat, NEW j \in 0..(Len(order) - 1)
    PROVE  Abstract!MapAfter(j + 1) = CommitEntry(Abstract!MapAfter(j), Op[order[j + 1]])
<1>1. j + 1 \in 0..Len(order) /\ j + 1 # 0 /\ (j + 1) - 1 = j
  OBVIOUS
<1>2. PICK m : m = Maps(order)
  OBVIOUS
<1>3. MapsOf(m, order, Len(order))
  BY <1>2, MapsAre
<1>4. m[j + 1] = CommitEntry(m[j], Op[order[j + 1]])
  BY <1>1, <1>3 DEF MapsOf
<1> QED
  BY <1>2, <1>4, MapAfterIs

LEMMA MapStays ==
    ASSUME Len(order) \in Nat, Len(order') \in Nat, Len(order) <= Len(order'),
           \A i \in 1..Len(order) : order'[i] = order[i]
    PROVE  \A i \in 0..Len(order) : Abstract!MapAfter(i)' = Abstract!MapAfter(i)
<1>1. MapsOf(Maps(order), order, Len(order)) /\ MapsOf(Maps(order'), order', Len(order'))
  BY MapsAre
<1>2. \A i \in 0..Len(order) : Maps(order)[i] = Maps(order')[i]
  BY <1>1, SameMaps
<1> QED
  BY <1>2, MapAfterIs

-----------------------------------------------------------------------------
(* Two terms, old (the first) and new (the second): who has won them, and  *)
(* what the logs then have in common.                                      *)

Agree(s, t, k) == \A i \in 1..k : i <= Len(s) /\ i <= Len(t) => s[i].val = t[i].val
Follows(s, t) == Len(s) <= Len(t) /\ Agree(s, t, Len(s))

WinsTerm(t, n) == <<t, n>> \in wins

\* No election is won but those of two terms.
OnlyWon(old, new) == \A w \in wins : w[1] \in {old, new}

\* An operation is taken up by nodes that have led.
Writers == \A n \in Node : checked[n] # {} => \E t \in Nat : WinsTerm(t, n)

Nobody == wins = {} /\ \A n \in Node : Len(log[n]) = 0

\* a has won the first term, and is the only writer.
OneTerm(old, a) ==
    /\ WinsTerm(old, a) /\ \A w \in wins : w[1] = old
    /\ \A n \in Node : Follows(log[n], log[a])

\* What leader a of the first term may still come to count is up to B.
CountsUpTo(old, a, B) ==
    \A A, S \in SUBSET Node : \A c \in Nat \ {0} : Counted(a, A, S, c, old) => c <= B

\* What the old leader a and the new one b have to do with each other.
Predecessor(old, a, b, B) ==
    /\ B <= Len(log[a])
    /\ leading[b] => /\ nextIndex[b][a] - 1 \in B..Len(log[a])
                     /\ ~Refuses(a, b)
    /\ CountsUpTo(old, a, B)

\* Where leader b of the second term asks n to append.
Successor(new, b, n, B) ==
    /\ Agree(log[n], log[b], nextIndex[b][n] - 1)
    /\ currentTerm[n] < new => nextIndex[b][n] - 1 <= B
    /\ Answers(n, b) => currentTerm[n] >= new /\ Follows(log[b], log[n])

\* b has won the second term, with a log of length B, up to which all logs
\* agree.
TwoTerms(old, new, b, B) ==
    /\ WinsTerm(new, b) /\ B <= Len(log[b])
    /\ \A n \in Node : Agree(log[n], log[b], B)
    /\ leading[b] => \A n \in Node \ {b} : Successor(new, b, n, B)
    /\ \A a \in Node \ {b} : WinsTerm(old, a) => Predecessor(old, a, b, B)
    /\ (\A a \in Node : ~WinsTerm(old, a)) => B = 0

LEMMA WinsCome ==
    ASSUME [Next]_vars PROVE wins' = wins \/ \E n \in Node : WinElection(n)
<1> USE DEF history
<1>1. CASE UNCHANGED vars
  BY <1>1 DEF vars
<1>2. ASSUME NEW n \in Node, Election(n), ~WinElection(n) PROVE wins' = wins
  BY <1>2 DEF Election, TimerFires, CheckAlreadyLeader, StartElection, CountVote,
              StepDown, LoseElection, HandleRequestVote
<1>3. ASSUME NEW n \in Node, Replication(n) PROVE wins' = wins
  BY <1>3 DEF Replication, RejectStaleAppend, RejectMismatch, AcceptAppend, PanicInAppend,
              StartBroadcast, CalcCommit, HandleAppendAnswer, EndBroadcast
<1>4. ASSUME NEW n \in Node, Client(n) \/ Failure(n) PROVE wins' = wins
  BY <1>4 DEF Client, CheckLeader, ApplyRequest, Failure, Crash, CrashInVote,
              CrashInAppend, Reboot
<1> QED
  BY <1>1, <1>2, <1>3, <1>4 DEF Next, IdleTick

-----------------------------------------------------------------------------
(* Operations are taken up by leaders, and are operations.                 *)

Written == \A n \in Node : \A i \in 1..Len(log[n]) : log[n][i].val \in Value

LEMMA ChecksCome ==
    ASSUME TypeOK, [Next]_vars, NEW n \in Node
    PROVE  checked'[n] \subseteq checked[n] \/ leading[n]
<1> USE DEF clientVars
<1>1. CASE UNCHANGED vars
  BY <1>1 DEF vars
<1>2. ASSUME NEW p \in Node, Election(p) PROVE checked' = checked
  BY <1>2 DEF Election, TimerFires, CheckAlreadyLeader, StartElection, CountVote,
              StepDown, LoseElection, WinElection, HandleRequestVote
<1>3. ASSUME NEW p \in Node, Replication(p) PROVE checked' = checked
  BY <1>3 DEF Replication, RejectStaleAppend, RejectMismatch, AcceptAppend, PanicInAppend,
              StartBroadcast, CalcCommit, HandleAppendAnswer, EndBroadcast
<1>4. ASSUME NEW p \in Node, NEW v \in Value, CheckLeader(p, v)
      PROVE  checked'[n] \subseteq checked[n] \/ leading[n]
  BY <1>4 DEF CheckLeader, TypeOK
<1>5. ASSUME NEW p \in Node, NEW v \in Value, ApplyRequest(p, v)
      PROVE  checked'[n] \subseteq checked[n]
  BY <1>5 DEF ApplyRequest, TypeOK
<1>6. ASSUME NEW p \in Node, Failure(p) PROVE checked'[n] \subseteq checked[n]
  <2>1. checked' = [checked EXCEPT ![p] = {}]
    BY <1>6 DEF Failure, Crash, CrashInVote, CrashInAppend, Reboot
  <2> QED
    BY <2>1 DEF TypeOK
<1> QED
  BY <1>1, <1>2, <1>3, <1>4, <1>5, <1>6 DEF Next, IdleTick, Client

LEMMA WritersNext ==
    ASSUME Known, LeadersWon, TypeOK', wins \subseteq wins', Writers, [Next]_vars
    PROVE  Writers'
<1> SUFFICES ASSUME NEW n \in Node, checked'[n] # {}
             PROVE  \E t \in Nat : WinsTerm(t, n)'
  BY DEF Writers
<1>1. CASE checked'[n] \subseteq checked[n]
  <2>1. PICK t \in Nat : WinsTerm(t, n)
    BY <1>1 DEF Writers
  <2> QED
    BY <2>1 DEF WinsTerm
<1>2. CASE leading[n]
  <2>1. <<currentTerm[n], n>> \in wins /\ currentTerm[n] \in Nat
    BY <1>2 DEF Known, TypeOK, LeadersWon
  <2> QED
    BY <2>1 DEF WinsTerm
<1> QED
  BY <1>1, <1>2, ChecksCome DEF Known

LEMMA TakenFrom ==
    ASSUME TypeOK, TypeOK', NEW p \in Node, NEW l \in Node, TakesOver(p, l)
    PROVE  /\ nextIndex[l][p] \in Nat /\ Len(log[p]) \in Nat /\ Len(log[l]) \in Nat
           /\ Len(log'[p]) \in Nat /\ Len(log'[p]) <= Len(log[l])
           /\ nextIndex[l][p] - 1 <= Len(log[p])
           /\ log'[l] = log[l]
           /\ \A i \in 1..Len(log'[p]) :
                \/ /\ i <= nextIndex[l][p] - 1 /\ i \in 1..Len(log[p])
                   /\ log'[p][i].val = log[p][i].val
                \/ /\ i > nextIndex[l][p] - 1 /\ i \in 1..Len(log[l])
                   /\ log'[p][i].val = log[l][i].val
<1>1. /\ log[p] \in Seq(Entry) /\ log[l] \in Seq(Entry) /\ log'[p] \in Seq(Entry)
      /\ nextIndex[l][p] \in Nat
  BY DEF TypeOK
<1>2. Len(log[p]) \in Nat /\ Len(log[l]) \in Nat /\ Len(log'[p]) \in Nat
  BY <1>1, LenProperties
<1>3. /\ Len(log'[p]) <= Len(log[l]) /\ nextIndex[l][p] - 1 <= Len(log[p])
      /\ log'[l] = log[l]
      /\ \A i \in 1..Len(log'[p]) :
            log'[p][i].val = IF i <= nextIndex[l][p] - 1 THEN log[p][i].val ELSE log[l][i].val
  BY <1>1, <1>2 DEF TakesOver, Joined, Rests
<1>4. PICK k \in Int : k = nextIndex[l][p] - 1
  BY <1>1
<1>5. ASSUME NEW i \in 1..Len(log'[p])
      PROVE  \/ /\ i <= k /\ i \in 1..Len(log[p])
                /\ log'[p][i].val = log[p][i].val
             \/ /\ i > k /\ i \in 1..Len(log[l])
                /\ log'[p][i].val = log[l][i].val
  <2>1. CASE i <= k
    BY <1>2, <1>3, <1>4, <2>1
  <2>2. CASE i > k
    <3>1. i \in 1..Len(log[l]) /\ ~(i <= k)
      BY <1>2, <1>3, <2>2
    <3> QED
      BY <1>3, <1>4, <2>2, <3>1
  <2> QED
    BY <2>1, <2>2
<1> QED
  BY <1>1, <1>2, <1>3, <1>4, <1>5

LEMMA WrittenNext ==
    ASSUME Good, TypeOK', StepFacts, Written PROVE Written'
<1> SUFFICES ASSUME NEW n \in Node, NEW i \in 1..Len(log'[n])
             PROVE  log'[n][i].val \in Value
  BY DEF Written
<1>1. TypeOK
  BY DEF Good, Known
<1>2. Len(log[n]) \in Nat /\ Moves(n) /\ checked[n] \subseteq Value
  BY <1>1, Numbers DEF TypeOK
<1>3. CASE Keeps(n)
  BY <1>3 DEF Keeps, Written
<1>4. CASE Grows(n)
  <2>1. i \in 1..Len(log[n]) \/ i = Len(log[n]) + 1
    BY <1>2, <1>4 DEF Grows
  <2> QED
    BY <1>2, <1>4, <2>1 DEF Grows, Written
<1>5. ASSUME NEW l \in Node, TakesOver(n, l) PROVE log'[n][i].val \in Value
  BY <1>1, <1>5, TakenFrom DEF Written
<1> QED
  BY <1>2, <1>3, <1>4, <1>5 DEF Moves

-----------------------------------------------------------------------------
(* An operation is taken up once, by one node, and is at one index in all  *)
(* the logs that have it.                                                  *)

Nowhere(v) == \A n \in Node : \A i \in 1..Len(log[n]) : log[n][i].val # v

TakenUpOnce ==
    /\ \A v \in fresh : Nowhere(v)
    /\ \A n \in Node : \A v \in checked[n] :
         v \notin fresh /\ Nowhere(v) /\ \A m \in Node \ {n} : v \notin checked[m]

OnePlace ==
    \A n, m \in Node : \A i \in 1..Len(log[n]) : \A j \in 1..Len(log[m]) :
        log[n][i].val = log[m][j].val => i = j

\* The operation at i in the log of p was at i in a log before, or p has just
\* taken it up.
HasSource(p, i) ==
    \/ \E q \in Node : i \in 1..Len(log[q]) /\ log'[p][i].val = log[q][i].val
    \/ /\ i = Len(log[p]) + 1
       /\ log'[p][i].val \in checked[p] /\ log'[p][i].val \notin checked'[p]

LEMMA Sources ==
    ASSUME TypeOK, TypeOK', StepFacts, NEW p \in Node, NEW i \in 1..Len(log'[p])
    PROVE  HasSource(p, i)
<1>1. Len(log[p]) \in Nat /\ Moves(p)
  BY Numbers
<1>2. CASE Keeps(p)
  BY <1>2 DEF Keeps, HasSource
<1>3. CASE Grows(p)
  <2>1. i \in 1..Len(log[p]) \/ i = Len(log[p]) + 1
    BY <1>1, <1>3 DEF Grows
  <2> QED
    BY <1>3, <2>1 DEF Grows, HasSource
<1>4. ASSUME NEW l \in Node, TakesOver(p, l) PROVE HasSource(p, i)
  BY <1>4, TakenFrom DEF HasSource
<1> QED
  BY <1>1, <1>2, <1>3, <1>4 DEF Moves

\* p has just been given v to take up.
GivenNow(p, v) ==
    /\ v \in fresh /\ v \notin fresh' /\ log' = log
    /\ \A q \in Node \ {p} : checked'[q] = checked[q]

LEMMA CoreChecks ==
    ASSUME NEW n \in Node, Election(n) \/ Replication(n)
    PROVE  UNCHANGED <<fresh, checked>>
<1> USE DEF clientVars
<1>1. CASE Election(n)
  BY <1>1 DEF Election, TimerFires, CheckAlreadyLeader, StartElection, CountVote,
              StepDown, LoseElection, WinElection, HandleRequestVote
<1>2. CASE Replication(n)
  BY <1>2 DEF Replication, RejectStaleAppend, RejectMismatch, AcceptAppend, PanicInAppend,
              StartBroadcast, CalcCommit, HandleAppendAnswer, EndBroadcast
<1> QED
  BY <1>1, <1>2

LEMMA ChecksMove ==
    ASSUME TypeOK, TypeOK', [Next]_vars
    PROVE  /\ fresh' \subseteq fresh
           /\ \A p \in Node : \A v \in checked'[p] : v \in checked[p] \/ GivenNow(p, v)
<1>1. CASE UNCHANGED vars
  BY <1>1 DEF vars, clientVars
<1>2. ASSUME NEW n \in Node, Election(n) PROVE UNCHANGED <<fresh, checked>>
  BY <1>2, CoreChecks
<1>3. ASSUME NEW n \in Node, Replication(n) PROVE UNCHANGED <<fresh, checked>>
  BY <1>3, CoreChecks
<1>4. ASSUME NEW n \in Node, NEW w \in Value, CheckLeader(n, w)
      PROVE  /\ fresh' \subseteq fresh
             /\ \A p \in Node : \A v \in checked'[p] : v \in checked[p] \/ GivenNow(p, v)
  <2>1. /\ w \in fresh /\ fresh' = fresh \ {w} /\ log' = log
        /\ checked' = [checked EXCEPT ![n] = checked[n] \cup {w}]
    BY <1>4 DEF CheckLeader, diskVars
  <2>2. checked'[n] = checked[n] \cup {w} /\ \A q \in Node \ {n} : checked'[q] = checked[q]
    BY <2>1 DEF TypeOK
  <2> QED
    BY <2>1, <2>2 DEF GivenNow
<1>5. ASSUME NEW n \in Node, NEW w \in Value, ApplyRequest(n, w)
      PROVE  fresh' = fresh /\ \A p \in Node : checked'[p] \subseteq checked[p]
  BY <1>5 DEF ApplyRequest, TypeOK
<1>6. ASSUME NEW n \in Node, Failure(n)
      PROVE  fresh' = fresh /\ \A p \in Node : checked'[p] \subseteq checked[p]
  <2>1. checked' = [checked EXCEPT ![n] = {}] /\ fresh' = fresh
    BY <1>6 DEF Failure, Crash, CrashInVote, CrashInAppend, Reboot
  <2> QED
    BY <2>1 DEF TypeOK
<1> QED
  BY <1>1, <1>2, <1>3, <1>4, <1>5, <1>6 DEF Next, IdleTick, Client

(* What is taken up now is in no log, and nobody else's.                   *)
LEMMA TakenUpNext ==
    ASSUME TypeOK, TypeOK', StepFacts, TakenUpOnce, OnePlace, [Next]_vars
    PROVE  TakenUpOnce' /\ OnePlace'
<1>1. /\ fresh' \subseteq fresh
      /\ \A p \in Node : \A v \in checked'[p] : v \in checked[p] \/ GivenNow(p, v)
  BY ChecksMove
<1>2. ASSUME NEW v, NEW p \in Node, NEW i \in 1..Len(log'[p]), log'[p][i].val = v,
             Nowhere(v)
      PROVE  v \in checked[p] /\ v \notin checked'[p] /\ i = Len(log[p]) + 1
  BY <1>2, Sources DEF HasSource, Nowhere
<1>3. ASSUME NEW v \in fresh' PROVE Nowhere(v)'
  <2>1. Nowhere(v) /\ \A p \in Node : v \notin checked[p]
    BY <1>1, <1>3 DEF TakenUpOnce
  <2> QED
    BY <1>2, <2>1 DEF Nowhere
<1>4. ASSUME NEW n \in Node, NEW v \in checked'[n]
      PROVE  v \notin fresh' /\ Nowhere(v)' /\ \A m \in Node \ {n} : v \notin checked'[m]
  <2>1. CASE v \in checked[n]
    <3>1. /\ v \notin fresh /\ Nowhere(v)
          /\ \A m \in Node \ {n} : v \notin checked[m]
      BY <2>1 DEF TakenUpOnce
    <3>2. Nowhere(v)'
      BY <1>2, <1>4, <3>1 DEF Nowhere
    <3>3. \A m \in Node \ {n} : v \notin checked'[m]
      BY <1>1, <3>1 DEF GivenNow
    <3> QED
      BY <1>1, <3>1, <3>2, <3>3
  <2>2. CASE v \notin checked[n]
    <3>1. /\ v \notin fresh' /\ v \in fresh /\ log' = log
          /\ \A m \in Node \ {n} : checked'[m] = checked[m]
      BY <1>1, <2>2 DEF GivenNow
    <3>2. Nowhere(v)'
      BY <3>1 DEF TakenUpOnce, Nowhere
    <3> QED
      BY <3>1, <3>2 DEF TakenUpOnce
  <2> QED
    BY <2>1, <2>2
<1>5. ASSUME NEW n \in Node, NEW m \in Node, NEW i \in 1..Len(log'[n]),
             NEW j \in 1..Len(log'[m]), log'[n][i].val = log'[m][j].val
      PROVE  i = j
  <2>1. PICK v : v = log'[n][i].val
    OBVIOUS
  <2>2. CASE Nowhere(v)
    <3>1. /\ v \in checked[n] /\ i = Len(log[n]) + 1
          /\ v \in checked[m] /\ j = Len(log[m]) + 1
      BY <1>2, <1>5, <2>1, <2>2
    <3>2. n = m
      BY <3>1 DEF TakenUpOnce
    <3> QED
      BY <3>1, <3>2
  <2>3. CASE ~Nowhere(v)
    <3>1. /\ \A p \in Node : v \notin checked[p]
      BY <2>3 DEF TakenUpOnce
    <3>2. \E q \in Node : i \in 1..Len(log[q]) /\ v = log[q][i].val
      BY <2>1, <3>1, Sources DEF HasSource
    <3>3. \E q \in Node : j \in 1..Len(log[q]) /\ v = log[q][j].val
      BY <1>5, <2>1, <3>1, Sources DEF HasSource
    <3> QED
      BY <3>2, <3>3 DEF OnePlace
  <2> QED
    BY <2>2, <2>3
<1>6. OnePlace'
  BY <1>5 DEF OnePlace
<1> QED
  BY <1>3, <1>4, <1>6 DEF TakenUpOnce

-----------------------------------------------------------------------------
(* Channels: an entry has one on the node where it was taken up, until the *)
(* process ends or another leader's entries take its place.                *)

Bare(s) == \A i \in 1..Len(s) : ~s[i].chan

SentBare == \A m \in net : m.type = "append" /\ m.live => Bare(m.entries)

LEMMA BareSent ==
    ASSUME NEW s \in Seq(Entry) PROVE Bare(Sent(s))
<1>1. Len(Sent(s)) = Len(s) /\ DOMAIN s = 1..Len(s)
  BY SentLength, LenProperties
<1>2. \A i \in 1..Len(s) : s[i] \in Entry
  BY ElementOfSeq
<1> QED
  BY <1>1, <1>2 DEF Bare, Sent, Entry

\* What is on its way was, or is built without channels.
BareCome ==
    \A m \in net' : m.type = "append" /\ m.live =>
        \/ \E a \in net : a.type = "append" /\ a.live /\ a.entries = m.entries
        \/ Bare(m.entries)

LEMMA BareElection ==
    ASSUME Good, NEW n \in Node, Election(n) PROVE BareCome
<1>1. TypeOK
  BY DEF Good, Known
<1>2. CASE TimerFires(n) \/ CheckAlreadyLeader(n) \/ CountVote(n)
  BY <1>2 DEF TimerFires, CheckAlreadyLeader, CountVote, BareCome
<1>3. CASE StepDown(n) \/ LoseElection(n) \/ WinElection(n)
  BY <1>1, <1>3, RoundsEndCalm DEF BareCome, Leftover, Good
<1>4. CASE StartElection(n)
  BY <1>4 DEF StartElection, BareCome
<1>5. CASE HandleRequestVote(n)
  <2>1. \A m, t, ok : VoteAnswer(m, t, ok).type = "voted"
    BY DEF VoteAnswer
  <2>2. PICK m \in net : HandleRequestVote(n)!2!(m)
    BY <1>5 DEF HandleRequestVote
  <2>3. \E ok : net' = Answered(m, VoteAnswer(m, currentTerm'[n], ok))
    BY <2>2
  <2> QED
    BY <2>1, <2>3 DEF Answered, BareCome
<1> QED
  BY <1>2, <1>3, <1>4, <1>5 DEF Election

LEMMA BareReplication ==
    ASSUME Good, NEW n \in Node, Replication(n) PROVE BareCome
<1>1. TypeOK
  BY DEF Good, Known
<1>2. \A m, t, ok : AppendAnswer(m, t, ok).type = "appended"
  BY DEF AppendAnswer, VoteAnswer
<1>3. CASE \E m \in net : \E t, ok : net' = Answered(m, AppendAnswer(m, t, ok))
  BY <1>2, <1>3 DEF Answered, BareCome
<1>4. CASE RejectStaleAppend(n) \/ RejectMismatch(n) \/ AcceptAppend(n)
  BY <1>3, <1>4 DEF RejectStaleAppend, RejectMismatch, AcceptAppend
<1>5. CASE PanicInAppend(n) \/ HandleAppendAnswer(n)
  BY <1>5 DEF PanicInAppend, HandleAppendAnswer, BareCome
<1>6. CASE EndBroadcast(n)
  BY <1>1, <1>6, RoundsEndCalm DEF BareCome, Leftover, Good
<1>7. CASE StartBroadcast(n)
  <2>1. \A m \in net' : m \in net \/ \E q \in Node :
           m.entries = Sent(SubSeq(log[n], PrevIndex(n, q) + 1, Len(log[n])))
    BY <1>7 DEF StartBroadcast
  <2>2. ASSUME NEW q \in Node
        PROVE  Bare(Sent(SubSeq(log[n], PrevIndex(n, q) + 1, Len(log[n]))))
    <3>1. /\ log[n] \in Seq(Entry) /\ Len(log[n]) \in Nat
          /\ nextIndex[n][q] \in Nat
      BY <1>1, LogLength DEF TypeOK
    <3>2. PrevIndex(n, q) \in Nat
      BY <3>1 DEF PrevIndex
    <3>3. PICK k : k = PrevIndex(n, q) + 1 /\ k \in Nat \ {0}
      BY <3>2
    <3>4. \A i \in k..Len(log[n]) : log[n][i] \in Entry
      BY <3>1, <3>3, ElementOfSeq
    <3>5. SubSeq(log[n], k, Len(log[n])) \in Seq(Entry)
      BY <3>1, <3>3, <3>4, SubSeqProperties
    <3> QED
      BY <3>3, <3>5, BareSent
  <2> QED
    BY <2>1, <2>2 DEF BareCome
<1>8. CASE CalcCommit(n)
  <2>1. PICK idx \in {matchIndex[n][p] : p \in Node} :
           \/ \E late \in SUBSET Pending(n) :
                 net' = (net \ late) \cup {[m EXCEPT !.commit = idx] : m \in late}
           \/ net' = net
    BY <1>8 DEF CalcCommit, commitVars
  <2>2. ASSUME NEW late \in SUBSET Pending(n), NEW m \in late,
               [m EXCEPT !.commit = idx].type = "append"
        PROVE  /\ m \in net /\ m.type = "append" /\ m.live
               /\ [m EXCEPT !.commit = idx].entries = m.entries
    <3>1. m \in net /\ m.live /\ (m \in VoteRequest \/ m \in AppendRequest)
      BY <1>1, PendingRequests DEF Request, Pending, Calls
    <3> QED
      BY <2>2, <3>1 DEF VoteRequest, AppendRequest
  <2>3. CASE net' = net
    BY <2>3 DEF BareCome
  <2>4. ASSUME NEW late \in SUBSET Pending(n),
               net' = (net \ late) \cup {[m EXCEPT !.commit = idx] : m \in late}
        PROVE  BareCome
    <3>1. ASSUME NEW a \in net', a.type = "append", a.live, a \notin net
          PROVE  \E m \in net : m.type = "append" /\ m.live /\ m.entries = a.entries
      <4>1. PICK m \in late : a = [m EXCEPT !.commit = idx]
        BY <2>4, <3>1
      <4>2. m \in net /\ m.type = "append" /\ m.live /\ a.entries = m.entries
        BY <2>2, <3>1, <4>1
      <4> QED
        BY <4>2
    <3> QED
      BY <3>1 DEF BareCome
  <2> QED
    BY <2>1, <2>3, <2>4
<1> QED
  BY <1>4, <1>5, <1>6, <1>7, <1>8 DEF Replication

LEMMA SentBareNext ==
    ASSUME Undisturbed', Good, SentBare, [Next]_vars PROVE SentBare'
<1>1. ASSUME UNCHANGED vars PROVE BareCome
  <2>1. net' = net
    BY <1>1 DEF vars
  <2> QED
    BY <2>1 DEF BareCome
<1>2. ASSUME NEW n \in Node, Client(n) PROVE BareCome
  BY <1>2 DEF Client, CheckLeader, ApplyRequest, BareCome
<1>3. ASSUME NEW n \in Node, Failure(n) PROVE BareCome
  BY <1>3, FailureLeaves DEF Good, BareCome, Leftover
<1>4. BareCome
  BY <1>1, <1>2, <1>3, BareElection, BareReplication DEF Next, IdleTick
<1> QED
  BY <1>4 DEF BareCome, SentBare

\* The log of p is left alone, an operation is appended, or a leader's entries
\* come from the index on where it asks for them.
Extends(p) ==
    \/ log'[p] = log[p]
    \/ \E v \in checked[p] : v \notin checked'[p] /\ log'[p] = Append(log[p], NewEntry(v))
    \/ \E l \in Node :
         /\ TakesOver(p, l) /\ Len(log'[p]) = Len(log[l])
         /\ \A i \in 1..Len(log'[p]) : IF i < nextIndex[l][p] THEN log'[p][i] = log[p][i]
                                       ELSE ~log'[p][i].chan

LEMMA FollowExtends ==
    ASSUME Undisturbed', Good, SentBare, NEW n \in Node,
           RejectMismatch(n) \/ AcceptAppend(n) \/ PanicInAppend(n)
    PROVE  Extends(n)
<1>1. PICK m \in net :
         /\ m.type = "append" /\ m.peer = n /\ m.live /\ ~Stale(n, m) /\ FollowLeader(n, m)
         /\ \/ ~Fits(n, m) /\ log' = [log EXCEPT ![n] = Corrected(n, m)]
            \/ Fits(n, m) /\ log' = [log EXCEPT ![n] = Corrected(n, m) \o m.entries]
  BY DEF RejectMismatch, AcceptAppend, PanicInAppend, Undisturbed
<1>2. lock[n] = "free" /\ UNCHANGED <<lock, timer>>
  BY DEF RejectMismatch, AcceptAppend, PanicInAppend, roundVars
<1>3. TypeOK
  BY DEF Good, Known
<1>4. /\ m \in AppendRequest /\ m.prev \in Nat /\ m.caller \in Node
      /\ nextIndex[m.caller][n] = m.prev + 1
      /\ Fits(n, m) <=> m.prev <= Len(log[n])
      /\ ~Fits(n, m) => Corrected(n, m) = log[n]
      /\ Fits(n, m) => Corrected(n, m) = SubSeq(log[n], 1, m.prev)
  BY <1>1, AppendFrom DEF Good
<1>5. CASE ~Fits(n, m)
  BY <1>1, <1>3, <1>4, <1>5 DEF TypeOK, Extends
<1>6. CASE Fits(n, m)
  <2>1. TakesOver(n, m.caller) /\ Len(log'[n]) = Len(log[m.caller])
    BY <1>1, <1>2, <1>6, TakesAll
  <2>2. PICK s : s = SubSeq(log[n], 1, m.prev)
    OBVIOUS
  <2>3. log'[n] = s \o m.entries
    <3>1. log' = [log EXCEPT ![n] = s \o m.entries]
      BY <1>1, <1>4, <1>6, <2>2
    <3>2. DOMAIN log = Node
      BY <1>3 DEF TypeOK
    <3> QED
      BY <3>1, <3>2
  <2>4. /\ s \in Seq(Entry) /\ Len(s) = m.prev
        /\ \A j \in 1..m.prev : s[j] = log[n][j]
    BY <1>3, <1>4, <1>6, <2>2, LogLength, PrefixOf
  <2>5. /\ m.entries \in Seq(Entry) /\ Len(m.entries) \in Nat
        /\ \A i \in 1..Len(m.entries) : ~m.entries[i].chan
    BY <1>1, <1>4, LenProperties DEF AppendRequest, SentBare, Bare
  <2>6. /\ Len(log'[n]) = m.prev + Len(m.entries)
        /\ \A j \in 1..(m.prev + Len(m.entries)) :
              log'[n][j] = IF j <= m.prev THEN s[j] ELSE m.entries[j - m.prev]
    <3>1. /\ Len(s \o m.entries) = Len(s) + Len(m.entries)
          /\ \A j \in 1..(Len(s) + Len(m.entries)) :
                (s \o m.entries)[j] = IF j <= Len(s) THEN s[j] ELSE m.entries[j - Len(s)]
      BY <2>4, <2>5, ConcatProperties
    <3> QED
      BY <2>3, <2>4, <3>1
  <2>7. ASSUME NEW i \in 1..Len(log'[n])
        PROVE  IF i < nextIndex[m.caller][n] THEN log'[n][i] = log[n][i]
               ELSE ~log'[n][i].chan
    <3>1. CASE i <= m.prev
      BY <1>4, <2>4, <2>6, <3>1
    <3>2. CASE ~(i <= m.prev)
      <4>1. i - m.prev \in 1..Len(m.entries) /\ ~(i < nextIndex[m.caller][n])
        BY <1>4, <2>5, <2>6, <3>2
      <4>2. log'[n][i] = m.entries[i - m.prev]
        BY <2>6, <3>2
      <4> QED
        BY <2>5, <4>1, <4>2
    <3> QED
      BY <3>1, <3>2
  <2> QED
    BY <1>4, <2>1, <2>7 DEF Extends
<1> QED
  BY <1>5, <1>6

LEMMA StepExtends ==
    ASSUME Undisturbed', Good, SentBare, NEW n \in Node,
           Election(n) \/ Replication(n) \/ Client(n), NEW p \in Node
    PROVE  Extends(p)
<1>1. TypeOK
  BY DEF Good, Known
<1>2. CASE log' = log
  BY <1>2 DEF Extends
<1>3. CASE RejectMismatch(n) \/ AcceptAppend(n) \/ PanicInAppend(n)
  <2>1. p # n => log'[p] = log[p]
    BY <1>1, <1>3 DEF RejectMismatch, AcceptAppend, PanicInAppend, TypeOK
  <2> QED
    BY <1>3, <2>1, FollowExtends DEF Extends
<1>4. ASSUME NEW v \in Value, ApplyRequest(n, v) PROVE Extends(p)
  <2>1. CASE p = n
    BY <1>1, <1>4, <2>1 DEF ApplyRequest, TypeOK, Extends
  <2>2. CASE p # n
    BY <1>1, <1>4, <2>2 DEF ApplyRequest, TypeOK, Extends
  <2> QED
    BY <2>1, <2>2
<1>5. CASE Election(n)
  BY <1>2, <1>5 DEF Election, TimerFires, CheckAlreadyLeader, StartElection, CountVote,
              StepDown, LoseElection, WinElection, HandleRequestVote, diskVars
<1>6. CASE Replication(n)
  BY <1>2, <1>3, <1>6 DEF Replication, RejectStaleAppend, StartBroadcast, CalcCommit,
              HandleAppendAnswer, EndBroadcast, diskVars
<1>7. CASE Client(n)
  BY <1>2, <1>4, <1>7 DEF Client, CheckLeader, diskVars
<1> QED
  BY <1>5, <1>6, <1>7

(* A process that starts again has an empty queue, and no channel.         *)
LEMMA FailureBare ==
    ASSUME Undisturbed', Good, NEW n \in Node, Failure(n)
    PROVE  /\ Bare(log'[n]) /\ applied'[n] = <<>>
           /\ \A p \in Node \ {n} : log'[p] = log[p] /\ applied'[p] = applied[p]
<1>1. TypeOK
  BY DEF Good, Known
<1>2. applied' = [applied EXCEPT ![n] = <<>>]
  BY DEF Failure, Crash, CrashInVote, CrashInAppend, Reboot
<1>3. log[n] \in Seq(Entry)
  BY <1>1 DEF TypeOK
<1>4. \E s \in Seq(Entry) : log' = [log EXCEPT ![n] = Sent(s)]
  <2>1. CASE Crash(n) \/ CrashInVote(n)
    BY <1>3, <2>1 DEF Crash, CrashInVote
  <2>2. CASE CrashInAppend(n)
    <3>1. PICK m \in net :
             /\ m.type = "append" /\ m.peer = n /\ m.live
             /\ \E stored \in {log[n], Corrected(n, m)} \cup
                     {Corrected(n, m) \o SubSeq(m.entries, 1, k) :
                        k \in IF Fits(n, m) THEN 0..Len(m.entries) ELSE {}} :
                  log' = [log EXCEPT ![n] = Sent(stored)]
      BY <2>2 DEF CrashInAppend, Undisturbed
    <3>2. PICK s \in {log[n], Corrected(n, m)} \cup
                     {Corrected(n, m) \o SubSeq(m.entries, 1, k) :
                        k \in IF Fits(n, m) THEN 0..Len(m.entries) ELSE {}} :
             log' = [log EXCEPT ![n] = Sent(s)]
      BY <3>1
    <3>3. s = log[n] \/ Joined(s, n, m.caller, m.prev)
      BY <3>1, Stored DEF Good
    <3> QED
      BY <1>3, <3>2, <3>3 DEF Joined
  <2> QED
    BY <2>1, <2>2 DEF Failure
<1>5. Bare(log'[n]) /\ \A p \in Node \ {n} : log'[p] = log[p]
  BY <1>1, <1>4, BareSent DEF TypeOK
<1> QED
  BY <1>1, <1>2, <1>5 DEF TypeOK

\* A process that starts again has its log from the file, where no channel is.
EntriesMove == \A p \in Node : Extends(p) \/ (Bare(log'[p]) /\ applied'[p] = <<>>)

LEMMA EntriesMoveNext ==
    ASSUME Undisturbed', Good, SentBare, [Next]_vars PROVE EntriesMove
<1>1. ASSUME UNCHANGED vars PROVE EntriesMove
  <2>1. log' = log
    BY <1>1 DEF vars, diskVars
  <2> QED
    BY <2>1 DEF EntriesMove, Extends
<1>2. ASSUME NEW n \in Node, Election(n) \/ Replication(n) \/ Client(n) PROVE EntriesMove
  BY <1>2, StepExtends DEF EntriesMove
<1>3. ASSUME NEW n \in Node, Failure(n), NEW p \in Node
      PROVE  Extends(p) \/ (Bare(log'[p]) /\ applied'[p] = <<>>)
  <2>1. CASE p = n
    BY <1>3, <2>1, FailureBare
  <2>2. CASE p # n
    BY <1>3, <2>2, FailureBare DEF Extends
  <2> QED
    BY <2>1, <2>2
<1> QED
  BY <1>1, <1>2, <1>3 DEF Next, IdleTick, EntriesMove

\* An entry that p has with a channel was there, or is its latest.
WithChannel(p, i) ==
    \/ i \in 1..Len(log[p]) /\ log'[p][i] = log[p][i]
    \/ /\ i = Len(log[p]) + 1 /\ i = Len(log'[p])
       /\ \E v \in checked[p] : log'[p][i] = NewEntry(v)

LEMMA ChannelsStay ==
    ASSUME TypeOK, TypeOK', NEW p \in Node, Extends(p) \/ Bare(log'[p]),
           NEW i \in 1..Len(log'[p]), log'[p][i].chan
    PROVE  WithChannel(p, i)
<1>1. log[p] \in Seq(Entry) /\ Len(log[p]) \in Nat /\ Len(log'[p]) \in Nat
  <2>1. log[p] \in Seq(Entry) /\ log'[p] \in Seq(Entry)
    BY DEF TypeOK
  <2> QED
    BY <2>1, LenProperties
<1>2. Extends(p)
  BY DEF Bare
<1>3. CASE log'[p] = log[p]
  BY <1>3 DEF WithChannel
<1>4. ASSUME NEW v \in checked[p], log'[p] = Append(log[p], NewEntry(v))
      PROVE  WithChannel(p, i)
  <2>1. NewEntry(v) \in Entry
    BY DEF NewEntry, Entry, TypeOK
  <2>2. /\ Len(Append(log[p], NewEntry(v))) = Len(log[p]) + 1
        /\ \A j \in 1..Len(log[p]) : Append(log[p], NewEntry(v))[j] = log[p][j]
        /\ Append(log[p], NewEntry(v))[Len(log[p]) + 1] = NewEntry(v)
    BY <1>1, <2>1, AppendProperties
  <2>3. i \in 1..Len(log[p]) \/ i = Len(log[p]) + 1
    BY <1>1, <1>4, <2>2
  <2> QED
    BY <1>1, <1>4, <2>2, <2>3 DEF WithChannel
<1>5. ASSUME NEW l \in Node, TakesOver(p, l),
             IF i < nextIndex[l][p] THEN log'[p][i] = log[p][i] ELSE ~log'[p][i].chan
      PROVE  WithChannel(p, i)
  <2>1. nextIndex[l][p] \in Nat /\ nextIndex[l][p] - 1 <= Len(log[p])
    BY <1>5, TakenFrom
  <2> QED
    BY <1>1, <1>5, <2>1 DEF WithChannel
<1> QED
  BY <1>2, <1>3, <1>4, <1>5 DEF Extends

-----------------------------------------------------------------------------
(* What a step leaves of an agreement.                                     *)

LEMMA AgreeTurned ==
    ASSUME NEW s, NEW t, NEW k, Agree(s, t, k) PROVE Agree(t, s, k)
BY DEF Agree

LEMMA AgreeLess ==
    ASSUME NEW s, NEW t, NEW k \in Int, NEW j \in Int, j <= k, Agree(s, t, k)
    PROVE  Agree(s, t, j)
BY DEF Agree

LEMMA AgreeKeeps ==
    ASSUME NEW p \in Node, Keeps(p), NEW s, NEW k, Agree(log[p], s, k)
    PROVE  Agree(log'[p], s, k)
BY DEF Agree, Keeps

LEMMA AgreeGrows ==
    ASSUME NEW p \in Node, Grows(p), NEW s, NEW k \in Int, Len(log[p]) \in Nat,
           k <= Len(log[p]), Agree(log[p], s, k)
    PROVE  Agree(log'[p], s, k)
BY DEF Agree, Grows

LEMMA AgreeTakes ==
    ASSUME TypeOK, TypeOK', NEW p \in Node, NEW l \in Node, TakesOver(p, l),
           NEW s, Len(s) \in Nat, NEW k \in Int,
           Agree(log[p], s, k), Agree(log[l], s, k)
    PROVE  Agree(log'[p], s, k)
<1> SUFFICES ASSUME NEW i \in 1..k, i <= Len(log'[p]), i <= Len(s)
             PROVE  log'[p][i].val = s[i].val
  BY DEF Agree
<1>1. i \in 1..Len(log'[p])
  BY TakenFrom
<1>2. \/ i \in 1..Len(log[p]) /\ log'[p][i].val = log[p][i].val
      \/ i \in 1..Len(log[l]) /\ log'[p][i].val = log[l][i].val
  BY <1>1, TakenFrom
<1> QED
  BY <1>2 DEF Agree

(* Who takes over from l where the two agree, agrees with l.               *)
LEMMA AgreeTakesAll ==
    ASSUME TypeOK, TypeOK', NEW p \in Node, NEW l \in Node, TakesOver(p, l),
           Agree(log[p], log[l], nextIndex[l][p] - 1), NEW k \in Int
    PROVE  Agree(log'[p], log'[l], k)
<1>1. log'[l] = log[l]
  BY TakenFrom
<1> SUFFICES ASSUME NEW i \in 1..k, i <= Len(log'[p]), i <= Len(log[l])
             PROVE  log'[p][i].val = log[l][i].val
  BY <1>1 DEF Agree
<1>2. i \in 1..Len(log'[p]) /\ nextIndex[l][p] \in Nat
  BY TakenFrom
<1>3. \/ /\ i \in 1..(nextIndex[l][p] - 1) /\ i \in 1..Len(log[p])
         /\ log'[p][i].val = log[p][i].val
      \/ log'[p][i].val = log[l][i].val
  BY <1>2, TakenFrom
<1> QED
  BY <1>3 DEF Agree

-----------------------------------------------------------------------------
(* One step, with what is known before and after it.                       *)

Scene(old, new) ==
    /\ Cardinality(Node) > 1
    /\ old \in Nat /\ new \in Nat /\ old < new
    /\ OnlyWon(old, new) /\ OnlyWon(old, new)'
    /\ Undisturbed' /\ Good /\ Good' /\ StepFacts /\ Lengths /\ Lengths'
    /\ ElectionSafety /\ ElectionSafety' /\ Writers

LEMMA SceneTypes ==
    ASSUME NEW old, NEW new, Scene(old, new)
    PROVE  /\ TypeOK /\ TypeOK' /\ ElectionInv /\ ElectionInv' /\ BroadcastInv
           /\ Good /\ Good' /\ StepFacts
BY DEF Scene, Good, Known

LEMMA SceneNumbers ==
    ASSUME NEW old, NEW new, Scene(old, new), NEW p \in Node
    PROVE  /\ old \in Nat /\ new \in Nat /\ old < new
           /\ currentTerm[p] \in Nat /\ currentTerm'[p] \in Nat
           /\ currentTerm'[p] >= currentTerm[p]
           /\ Len(log[p]) \in Nat /\ Len(log'[p]) \in Nat /\ Moves(p)
<1>1. old \in Nat /\ new \in Nat /\ old < new
  BY DEF Scene
<1> QED
  BY <1>1, SceneTypes, Numbers

LEMMA OneWinner ==
    ASSUME NEW old, NEW new, Scene(old, new), NEW t, NEW p, NEW q
    PROVE  /\ WinsTerm(t, p) /\ WinsTerm(t, q) => p = q
           /\ WinsTerm(t, p)' /\ WinsTerm(t, q)' => p = q
           /\ WinsTerm(t, p) => WinsTerm(t, p)' /\ t \in {old, new}
BY DEF Scene, ElectionSafety, WinsTerm, StepFacts, OnlyWon

LEMMA Leads ==
    ASSUME NEW old, NEW new, Scene(old, new), NEW l \in Node, leading[l]
    PROVE  WinsTerm(currentTerm[l], l) /\ currentTerm[l] \in {old, new}
<1>1. WinsTerm(currentTerm[l], l)
  BY DEF Scene, Good, LeadersWon, WinsTerm
<1> QED
  BY <1>1, OneWinner

LEMMA HasWon ==
    ASSUME NEW old, NEW new, Scene(old, new), NEW n \in Node, NEW t, WinsTerm(t, n)
    PROVE  t <= currentTerm[n] /\ (lock[n] = "vote" => t < currentTerm[n])
BY DEF Scene, Good, LeadersWon, WinsTerm

\* The log of p is what it was, or longer.
Stays(p) ==
    /\ Len(log[p]) <= Len(log'[p])
    /\ \A i \in 1..Len(log[p]) : log'[p][i].val = log[p][i].val

LEMMA StaysIs ==
    ASSUME NEW old, NEW new, Scene(old, new), NEW p \in Node, Keeps(p) \/ Grows(p)
    PROVE  Stays(p)
BY SceneNumbers DEF Keeps, Grows, Stays

LEMMA AgreeStays ==
    ASSUME NEW p \in Node, Stays(p), NEW s, NEW k \in Int, Len(log[p]) \in Nat,
           k <= Len(log[p]), Agree(log[p], s, k)
    PROVE  Agree(log'[p], s, k)
BY DEF Agree, Stays

(* Only a node that has won an election takes up an operation.             *)
LEMMA GrowsWinner ==
    ASSUME NEW old, NEW new, Scene(old, new), NEW p \in Node, Grows(p)
    PROVE  \E t \in {old, new} : WinsTerm(t, p)
<1>1. PICK t \in Nat : WinsTerm(t, p)
  BY DEF Grows, Scene, Writers
<1> QED
  BY <1>1, OneWinner

-----------------------------------------------------------------------------
(* The first term.                                                         *)

LEMMA FirstStays ==
    ASSUME NEW old, NEW new, Scene(old, new), NEW a \in Node, OneTerm(old, a)
    PROVE  Keeps(a) \/ Grows(a)
<1> SUFFICES ASSUME NEW l \in Node, TakesOver(a, l) PROVE FALSE
  BY SceneNumbers DEF Moves
<1>1. WinsTerm(currentTerm[l], l) /\ l # a
  BY Leads DEF TakesOver
<1>2. currentTerm[l] = old
  BY <1>1 DEF OneTerm, WinsTerm
<1> QED
  BY <1>1, <1>2, OneWinner DEF OneTerm

LEMMA OneTermStep ==
    ASSUME NEW old, NEW new, Scene(old, new), wins' = wins, NEW a \in Node,
           OneTerm(old, a)
    PROVE  OneTerm(old, a)'
<1>1. Keeps(a) \/ Grows(a)
  BY FirstStays
<1>2. Stays(a) /\ Len(log[a]) \in Nat /\ Len(log'[a]) \in Nat
  BY <1>1, StaysIs, SceneNumbers
<1>3. ASSUME NEW n \in Node PROVE Follows(log'[n], log'[a])
  <2>1. /\ Len(log[n]) \in Nat /\ Len(log'[n]) \in Nat /\ Moves(n)
        /\ Follows(log[n], log[a])
    BY SceneNumbers DEF OneTerm
  <2>2. CASE n = a
    BY <1>2, <2>2 DEF Follows, Agree
  <2>3. CASE Keeps(n)
    BY <1>2, <2>1, <2>3 DEF Follows, Agree, Keeps, Stays
  <2>4. CASE Grows(n)
    <3>1. PICK t \in {old, new} : WinsTerm(t, n)
      BY <2>4, GrowsWinner
    <3>2. t = old
      BY <3>1 DEF OneTerm, WinsTerm
    <3> QED
      BY <2>2, <3>1, <3>2, OneWinner DEF OneTerm
  <2>5. ASSUME NEW l \in Node, TakesOver(n, l) PROVE Follows(log'[n], log'[a])
    <3>1. WinsTerm(currentTerm[l], l)
      BY <2>5, Leads DEF TakesOver
    <3>2. currentTerm[l] = old
      BY <3>1 DEF OneTerm, WinsTerm
    <3>3. l = a
      BY <3>1, <3>2, OneWinner DEF OneTerm
    <3>4. /\ nextIndex[l][n] - 1 \in Int /\ nextIndex[l][n] - 1 <= Len(log[n])
          /\ Len(log'[n]) <= Len(log[l]) /\ log'[l] = log[l]
      BY <2>5, SceneTypes, TakenFrom
    <3>5. Agree(log[n], log[l], nextIndex[l][n] - 1)
      BY <2>1, <3>3, <3>4, AgreeLess DEF Follows
    <3>6. Agree(log'[n], log'[l], Len(log'[n]))
      <4>1. PICK k \in Int : k = Len(log'[n])
        BY <2>1
      <4>2. Agree(log'[n], log'[l], k)
        BY <2>5, <3>5, SceneTypes, AgreeTakesAll
      <4> QED
        BY <4>1, <4>2
    <3> QED
      BY <3>3, <3>4, <3>6 DEF Follows
  <2> QED
    BY <2>1, <2>3, <2>4, <2>5 DEF Moves
<1> QED
  BY <1>3 DEF OneTerm, WinsTerm

LEMMA AnswersStayLive ==
    ASSUME TypeOK', NEW a \in net', a.type = "appended" PROVE a.live
<1>1. a \in Request \cup Answer
  BY DEF TypeOK, Message
<1> QED
  BY <1>1 DEF Request, VoteRequest, AppendRequest, Answer

(* A new leader leaves the logs alone, and has no answers on their way.    *)
LEMMA NewLeader ==
    ASSUME NEW old, NEW new, Scene(old, new), NEW n \in Node, WinElection(n)
    PROVE  /\ wins' = wins \cup {<<currentTerm[n], n>>}
           /\ UNCHANGED <<log, currentTerm>>
           /\ \A m \in net' : m.live => m \in net \ Calls(n)
           /\ lock[n] = "vote" /\ ~leading[n] /\ leading'[n]
           /\ currentTerm[n] \in {old, new}
           /\ \A q \in Node \ {n} : Rests(q) /\ nextIndex'[n][q] = Len(log[n]) + 1
           /\ \A q \in Node : ~Answers(q, n)' /\ ~Refuses(q, n)'
<1>1. TypeOK
  BY SceneTypes
<1>2. \A m \in net' : m.live => m \in net \ Calls(n)
  BY RoundsEndCalm DEF Scene, Good, Leftover
<1>3. /\ wins' = wins \cup {<<currentTerm[n], n>>} /\ UNCHANGED <<log, currentTerm>>
      /\ lock[n] = "vote" /\ leading'[n]
      /\ \A q \in Node \ {n} : nextIndex'[n][q] = Len(log[n]) + 1
  BY <1>1 DEF WinElection, diskVars, TypeOK
<1>4. \A q \in Node \ {n} : Rests(q)
  BY <1>1 DEF WinElection, Unlock, Rests, diskVars, TypeOK
<1>5. ~leading[n]
  BY <1>3 DEF Scene, Good, LeadersWon
<1>6. currentTerm[n] \in {old, new}
  <2>1. <<currentTerm[n], n>> \in wins'
    BY <1>3
  <2> QED
    BY <2>1 DEF Scene, OnlyWon
<1>7. ASSUME NEW q \in Node, NEW a \in net' PROVE ~Appended(a, q, n)
  <2> SUFFICES ASSUME Appended(a, q, n) PROVE FALSE
    OBVIOUS
  <2>1. a \in net
    BY <1>2, SceneTypes, AnswersStayLive DEF Appended
  <2> QED
    BY <1>3, <2>1, SceneTypes, OneAtATime
<1>8. \A q \in Node : ~Answers(q, n)' /\ ~Refuses(q, n)'
  BY <1>7 DEF Answers, Refuses, Appended
<1> QED
  BY <1>2, <1>3, <1>4, <1>5, <1>6, <1>8

LEMMA NobodyStep ==
    ASSUME NEW old, NEW new, Scene(old, new), wins' = wins, Nobody PROVE Nobody'
<1>1. ASSUME NEW n \in Node PROVE Len(log'[n]) = 0
  <2>1. ASSUME NEW l \in Node, TakesOver(n, l) PROVE FALSE
    BY <2>1, Leads DEF TakesOver, WinsTerm, Nobody
  <2>2. CASE Grows(n)
    BY <2>2, GrowsWinner DEF WinsTerm, Nobody
  <2> QED
    BY <2>1, <2>2, SceneNumbers DEF Moves, Keeps, Nobody
<1> QED
  BY <1>1 DEF Nobody

(* Whoever wins the first election of all has an empty log to begin with.  *)
LEMMA NobodyWins ==
    ASSUME NEW old, NEW new, Scene(old, new), Nobody, NEW n \in Node, WinElection(n)
    PROVE  OneTerm(old, n)' \/ TwoTerms(old, new, n, 0)'
<1>1. /\ wins' = {<<currentTerm[n], n>>}
      /\ UNCHANGED log /\ currentTerm[n] \in {old, new}
      /\ \A q \in Node \ {n} : nextIndex'[n][q] = Len(log[n]) + 1
      /\ \A q \in Node : ~Answers(q, n)'
  BY NewLeader DEF Nobody
<1>2. \A p \in Node : Len(log'[p]) = 0
  BY <1>1 DEF Nobody
<1>3. ASSUME NEW p \in Node, NEW q \in Node, NEW k PROVE Agree(log'[p], log'[q], k)
  BY <1>2 DEF Agree
<1>4. CASE currentTerm[n] = old
  <2>1. \A w \in wins' : w[1] = old
    BY <1>1, <1>4
  <2>2. WinsTerm(old, n)'
    BY <1>1, <1>4 DEF WinsTerm
  <2>3. \A q \in Node : Follows(log'[q], log'[n])
    BY <1>2, <1>3 DEF Follows
  <2> QED
    BY <2>1, <2>2, <2>3 DEF OneTerm
<1>5. CASE currentTerm[n] = new
  <2>1. \A a \in Node : ~WinsTerm(old, a)'
    BY <1>1, <1>5, SceneNumbers DEF WinsTerm
  <2>2. \A q \in Node \ {n} : Successor(new, n, q, 0)'
    <3>1. \A q \in Node \ {n} : nextIndex'[n][q] - 1 <= 0
      BY <1>1, <1>2
    <3> QED
      BY <1>1, <1>3, <3>1 DEF Successor
  <2>3. 0 <= Len(log'[n]) /\ WinsTerm(new, n)'
    BY <1>1, <1>2, <1>5 DEF WinsTerm
  <2> QED
    BY <1>3, <2>1, <2>2, <2>3 DEF TwoTerms
<1> QED
  BY <1>1, <1>4, <1>5

(* The winner of the second term has every entry that the first may count. *)
LEMMA SecondWins ==
    ASSUME NEW old, NEW new, Scene(old, new), NEW a \in Node, OneTerm(old, a),
           NEW n \in Node, WinElection(n)
    PROVE  \A B \in Nat : B = Len(log[n]) => TwoTerms(old, new, n, B)'
<1> SUFFICES ASSUME NEW B \in Nat, B = Len(log[n]) PROVE TwoTerms(old, new, n, B)'
  OBVIOUS
<1>1. /\ wins' = wins \cup {<<currentTerm[n], n>>} /\ UNCHANGED <<log, currentTerm>>
      /\ lock[n] = "vote" /\ leading'[n] /\ currentTerm[n] \in {old, new}
      /\ \A q \in Node \ {n} : nextIndex'[n][q] = Len(log[n]) + 1
      /\ \A q \in Node : ~Answers(q, n)' /\ ~Refuses(q, n)'
  BY NewLeader
<1>2. currentTerm[n] = new
  <2> SUFFICES ASSUME currentTerm[n] = old PROVE FALSE
    BY <1>1
  <2>1. WinsTerm(old, n)' /\ WinsTerm(old, a) /\ WinsTerm(old, a)'
    BY <1>1 DEF WinsTerm, OneTerm
  <2>2. n = a
    BY <2>1, OneWinner
  <2> QED
    BY <1>1, <2>1, <2>2, HasWon, SceneNumbers
<1>3. WinsTerm(new, n)'
  BY <1>1, <1>2 DEF WinsTerm
<1>4. ASSUME NEW q \in Node, NEW k PROVE Agree(log'[q], log'[n], k)
  BY <1>1, SceneNumbers DEF OneTerm, Follows, Agree
<1>5. \A q \in Node \ {n} : Successor(new, n, q, B)'
  <2>1. \A q \in Node \ {n} : nextIndex'[n][q] - 1 <= B
    BY <1>1
  <2> QED
    BY <1>1, <1>4, <2>1 DEF Successor
<1>6. ASSUME NEW p \in Node \ {n}, WinsTerm(old, p)' PROVE Predecessor(old, p, n, B)'
  <2>1. p = a
    BY <1>6, OneWinner DEF OneTerm
  <2>2. B <= Len(log'[p])
    BY <1>1, <2>1 DEF OneTerm, Follows
  <2>3. nextIndex'[n][p] - 1 \in B..Len(log'[p])
    BY <1>1, <2>2, SceneNumbers
  <2>4. ASSUME NEW A \in SUBSET Node, NEW S \in SUBSET Node, NEW c \in Nat \ {0},
               Counted(p, A, S, c, old)'
        PROVE  c <= B
    <3>1. Firm(A, c, old)'
      BY <2>4 DEF Scene, Lengths, Choosable
    <3>2. c <= Len(log'[n])
      BY <1>1, <1>2, <3>1, SceneNumbers DEF Firm
    <3> QED
      BY <1>1, <3>2
  <2>5. CountsUpTo(old, p, B)'
    BY <2>4 DEF CountsUpTo
  <2> QED
    BY <1>1, <2>2, <2>3, <2>5 DEF Predecessor
<1>7. WinsTerm(old, a)'
  BY OneWinner DEF OneTerm
<1>8. B <= Len(log'[n])
  BY <1>1
<1> QED
  BY <1>3, <1>4, <1>5, <1>6, <1>7, <1>8 DEF TwoTerms

-----------------------------------------------------------------------------
(* The second term.                                                        *)

(* A newer leader follows nobody.                                          *)
LEMMA SecondStays ==
    ASSUME NEW old, NEW new, Scene(old, new), NEW b \in Node, WinsTerm(new, b)
    PROVE  /\ Keeps(b) \/ Grows(b)
           /\ leading'[b] => leading[b]
           /\ currentTerm[b] >= new /\ (leading[b] => currentTerm[b] = new)
           /\ \A l \in Node : leading[l] /\ l # b => WinsTerm(old, l) /\ currentTerm[l] = old
<1>1. old \in Nat /\ new \in Nat /\ old < new /\ currentTerm[b] \in Nat
  BY SceneNumbers
<1>2. new <= currentTerm[b] /\ (lock[b] = "vote" => new < currentTerm[b])
  BY HasWon
<1>3. ASSUME NEW l \in Node, leading[l], l # b PROVE WinsTerm(old, l) /\ currentTerm[l] = old
  <2>1. WinsTerm(currentTerm[l], l) /\ currentTerm[l] \in {old, new}
    BY <1>3, Leads
  <2>2. currentTerm[l] # new
    BY <1>3, <2>1, OneWinner
  <2> QED
    BY <2>1, <2>2
<1>4. leading[b] => currentTerm[b] = new
  <2> SUFFICES ASSUME leading[b] PROVE currentTerm[b] = new
    OBVIOUS
  <2>1. currentTerm[b] \in {old, new}
    BY Leads
  <2> QED
    BY <1>1, <1>2, <2>1
<1>5. ASSUME NEW l \in Node, TakesOver(b, l) PROVE FALSE
  <2>1. l # b /\ leading[l] /\ currentTerm[l] >= currentTerm[b]
    BY <1>5 DEF TakesOver
  <2>2. currentTerm[l] = old
    BY <1>3, <2>1
  <2> QED
    BY <1>1, <1>2, <2>1, <2>2
<1>6. Moves(b)
  BY SceneNumbers
<1>7. leading'[b] => leading[b]
  <2> SUFFICES ASSUME Won(b), leading'[b] PROVE FALSE
    BY <1>6 DEF Moves
  <2>1. <<currentTerm[b], b>> \in wins' /\ lock[b] = "vote"
    BY DEF Won
  <2>2. currentTerm[b] \in {old, new}
    BY <2>1 DEF Scene, OnlyWon
  <2> QED
    BY <1>1, <1>2, <2>1, <2>2
<1>8. Keeps(b) \/ Grows(b)
  BY <1>5, <1>6 DEF Moves
<1> QED
  BY <1>2, <1>3, <1>4, <1>7, <1>8

(* A node that takes up an operation beside the new leader led before.     *)
LEMMA OldWriter ==
    ASSUME NEW old, NEW new, Scene(old, new), NEW b \in Node, WinsTerm(new, b),
           NEW n \in Node \ {b}, Grows(n)
    PROVE  WinsTerm(old, n)
BY GrowsWinner, OneWinner

(* Logs go on agreeing with the new leader's, as far as the old leader has *)
(* them and those that follow it may be asked to append.                   *)
LEMMA AgreesOn ==
    ASSUME NEW old, NEW new, Scene(old, new), NEW b \in Node, WinsTerm(new, b),
           NEW n \in Node \ {b},
           NEW k \in Int, k <= Len(log[b]), Agree(log[n], log[b], k),
           WinsTerm(old, n) => k <= Len(log[n]),
           \A l \in Node \ {b} : TakesOver(n, l) => Agree(log[l], log[b], k),
           TakesOver(n, b) => Agree(log[n], log[b], nextIndex[b][n] - 1)
    PROVE  Agree(log'[n], log'[b], k)
<1>1. Len(log[b]) \in Nat /\ Len(log'[b]) \in Nat /\ Stays(b)
  BY SecondStays, StaysIs, SceneNumbers
<1>2. ASSUME NEW s, Agree(s, log[b], k) PROVE Agree(s, log'[b], k)
  <2>1. Agree(log[b], s, k)
    BY <1>2, AgreeTurned
  <2>2. Agree(log'[b], s, k)
    BY <1>1, <2>1, AgreeStays
  <2> QED
    BY <2>2, AgreeTurned
<1>3. Agree(log[n], log'[b], k)
  BY <1>2
<1>4. CASE Keeps(n)
  BY <1>3, <1>4, AgreeKeeps
<1>5. CASE Grows(n)
  <2>1. k <= Len(log[n]) /\ Len(log[n]) \in Nat
    BY <1>5, OldWriter, SceneNumbers
  <2> QED
    BY <1>3, <1>5, <2>1, AgreeGrows
<1>6. CASE TakesOver(n, b)
  BY <1>6, SceneTypes, AgreeTakesAll
<1>7. ASSUME NEW l \in Node \ {b}, TakesOver(n, l) PROVE Agree(log'[n], log'[b], k)
  <2>1. Agree(log[l], log'[b], k)
    BY <1>2, <1>7
  <2>2. PICK s : s = log'[b]
    OBVIOUS
  <2>3. Agree(log'[n], s, k)
    BY <1>1, <1>3, <1>7, <2>1, <2>2, SceneTypes, AgreeTakes
  <2> QED
    BY <2>2, <2>3
<1> QED
  BY <1>4, <1>5, <1>6, <1>7, SceneNumbers DEF Moves

LEMMA TwoTermsAgree ==
    ASSUME NEW old, NEW new, Scene(old, new), NEW b \in Node, NEW B \in Nat,
           TwoTerms(old, new, b, B), NEW n \in Node
    PROVE  B <= Len(log'[b]) /\ Agree(log'[n], log'[b], B)
<1>1. /\ WinsTerm(new, b) /\ B <= Len(log[b])
      /\ \A p \in Node : Agree(log[p], log[b], B)
  BY DEF TwoTerms
<1>2. B <= Len(log'[b])
  <2>1. Stays(b) /\ Len(log[b]) \in Nat /\ Len(log'[b]) \in Nat
    BY <1>1, SecondStays, StaysIs, SceneNumbers
  <2> QED
    BY <1>1, <2>1 DEF Stays
<1>3. CASE n = b
  BY <1>2, <1>3 DEF Agree
<1>4. CASE n # b
  <2>1. WinsTerm(old, n) => B <= Len(log[n])
    BY <1>4 DEF TwoTerms, Predecessor
  <2>2. TakesOver(n, b) => Agree(log[n], log[b], nextIndex[b][n] - 1)
    BY <1>4 DEF TwoTerms, Successor, TakesOver
  <2> QED
    BY <1>1, <1>2, <1>4, <2>1, <2>2, AgreesOn
<1> QED
  BY <1>3, <1>4

(* What n has answered the new leader stays so until the leader counts it. *)
LEMMA AnswerStays ==
    ASSUME NEW old, NEW new, Scene(old, new), NEW b \in Node, NEW B \in Nat,
           TwoTerms(old, new, b, B), NEW n \in Node \ {b},
           leading[b], Answers(n, b)
    PROVE  /\ currentTerm'[n] >= new /\ Len(log'[b]) = Len(log[b])
           /\ Follows(log'[b], log'[n])
<1>1. /\ WinsTerm(new, b) /\ currentTerm[n] >= new /\ Follows(log[b], log[n])
      /\ Agree(log[n], log[b], nextIndex[b][n] - 1)
  BY DEF TwoTerms, Successor
<1>2. /\ lock[b] \in {"append", "wait"} /\ ~Asks(b, n)
  <2>1. PICK a \in net : Appended(a, n, b)
    BY DEF Answers
  <2> QED
    BY <2>1, SceneTypes, OneAtATime
<1>3. Keeps(b)
  BY <1>1, <1>2, SecondStays DEF Grows
<1>4. Len(log[b]) \in Nat /\ Len(log[n]) \in Nat /\ Len(log'[n]) \in Nat /\ Moves(n)
      /\ currentTerm'[n] >= new
  BY <1>1, SceneNumbers
<1>5. ASSUME NEW l \in Node, TakesOver(n, l) PROVE FALSE
  <2>1. l # b /\ leading[l] /\ currentTerm[l] >= currentTerm[n]
    BY <1>2, <1>5 DEF TakesOver
  <2>2. currentTerm[l] = old
    BY <1>1, <2>1, SecondStays
  <2> QED
    BY <1>1, <2>1, <2>2, SceneNumbers
<1>6. Len(log'[b]) = Len(log[b]) /\ Len(log'[b]) <= Len(log'[n])
  BY <1>1, <1>3, <1>4, <1>5 DEF Moves, Keeps, Grows, Follows
<1>7. Agree(log'[b], log'[n], Len(log'[b]))
  <2>1. PICK k \in Int : k = Len(log[b])
    BY <1>4
  <2>2. Agree(log[n], log[b], k) /\ k <= Len(log[n]) /\ k <= Len(log[b])
    BY <1>1, <1>4, <2>1, AgreeTurned DEF Follows
  <2>3. Agree(log'[n], log'[b], k)
    BY <1>1, <1>5, <2>2, AgreesOn
  <2> QED
    BY <1>6, <2>1, <2>3, AgreeTurned
<1> QED
  BY <1>4, <1>6, <1>7 DEF Follows

LEMMA SuccessorStep ==
    ASSUME NEW old, NEW new, Scene(old, new), NEW b \in Node, NEW B \in Nat,
           TwoTerms(old, new, b, B), NEW n \in Node \ {b},
           leading'[b]
    PROVE  Successor(new, b, n, B)'
<1>1. /\ WinsTerm(new, b) /\ leading[b] /\ currentTerm[b] = new
      /\ \A l \in Node : leading[l] /\ l # b => WinsTerm(old, l) /\ currentTerm[l] = old
  BY SecondStays DEF TwoTerms
<1>2. Successor(new, b, n, B) /\ Agree(log[n], log[b], B) /\ B <= Len(log[b])
  BY <1>1 DEF TwoTerms
<1>3. SameCount(b, n) \/ NewCount(b, n)
  <2>1. Counts(b, n)
    BY SceneNumbers DEF Moves
  <2>2. lock[b] # "vote"
    BY <1>1, HasWon, SceneNumbers
  <2> QED
    BY <2>1, <2>2 DEF Counts, FirstCount, Won
<1>4. /\ nextIndex[b][n] - 1 \in 0..Len(log[b]) /\ Len(log[b]) \in Nat
      /\ nextIndex[b][n] \in Nat
  <2>1. nextIndex[b][n] \in 1..(Len(log[b]) + 1)
    BY <1>1 DEF Scene, Good, Known, BroadcastInv, InRange
  <2> QED
    BY <2>1, SceneNumbers
<1>5. PICK k \in Nat : k = nextIndex[b][n] - 1
  BY <1>4
<1>6. k <= Len(log[b]) /\ Agree(log[n], log[b], k) /\ (currentTerm[n] < new => k <= B)
  BY <1>2, <1>4, <1>5 DEF Successor
<1>7. /\ currentTerm[n] \in Nat /\ currentTerm'[n] \in Nat
      /\ currentTerm'[n] >= currentTerm[n]
      /\ old \in Nat /\ new \in Nat /\ old < new
  BY SceneNumbers
<1>8. ASSUME NEW j \in Int, j <= k PROVE Agree(log'[n], log'[b], j)
  <2>1. j <= Len(log[b]) /\ Agree(log[n], log[b], j)
    BY <1>4, <1>6, <1>8, AgreeLess
  <2>2. WinsTerm(old, n) => j <= Len(log[n])
    <3>1. WinsTerm(old, n) => k <= Len(log[n])
      BY <1>1, <1>5 DEF TwoTerms, Predecessor
    <3> QED
      BY <1>8, <3>1, SceneNumbers
  <2>3. ASSUME NEW l \in Node \ {b}, TakesOver(n, l) PROVE Agree(log[l], log[b], j)
    <3>1. leading[l] /\ currentTerm[l] >= currentTerm[n]
      BY <2>3 DEF TakesOver
    <3>2. j <= B
      BY <1>1, <1>6, <1>7, <1>8, <3>1
    <3>3. Agree(log[l], log[b], B)
      BY DEF TwoTerms
    <3> QED
      BY <3>2, <3>3, AgreeLess
  <2>4. Agree(log[n], log[b], nextIndex[b][n] - 1)
    BY <1>5, <1>6
  <2> QED
    BY <1>1, <2>1, <2>2, <2>3, <2>4, AgreesOn
<1>9. /\ Agree(log'[n], log'[b], nextIndex'[b][n] - 1)
      /\ currentTerm'[n] < new => nextIndex'[b][n] - 1 <= B
  <2>1. CASE SameCount(b, n)
    <3>1. nextIndex'[b][n] - 1 = k
      BY <1>5, <2>1 DEF SameCount
    <3>2. Agree(log'[n], log'[b], k)
      BY <1>8
    <3> QED
      BY <1>6, <1>7, <3>1, <3>2
  <2>2. CASE NewCount(b, n)
    <3>1. PICK a \in net \ net' :
             /\ Appended(a, n, b)
             /\ \/ a.ok /\ nextIndex'[b][n] = Len(log[b]) + 1
                \/ ~a.ok /\ nextIndex'[b][n] = nextIndex[b][n] - 1
      BY <2>2 DEF NewCount
    <3>2. CASE a.ok /\ nextIndex'[b][n] = Len(log[b]) + 1
      <4>1. /\ currentTerm'[n] >= new /\ Len(log'[b]) = Len(log[b])
            /\ Follows(log'[b], log'[n])
        BY <1>1, <3>1, <3>2, AnswerStays DEF Answers
      <4>2. nextIndex'[b][n] - 1 = Len(log'[b])
        BY <1>4, <3>2, <4>1
      <4>3. Agree(log'[n], log'[b], Len(log'[b]))
        BY <4>1, AgreeTurned DEF Follows
      <4> QED
        BY <1>7, <4>1, <4>2, <4>3
    <3>3. CASE ~a.ok /\ nextIndex'[b][n] = nextIndex[b][n] - 1
      <4>1. nextIndex'[b][n] - 1 = k - 1
        BY <1>5, <3>3
      <4>2. PICK j \in Int : j = k - 1
        OBVIOUS
      <4>3. Agree(log'[n], log'[b], j) /\ j < k
        BY <1>8, <4>2
      <4> QED
        BY <1>6, <1>7, <4>1, <4>2, <4>3
    <3> QED
      BY <3>1, <3>2, <3>3
  <2> QED
    BY <1>3, <2>1, <2>2
<1>10. ASSUME Answers(n, b)' PROVE currentTerm'[n] >= new /\ Follows(log'[b], log'[n])
  <2>1. PICK a \in net' : Appended(a, n, b) /\ a.ok
    BY <1>10 DEF Answers, Appended
  <2>2. CASE a \in net
    BY <1>1, <2>1, <2>2, AnswerStays DEF Answers
  <2>3. CASE a \notin net
    <3>1. TakesOver(n, b) /\ Len(log'[n]) = Len(log[b])
      BY <2>1, <2>3, SceneTypes DEF StepFacts, Comes, NewAnswer, Appended
    <3>2. log'[b] = log[b] /\ currentTerm'[n] >= new
      BY <1>1, <1>7, <3>1 DEF TakesOver, Rests
    <3>3. PICK j \in Int : j = Len(log'[b])
      BY <1>4, <3>2
    <3>4. Agree(log[n], log[b], nextIndex[b][n] - 1)
      BY <1>2 DEF Successor
    <3>5. Agree(log'[n], log'[b], j)
      BY <3>1, <3>4, SceneTypes, AgreeTakesAll
    <3>6. Agree(log'[b], log'[n], Len(log'[b]))
      BY <3>3, <3>5, AgreeTurned
    <3> QED
      BY <1>4, <3>1, <3>2, <3>6 DEF Follows
  <2> QED
    BY <2>2, <2>3
<1> QED
  BY <1>9, <1>10 DEF Successor

(* A majority has heard of the second term, so the leader of the first     *)
(* counts nothing that it could not have counted before.                   *)
LEMMA CountsUpToStep ==
    ASSUME NEW old, NEW new, Scene(old, new), NEW b \in Node, WinsTerm(new, b),
           NEW B \in Nat, NEW a \in Node,
           WinsTerm(old, a) => CountsUpTo(old, a, B)
    PROVE  CountsUpTo(old, a, B)'
<1> SUFFICES ASSUME NEW A \in SUBSET Node, NEW S \in SUBSET Node, NEW c \in Nat \ {0},
                    leading'[a], currentTerm'[a] = old, c <= Len(log'[a]),
                    Majority(A \cup S), \A q \in A : Acked(a, q, c)',
                    \A q \in S : currentTerm'[q] <= old
             PROVE  c <= B
  BY DEF CountsUpTo, Counted, Majority
<1>1. currentTerm[a] = old
  BY SceneNumbers DEF Moves
<1>2. \A q \in A : \/ leading[a] /\ Acked(a, q, c)
                   \/ currentTerm'[q] = old
  BY <1>1, SceneTypes, AcksCome
<1>3. PICK A0 \in SUBSET A : \A q \in A : q \in A0 <=> leading[a] /\ Acked(a, q, c)
  <2>1. {q \in A : leading[a] /\ Acked(a, q, c)} \in SUBSET A
    OBVIOUS
  <2> QED
    BY <2>1
<1>4. PICK S0 \in SUBSET Node : S0 = S \cup (A \ A0)
  OBVIOUS
<1>5. \A q \in S0 : currentTerm'[q] <= old /\ currentTerm[q] <= old
  <2>1. \A q \in S0 : q \in Node /\ currentTerm'[q] <= old
    BY <1>2, <1>3, <1>4, SceneNumbers
  <2> QED
    BY <2>1, SceneNumbers
<1>6. A0 \cup S0 = A \cup S
  BY <1>3, <1>4
<1>7. CASE A0 # {}
  <2>1. leading[a] /\ c <= Len(log[a])
    BY <1>3, <1>7 DEF Acked
  <2>2. WinsTerm(old, a)
    BY <1>1, <2>1, Leads
  <2>3. Counted(a, A0, S0, c, old)
    BY <1>1, <1>3, <1>5, <1>6, <2>1 DEF Counted
  <2>4. A0 \in SUBSET Node
    BY <1>3
  <2> QED
    BY <2>2, <2>3, <2>4 DEF CountsUpTo
<1>8. CASE A0 = {}
  <2>1. <<new, b>> \in wins'
    BY SceneTypes DEF StepFacts, WinsTerm
  <2>2. PICK P \in SUBSET Node : Majority(P) /\ \A q \in P : <<q, new, b>> \in votes'
    BY <2>1, SceneTypes DEF ElectionInv, WinsHaveMajority, Majority
  <2>3. PICK r \in P \cap (A \cup S) : TRUE
    BY <2>2, MajoritiesMeet
  <2>4. new <= currentTerm'[r]
    BY <2>2, <2>3, SceneTypes DEF ElectionInv, VotesOnDisk
  <2>5. r \in S0 /\ r \in Node
    BY <1>6, <1>8, <2>3
  <2>6. /\ currentTerm'[r] <= old /\ currentTerm'[r] \in Nat
        /\ old \in Nat /\ new \in Nat /\ old < new
    BY <1>5, <2>5, SceneNumbers
  <2> QED
    BY <2>4, <2>6
<1> QED
  BY <1>7, <1>8

LEMMA PredecessorStays ==
    ASSUME NEW old, NEW new, Scene(old, new), NEW b \in Node, NEW B \in Nat,
           TwoTerms(old, new, b, B), NEW a \in Node \ {b},
           WinsTerm(old, a)
    PROVE  Predecessor(old, a, b, B)'
<1>1. /\ WinsTerm(new, b) /\ (leading'[b] => leading[b])
      /\ \A l \in Node : leading[l] /\ l # b => WinsTerm(old, l)
  BY SecondStays DEF TwoTerms
<1>2. /\ Predecessor(old, a, b, B) /\ B <= Len(log[b])
  BY <1>1 DEF TwoTerms
<1>3. /\ Len(log[a]) \in Nat /\ Len(log'[a]) \in Nat /\ Len(log[b]) \in Nat /\ Moves(a)
      /\ nextIndex[b][a] \in Nat /\ nextIndex'[b][a] \in Nat
  BY SceneNumbers, SceneTypes, Numbers
<1>4. Len(log'[a]) >= Len(log[a]) \/ TakesOver(a, b)
  <2>1. ASSUME NEW l \in Node, TakesOver(a, l) PROVE l = b
    <3>1. leading[l] /\ l # a
      BY <2>1 DEF TakesOver
    <3> QED
      BY <1>1, <3>1, OneWinner
  <2> QED
    BY <1>3, <2>1 DEF Moves, Keeps, Grows
<1>5. TakesOver(a, b) => /\ leading[b] /\ nextIndex[b][a] - 1 >= B
                         /\ Len(log'[a]) >= nextIndex[b][a] - 1
  BY <1>2, <1>3 DEF TakesOver, Predecessor
<1>6. B <= Len(log[a]) /\ B <= Len(log'[a])
  BY <1>2, <1>3, <1>4, <1>5 DEF Predecessor
<1>7. ASSUME leading'[b]
      PROVE  nextIndex'[b][a] - 1 \in B..Len(log'[a]) /\ ~Refuses(a, b)'
  <2>1. leading[b] /\ nextIndex[b][a] - 1 \in B..Len(log[a]) /\ ~Refuses(a, b)
    BY <1>1, <1>2, <1>7 DEF Predecessor
  <2>2. ~Refuses(a, b)'
    BY <1>3, <1>7, <2>1, SceneTypes, RefusalsCome
  <2>3. nextIndex[b][a] - 1 <= Len(log'[a])
    BY <1>3, <1>4, <1>5, <2>1
  <2>4. SameCount(b, a) \/ NewCount(b, a)
    <3>1. Counts(b, a)
      BY <1>7, SceneNumbers DEF Moves
    <3>2. lock[b] # "vote"
      BY <2>1 DEF Scene, Good, LeadersWon
    <3> QED
      BY <3>1, <3>2 DEF Counts, FirstCount, Won
  <2>5. CASE SameCount(b, a)
    BY <1>3, <2>1, <2>2, <2>3, <2>5 DEF SameCount
  <2>6. CASE NewCount(b, a)
    <3>1. PICK x \in net \ net' :
             /\ Appended(x, a, b) /\ x.term <= currentTerm[b]
             /\ x.ok => nextIndex'[b][a] = Len(log[b]) + 1
      BY <2>6 DEF NewCount
    <3>2. x.ok
      BY <2>1, <3>1 DEF Refuses
    <3>3. Len(log'[b]) = Len(log[b]) /\ Len(log'[b]) <= Len(log'[a])
      BY <2>1, <3>1, <3>2, AnswerStays DEF Answers, Follows
    <3> QED
      BY <1>2, <1>3, <2>2, <3>1, <3>2, <3>3
  <2> QED
    BY <2>4, <2>5, <2>6
<1>8. CountsUpTo(old, a, B)'
  BY <1>1, <1>2, CountsUpToStep DEF Predecessor
<1> QED
  BY <1>6, <1>7, <1>8 DEF Predecessor

(* An election of the first term that is won after that of the second one  *)
(* was: no entry was counted before.                                       *)
LEMMA LateWinner ==
    ASSUME NEW old, NEW new, Scene(old, new), NEW b \in Node, NEW B \in Nat,
           TwoTerms(old, new, b, B), NEW a \in Node \ {b},
           WinElection(a), currentTerm[a] = old, ~WinsTerm(old, a)
    PROVE  Predecessor(old, a, b, B)'
<1>1. /\ WinsTerm(old, a)' /\ UNCHANGED <<log, currentTerm>>
      /\ \A m \in net' : m.live => m \in net
      /\ Rests(b)
  BY NewLeader DEF WinsTerm
<1>2. \A p \in Node : ~WinsTerm(old, p)
  BY <1>1, OneWinner
<1>3. B = 0 /\ WinsTerm(new, b)
  BY <1>2 DEF TwoTerms
<1>4. ASSUME leading'[b]
      PROVE  nextIndex'[b][a] - 1 \in 0..Len(log'[a]) /\ ~Refuses(a, b)'
  <2>1. leading[b] /\ nextIndex'[b][a] = nextIndex[b][a]
    BY <1>1, <1>4 DEF Rests
  <2>2. nextIndex[b][a] - 1 <= 0
    BY <1>3, <2>1, SceneNumbers DEF TwoTerms, Successor
  <2>3. nextIndex[b][a] \in 1..(Len(log[b]) + 1) /\ Len(log[b]) \in Nat
    BY <2>1, SceneNumbers DEF Scene, Good, Known, BroadcastInv, InRange
  <2>4. nextIndex[b][a] = 1
    BY <2>2, <2>3
  <2>5. ASSUME NEW x \in net', Appended(x, a, b), ~x.ok, x.term <= currentTerm'[b]
        PROVE  FALSE
    <3>1. x \in net /\ x.live
      BY <1>1, <2>5, SceneTypes, AnswersStayLive DEF Appended
    <3>2. InRound(x) /\ x.caller = b /\ x.peer = a
      BY <2>5, <3>1 DEF InRound, Appended
    <3>3. MayStepBack(x)
      BY <2>5, <3>1, <3>2 DEF Scene, Good, Known, BroadcastInv, OfItsRound, Appended
    <3>4. nextIndex[b][a] >= 2
      BY <1>1, <2>5, <3>2, <3>3 DEF MayStepBack
    <3> QED
      BY <2>4, <3>4
  <2>6. ~Refuses(a, b)'
    BY <2>5 DEF Refuses, Appended
  <2>7. Len(log'[a]) \in Nat
    BY SceneNumbers
  <2> QED
    BY <2>1, <2>4, <2>6, <2>7
<1>5. CountsUpTo(old, a, B)'
  BY <1>2, <1>3, CountsUpToStep
<1>6. B <= Len(log'[a])
  BY <1>3, SceneNumbers
<1> QED
  BY <1>3, <1>4, <1>5, <1>6 DEF Predecessor

LEMMA TwoTermsStep ==
    ASSUME NEW old, NEW new, Scene(old, new),
           wins' = wins \/ \E n \in Node : WinElection(n),
           NEW b \in Node, NEW B \in Nat, TwoTerms(old, new, b, B)
    PROVE  TwoTerms(old, new, b, B)'
<1>1. WinsTerm(new, b)'
  BY OneWinner DEF TwoTerms
<1>2. \A n \in Node : Agree(log'[n], log'[b], B) /\ B <= Len(log'[b])
  BY TwoTermsAgree
<1>3. leading'[b] => \A n \in Node \ {b} : Successor(new, b, n, B)'
  BY SuccessorStep
<1>4. ASSUME NEW a \in Node \ {b}, WinsTerm(old, a)' PROVE Predecessor(old, a, b, B)'
  <2>1. CASE WinsTerm(old, a)
    BY <2>1, PredecessorStays
  <2>2. CASE ~WinsTerm(old, a)
    <3>1. PICK n \in Node : WinElection(n)
      BY <1>4, <2>2 DEF WinsTerm
    <3>2. wins' = wins \cup {<<currentTerm[n], n>>}
      BY <3>1, NewLeader
    <3>3. n = a /\ currentTerm[a] = old
      BY <1>4, <2>2, <3>2 DEF WinsTerm
    <3> QED
      BY <2>2, <3>1, <3>3, LateWinner
  <2> QED
    BY <2>1, <2>2
<1>5. (\A a \in Node : ~WinsTerm(old, a)') => B = 0
  BY OneWinner DEF TwoTerms
<1> QED
  BY <1>1, <1>2, <1>3, <1>4, <1>5 DEF TwoTerms

\* Beyond B, no node has an operation of its own that b has there as well.
Apart(b, B) ==
    \A n \in Node \ {b} : \A j \in Nat :
        /\ j > B /\ j \in 1..Len(log[n]) /\ j \in 1..Len(log[b]) /\ log[n][j].chan
        => log[n][j].val # log[b][j].val

LEMMA ApartStep ==
    ASSUME NEW old, NEW new, Scene(old, new), TakenUpOnce, EntriesMove,
           NEW b \in Node, WinsTerm(new, b), NEW B,
           Apart(b, B)
    PROVE  Apart(b, B)'
<1> SUFFICES ASSUME NEW n \in Node \ {b}, NEW j \in Nat, j > B, j \in 1..Len(log'[n]),
                    j \in 1..Len(log'[b]), log'[n][j].chan
             PROVE  log'[n][j].val # log'[b][j].val
  BY DEF Apart
<1>1. WithChannel(n, j)
  BY SceneTypes, ChannelsStay DEF EntriesMove
<1>2. \/ j \in 1..Len(log[b]) /\ log'[b][j].val = log[b][j].val
      \/ log'[b][j].val \in checked[b]
  <2>1. Keeps(b) \/ Grows(b)
    BY SecondStays
  <2>2. Len(log[b]) \in Nat
    BY SceneNumbers
  <2>3. CASE Grows(b)
    <3>1. j \in 1..Len(log[b]) \/ j = Len(log[b]) + 1
      BY <2>2, <2>3 DEF Grows
    <3> QED
      BY <2>3, <3>1 DEF Grows
  <2> QED
    BY <2>1, <2>3 DEF Keeps
<1>3. /\ \A v \in checked[b] : Nowhere(v) /\ v \notin checked[n]
      /\ \A v \in checked[n] : Nowhere(v)
  BY DEF TakenUpOnce
<1>4. CASE j \in 1..Len(log[n]) /\ log'[n][j] = log[n][j]
  BY <1>2, <1>3, <1>4 DEF Apart, Nowhere
<1>5. ASSUME NEW v \in checked[n], log'[n][j] = NewEntry(v)
      PROVE  log'[n][j].val # log'[b][j].val
  <2>1. log'[n][j].val = v
    BY <1>5 DEF NewEntry
  <2> QED
    BY <1>2, <1>3, <2>1 DEF Nowhere
<1> QED
  BY <1>1, <1>4, <1>5 DEF WithChannel

-----------------------------------------------------------------------------
(* What is handed on, and the order that comes of it.                      *)

\* n hands on the entries of its log up to c.
HandsOn(n, c) ==
    /\ Len(applied[n]) <= c /\ Len(applied'[n]) = c
    /\ \A i \in 1..c : applied'[n][i] = IF i <= Len(applied[n]) THEN applied[n][i]
                                        ELSE log'[n][i]

LEMMA CommitHandsOn ==
    ASSUME TypeOK, TypeOK', AppliedGapless, NEW n \in Node, NEW c \in Nat,
           CommitChanges(n, log'[n], c), c <= Len(log'[n])
    PROVE  HandsOn(n, c)
<1>1. PICK s \in Seq(Entry) : s = log'[n]
  BY DEF TypeOK
<1>2. Len(s) \in Nat /\ c <= Len(s)
  BY <1>1, LenProperties
<1>3. PICK k \in Nat : k = lastApplied[n]
  BY DEF TypeOK
<1>4. applied[n] \in Seq(Entry) /\ Len(applied[n]) = k
  BY <1>3 DEF TypeOK, AppliedGapless
<1>5. CommitLimit(s, c) = c
  BY <1>2 DEF CommitLimit
<1>6. /\ k <= c
      /\ applied' = [applied EXCEPT ![n] = applied[n] \o SubSeq(s, k + 1, c - Len(<<>>)) \o <<>>]
  <2>1. ~(c > Len(s))
    BY <1>2
  <2> QED
    BY <1>1, <1>3, <1>5, <2>1, Zenon DEF CommitChanges, FirstToApply
<1>7. PICK t : t = SubSeq(s, k + 1, c)
  OBVIOUS
<1>8. t \in Seq(Entry) /\ Len(t) = c - k /\ \A i \in 1..(c - k) : t[i] = s[k + i]
  <2>1. PICK j \in Nat : j = k + 1
    OBVIOUS
  <2>2. \A i \in j..c : s[i] \in Entry
    BY <1>2, <2>1, ElementOfSeq
  <2>3. /\ t \in Seq(Entry) /\ Len(t) = IF j <= c THEN c - j + 1 ELSE 0
        /\ \A i \in 1..(c - j + 1) : t[i] = s[j + i - 1]
    BY <1>7, <2>1, <2>2, SubSeqProperties
  <2>4. c - j + 1 = c - k /\ (IF j <= c THEN c - j + 1 ELSE 0) = c - k
    BY <1>6, <2>1
  <2>5. \A i \in 1..(c - k) : j + i - 1 = k + i
    BY <2>1
  <2> QED
    BY <2>3, <2>4, <2>5
<1>9. applied'[n] = applied[n] \o t \o <<>>
  <2>1. c - Len(<<>>) = c
    OBVIOUS
  <2>2. applied' = [applied EXCEPT ![n] = applied[n] \o t \o <<>>]
    BY <1>6, <1>7, <2>1
  <2> QED
    BY <2>2 DEF TypeOK
<1>10. /\ applied[n] \o t \in Seq(Entry) /\ Len(applied[n] \o t) = c
       /\ \A i \in 1..c : (applied[n] \o t)[i] = IF i <= k THEN applied[n][i] ELSE t[i - k]
  <2>1. /\ applied[n] \o t \in Seq(Entry)
        /\ Len(applied[n] \o t) = Len(applied[n]) + Len(t)
        /\ \A i \in 1..(Len(applied[n]) + Len(t)) :
              (applied[n] \o t)[i] = IF i <= Len(applied[n]) THEN applied[n][i]
                                     ELSE t[i - Len(applied[n])]
    BY <1>4, <1>8, ConcatProperties
  <2>2. Len(applied[n]) + Len(t) = c
    BY <1>4, <1>8
  <2> QED
    BY <1>4, <2>1, <2>2
<1>11. applied'[n] = applied[n] \o t
  BY <1>9, <1>10, ConcatEmptySeq
<1>12. ASSUME NEW i \in 1..c
       PROVE  applied'[n][i] = IF i <= k THEN applied[n][i] ELSE s[i]
  <2>1. CASE i <= k
    BY <1>10, <1>11, <2>1
  <2>2. CASE ~(i <= k)
    <3>1. i - k \in 1..(c - k) /\ k + (i - k) = i
      BY <2>2
    <3>2. t[i - k] = s[i]
      BY <1>8, <3>1
    <3> QED
      BY <1>10, <1>11, <2>2, <3>2
  <2> QED
    BY <2>1, <2>2
<1> QED
  BY <1>1, <1>4, <1>6, <1>10, <1>11, <1>12 DEF HandsOn

\* No node hands anything on, unless it starts again; or n does.
NothingHandedOn ==
    \A p \in Node : \/ applied'[p] = applied[p] /\ commitIndex'[p] = commitIndex[p]
                    \/ applied'[p] = <<>> /\ commitIndex'[p] = 0
OneHandsOn(n) ==
    /\ \A p \in Node \ {n} : applied'[p] = applied[p] /\ commitIndex'[p] = commitIndex[p]
    /\ \/ AcceptAppend(n)
       \/ CalcCommit(n) /\ IsCommitIndex(matchIndex[n], commitIndex'[n])
    /\ commitIndex'[n] \in Nat /\ CommitChanges(n, log'[n], commitIndex'[n])

LEMMA CommitIsLast ==
    ASSUME TypeOK, NEW n \in Node, NEW s, NEW c, CommitChanges(n, s, c)
    PROVE  /\ commitIndex'[n] = c
           /\ \A p \in Node \ {n} : applied'[p] = applied[p] /\ commitIndex'[p] = commitIndex[p]
BY DEF CommitChanges, TypeOK

LEMMA HandedCome ==
    ASSUME TypeOK, TypeOK', [Next]_vars
    PROVE  NothingHandedOn \/ \E n \in Node : OneHandsOn(n)
<1>1. CASE UNCHANGED commitVars
  BY <1>1 DEF commitVars, NothingHandedOn
<1>2. CASE UNCHANGED vars
  BY <1>1, <1>2 DEF vars
<1>3. ASSUME NEW n \in Node, Election(n) PROVE UNCHANGED commitVars
  BY <1>3 DEF Election, TimerFires, CheckAlreadyLeader, StartElection, CountVote,
              StepDown, LoseElection, WinElection, HandleRequestVote
<1>4. ASSUME NEW n \in Node, Replication(n)
      PROVE  UNCHANGED commitVars \/ OneHandsOn(n)
  <2>1. CASE AcceptAppend(n)
    <3>1. PICK c : CommitChanges(n, log'[n], c)
      BY <2>1 DEF AcceptAppend
    <3>2. commitIndex'[n] \in Nat
      BY DEF TypeOK
    <3> QED
      BY <2>1, <3>1, <3>2, CommitIsLast DEF OneHandsOn
  <2>2. CASE CalcCommit(n)
    <3>1. log' = log
      BY <2>2 DEF CalcCommit, diskVars
    <3>2. UNCHANGED commitVars
          \/ \E c : CommitChanges(n, log[n], c) /\ IsCommitIndex(matchIndex[n], c)
      BY <2>2 DEF CalcCommit
    <3>3. commitIndex'[n] \in Nat
      BY DEF TypeOK
    <3> QED
      BY <2>2, <3>1, <3>2, <3>3, CommitIsLast DEF OneHandsOn
  <2>3. CASE RejectStaleAppend(n) \/ RejectMismatch(n) \/ PanicInAppend(n)
               \/ StartBroadcast(n) \/ HandleAppendAnswer(n) \/ EndBroadcast(n)
    BY <2>3 DEF RejectStaleAppend, RejectMismatch, PanicInAppend, StartBroadcast,
                HandleAppendAnswer, EndBroadcast
  <2> QED
    BY <1>4, <2>1, <2>2, <2>3 DEF Replication
<1>5. ASSUME NEW n \in Node, Client(n) PROVE UNCHANGED commitVars
  BY <1>5 DEF Client, CheckLeader, ApplyRequest
<1>6. ASSUME NEW n \in Node, Failure(n) PROVE NothingHandedOn
  <2>1. applied' = [applied EXCEPT ![n] = <<>>] /\ commitIndex' = [commitIndex EXCEPT ![n] = 0]
    BY <1>6 DEF Failure, Crash, CrashInVote, CrashInAppend, Reboot
  <2> QED
    BY <2>1 DEF TypeOK, NothingHandedOn
<1> QED
  BY <1>1, <1>2, <1>3, <1>4, <1>5, <1>6 DEF Next, IdleTick

(* The order changes as Core says, or nothing is handed on.                *)
OrderMoves ==
    \/ order' = IF \E n \in Node : Len(applied'[n]) > Len(order)
                  THEN Writes(applied'[CHOOSE n \in Node : Len(applied'[n]) > Len(order)])
                  ELSE order
    \/ order' = order /\ NothingHandedOn

LEMMA StoreOrders ==
    ASSUME TypeOK, [StoreNext]_storeVars PROVE OrderMoves
<1>1. ASSUME UNCHANGED commitVars PROVE NothingHandedOn
  BY <1>1 DEF commitVars, NothingHandedOn
<1>2. CASE UNCHANGED storeVars
  BY <1>1, <1>2 DEF storeVars, vars, OrderMoves
<1>3. ASSUME NEW n \in Node, Core(Election(n)) \/ Core(Replication(n)) PROVE OrderMoves
  BY <1>3 DEF Core, OrderMoves
<1>4. ASSUME NEW n \in Node, Consume(n) PROVE OrderMoves
  BY <1>1, <1>4 DEF Consume, vars, OrderMoves
<1>5. ASSUME NEW n \in Node, Restart(n) PROVE OrderMoves
  <2>1. /\ applied' = [applied EXCEPT ![n] = <<>>]
        /\ commitIndex' = [commitIndex EXCEPT ![n] = 0]
    BY <1>5 DEF Restart, Failure, Crash, CrashInVote, CrashInAppend, Reboot
  <2>2. NothingHandedOn
    BY <2>1 DEF TypeOK, NothingHandedOn
  <2> QED
    BY <1>5, <2>2 DEF Restart, OrderMoves
<1>6. ASSUME NEW n \in Node, NEW w \in Value,
             PassCheck(n, w) \/ FailCheck(n, w) \/ Redirect(n, w) \/ Submit(n, w)
      PROVE  OrderMoves
  BY <1>1, <1>6 DEF PassCheck, CheckLeader, FailCheck, Redirect, Submit, ApplyRequest,
                    vars, OrderMoves
<1>7. ASSUME NEW n \in Node, NEW r \in Read,
             RedirectRead(n, r) \/ PassRead(n, r) \/ Get(n, r)
      PROVE  OrderMoves
  BY <1>1, <1>7 DEF RedirectRead, PassRead, Get, vars, OrderMoves
<1> QED
  BY <1>2, <1>3, <1>4, <1>5, <1>6, <1>7 DEF StoreNext

-----------------------------------------------------------------------------
(* The order against the log of the newest leader.                         *)

\* The order of writes is the beginning of the log of n.
InOrder(n) ==
    Len(order) <= Len(log[n]) /\ \A i \in 1..Len(order) : order[i] = log[n][i].val

HandedInOrder(n) ==
    Len(applied[n]) <= Len(order) /\ \A i \in 1..Len(applied[n]) : applied[n][i].val = order[i]

\* Who hands on at all, hands on the beginning of its log.
HandedWell ==
    \/ NothingHandedOn
    \/ \E n \in Node : OneHandsOn(n) /\ HandsOn(n, commitIndex'[n])
                       /\ commitIndex'[n] <= Len(log'[n])

\* What is in the order keeps its place.
OrderStays ==
    Len(order) <= Len(order') /\ \A i \in 1..Len(order) : order'[i] = order[i]

LEMMA OrderRests ==
    ASSUME \A n \in Node : HandedInOrder(n), Len(order) \in Nat, OrderMoves,
           NothingHandedOn
    PROVE  order' = order /\ \A n \in Node : HandedInOrder(n)'
<1>1. ASSUME NEW n \in Node
      PROVE  /\ Len(applied'[n]) <= Len(order)
             /\ \A i \in 1..Len(applied'[n]) : applied'[n][i].val = order[i]
  <2>1. CASE applied'[n] = applied[n]
    BY <2>1 DEF HandedInOrder
  <2>2. CASE applied'[n] = <<>>
    <3>1. Len(<<>>) = 0 /\ 1..0 = {}
      OBVIOUS
    <3> QED
      BY <2>2, <3>1
  <2> QED
    BY <2>1, <2>2 DEF NothingHandedOn
<1>2. ~ \E n \in Node : Len(applied'[n]) > Len(order)
  <2>1. ASSUME NEW n \in Node, Len(applied'[n]) > Len(order) PROVE FALSE
    <3>1. applied'[n] = applied[n] \/ applied'[n] = <<>>
      BY DEF NothingHandedOn
    <3>2. Len(applied'[n]) <= Len(order)
      BY <1>1
    <3>3. Len(order) < Len(applied'[n]) /\ Len(applied'[n]) <= Len(order)
      BY <2>1, <3>2
    <3> QED
      BY <3>3
  <2> QED
    BY <2>1
<1>3. order' = order
  BY <1>2, Zenon DEF OrderMoves
<1> QED
  BY <1>1, <1>3 DEF HandedInOrder

(* A node hands on what the newest leader has, too: it is in the order, or *)
(* the order now ends with it.                                             *)
LEMMA OrderTakes ==
    ASSUME TypeOK, TypeOK', \A q \in Node : HandedInOrder(q),
           order \in Seq(Value \cup {Nil}),
           OrderMoves, NEW n \in Node, OneHandsOn(n), NEW c \in Nat, HandsOn(n, c),
           NEW p \in Node, Stays(p), InOrder(p), Agree(log'[n], log'[p], c),
           c <= Len(log'[n]), c <= Len(log'[p])
    PROVE  /\ OrderStays /\ InOrder(p)' /\ Len(order') \in {Len(order), c}
           /\ \A q \in Node : HandedInOrder(q)'
<1>1. /\ Len(order) \in Nat /\ Len(log[p]) \in Nat /\ Len(log'[p]) \in Nat
      /\ Len(applied[n]) \in Nat /\ Len(log'[n]) \in Nat
  BY LenProperties DEF TypeOK
<1>2. /\ Len(order) <= Len(log'[p])
      /\ \A i \in 1..Len(order) : order[i] = log'[p][i].val
  BY <1>1 DEF InOrder, Stays
<1>3. /\ Len(applied'[n]) = c
      /\ \A i \in 1..c : applied'[n][i].val = log'[p][i].val
  <2>1. \A i \in 1..Len(applied[n]) : applied[n][i].val = log'[p][i].val
    BY <1>1, <1>2 DEF HandedInOrder
  <2>2. \A i \in 1..c : log'[n][i].val = log'[p][i].val
    BY <1>1 DEF Agree
  <2> QED
    BY <1>1, <2>1, <2>2 DEF HandsOn
<1>4. \A q \in Node \ {n} : applied'[q] = applied[q] /\ HandedInOrder(q)
  BY DEF OneHandsOn
<1>5. \A q \in Node \ {n} : Len(applied'[q]) \in Nat /\ Len(applied'[q]) <= Len(order)
  BY <1>4, LenProperties DEF TypeOK, HandedInOrder
<1>6. CASE c <= Len(order)
  <2>1. \A q \in Node : ~(Len(applied'[q]) > Len(order))
    BY <1>1, <1>3, <1>5, <1>6
  <2>2. order' = order
    BY <2>1, Zenon DEF OrderMoves
  <2>3. HandedInOrder(n)'
    BY <1>1, <1>2, <1>3, <1>6, <2>2 DEF HandedInOrder
  <2>4. \A q \in Node \ {n} : HandedInOrder(q)'
    BY <1>4, <2>2 DEF HandedInOrder
  <2> QED
    BY <1>1, <1>2, <2>2, <2>3, <2>4 DEF OrderStays, InOrder
<1>7. CASE c > Len(order)
  <2>1. ~NothingHandedOn
    <3> SUFFICES ASSUME NothingHandedOn PROVE FALSE
      OBVIOUS
    <3>1. CASE applied'[n] = <<>>
      <4>1. Len(<<>>) = 0
        OBVIOUS
      <4> QED
        BY <1>1, <1>3, <1>7, <3>1, <4>1
    <3>2. CASE applied'[n] = applied[n]
      BY <1>1, <1>3, <1>7, <3>2 DEF HandedInOrder
    <3> QED
      BY <3>1, <3>2 DEF NothingHandedOn
  <2>2. \A q \in Node : Len(applied'[q]) > Len(order) <=> q = n
    BY <1>1, <1>3, <1>5, <1>7
  <2>3. PICK q : q = CHOOSE r \in Node : Len(applied'[r]) > Len(order)
    OBVIOUS
  <2>4. q = n
    BY <2>2, <2>3, Zenon
  <2>5. order' = Writes(applied'[n])
    BY <2>1, <2>2, <2>3, <2>4, Zenon DEF OrderMoves
  <2>6. Len(order') = c /\ \A i \in 1..c : order'[i] = applied'[n][i].val
    <3>1. applied'[n] \in Seq(Entry)
      BY DEF TypeOK
    <3> QED
      BY <1>3, <2>5, <3>1, WritesType
  <2>7. OrderStays /\ InOrder(p)'
    <3>1. \A i \in 1..c : order'[i] = log'[p][i].val
      BY <1>3, <2>6
    <3>2. OrderStays
      BY <1>1, <1>2, <1>7, <2>6, <3>1 DEF OrderStays
    <3>3. InOrder(p)'
      BY <2>6, <3>1 DEF InOrder
    <3> QED
      BY <3>2, <3>3
  <2>8. HandedInOrder(n)'
    BY <1>3, <2>6 DEF HandedInOrder
  <2>9. ASSUME NEW r \in Node \ {n} PROVE HandedInOrder(r)'
    <3>1. /\ applied'[r] = applied[r] /\ Len(applied[r]) \in Nat /\ Len(applied[r]) <= Len(order)
          /\ \A i \in 1..Len(applied[r]) : applied[r][i].val = order[i]
      BY <1>4, <1>5 DEF HandedInOrder
    <3>2. \A i \in 1..Len(applied[r]) : order'[i] = order[i]
      BY <1>1, <2>7, <3>1 DEF OrderStays
    <3> QED
      BY <1>1, <1>7, <2>6, <3>1, <3>2 DEF HandedInOrder
  <2> QED
    BY <2>6, <2>7, <2>8, <2>9
<1> QED
  BY <1>1, <1>6, <1>7

-----------------------------------------------------------------------------
(* What is committed, in one term and in two.                              *)

\* Nodes that have not heard of the second term have committed up to B.
CommitsUpTo(new, B) ==
    /\ \A n \in Node : currentTerm[n] < new => commitIndex[n] <= B
    /\ \A m \in net : m.type = "append" /\ m.live /\ m.term < new => m.commit <= B

CommitsInOrder ==
    /\ \A n \in Node : commitIndex[n] <= Len(order)
    /\ \A m \in net : m.type = "append" /\ m.live => m.commit <= Len(order)

(* Who accepts a request has all of its leader's log then.                 *)
LEMMA AcceptTakes ==
    ASSUME Undisturbed', Good, StepFacts, NEW n \in Node, AcceptAppend(n)
    PROVE  \E m \in net : /\ m.type = "append" /\ m.live /\ m.caller \in Node
                          /\ m.term = currentTerm'[n]
                          /\ TakesOver(n, m.caller) /\ Len(log'[n]) = Len(log[m.caller])
                          /\ commitIndex'[n] = Larger(commitIndex[n], m.commit)
<1>1. PICK m \in net :
         /\ m.type = "append" /\ m.live /\ m.peer = n
         /\ commitIndex' = [commitIndex EXCEPT ![n] = Larger(commitIndex[n], m.commit)]
         /\ currentTerm' = [currentTerm EXCEPT ![n] = m.term]
         /\ net' = Answered(m, AppendAnswer(m, m.term, TRUE))
  BY DEF AcceptAppend, CommitChanges, FollowLeader, Undisturbed
<1>2. m.live /\ m.caller \in Node
  BY <1>1, MessageParts DEF Good, Known
<1>3. PICK b : b = AppendAnswer(m, m.term, TRUE)
  OBVIOUS
<1>4. b \in net' /\ Appended(b, n, m.caller) /\ b.ok /\ b.caller = m.caller /\ b.peer = n
  <2>1. b \in net'
    BY <1>1, <1>2, <1>3 DEF Answered
  <2>2. /\ b.type = "appended" /\ b.caller = m.caller /\ b.peer = n /\ b.ok
    BY <1>1, <1>3 DEF AppendAnswer, VoteAnswer
  <2> QED
    BY <2>1, <2>2 DEF Appended
<1>5. b \notin net
  BY <1>1, <1>2, <1>4, OneAtATime DEF Asks
<1>6. NewAnswer(b)
  BY <1>4, <1>5 DEF StepFacts, Comes, Appended
<1>7. /\ commitIndex'[n] = Larger(commitIndex[n], m.commit)
      /\ currentTerm'[n] = m.term
  BY <1>1 DEF Good, Known, TypeOK
<1> QED
  BY <1>1, <1>2, <1>4, <1>6, <1>7 DEF NewAnswer

(* What a leader counts as committed is in its log, and may be counted.    *)
LEMMA LeaderCommits ==
    ASSUME NEW old, NEW new, Scene(old, new), NEW n \in Node, leading[n], NEW c \in Nat,
           IsCommitIndex(matchIndex[n], c)
    PROVE  /\ c <= Len(log[n])
           /\ \A B \in Nat : currentTerm[n] = old /\ CountsUpTo(old, n, B) => c <= B
<1>1. PICK m \in Node : matchIndex[n][m] = c
  BY DEF IsCommitIndex
<1>2. TypeOK /\ NextIndexInRange
  BY DEF Scene, Good, Known, BroadcastInv, InRange, NextIndexInRange
<1>3. c <= Len(log[n])
  BY <1>1, <1>2, CommitInsideLog DEF Scene
<1>4. ASSUME NEW B \in Nat, currentTerm[n] = old, CountsUpTo(old, n, B), c # 0 PROVE c <= B
  <2>1. PICK A \in SUBSET Node : A = {p \in Node : matchIndex[n][p] >= c}
    OBVIOUS
  <2>2. Majority(A \cup {})
    <3>1. A \cup {} = A
      OBVIOUS
    <3> QED
      BY <2>1, <3>1 DEF IsCommitIndex
  <2>3. \A q \in A : Acked(n, q, c)
    BY <1>3, <2>1 DEF Acked
  <2>4. Counted(n, A, {}, c, old)
    BY <1>3, <1>4, <2>2, <2>3 DEF Counted
  <2> QED
    BY <1>4, <2>4 DEF CountsUpTo
<1> QED
  BY <1>3, <1>4

LEMMA CalcLeads ==
    ASSUME Good, NEW n \in Node, CalcCommit(n)
    PROVE  leading[n] /\ log' = log /\ currentTerm' = currentTerm
BY DEF Good, Known, LeadershipFlags, CalcCommit, diskVars

\* n hands on what the newest leader p has, too.
InLine(n, p, c) ==
    c <= Len(log'[n]) /\ c <= Len(log'[p]) /\ Agree(log'[n], log'[p], c)

LEMMA LargerBound ==
    ASSUME NEW x, NEW y, NEW k, x <= k, y <= k PROVE Larger(x, y) <= k
BY DEF Larger

LEMMA OneTermHands ==
    ASSUME NEW old, NEW new, Scene(old, new), NEW a \in Node, OneTerm(old, a),
           OneTerm(old, a)', InOrder(a), CommitsInOrder,
           order \in Seq(Value \cup {Nil}),
           NEW n \in Node, OneHandsOn(n), NEW c \in Nat, c = commitIndex'[n]
    PROVE  InLine(n, a, c)
<1>1. Len(order) \in Nat /\ Len(log[a]) \in Nat /\ Len(log'[n]) \in Nat
  BY SceneNumbers, LenProperties
<1>2. ASSUME NEW l \in Node, leading[l] PROVE l = a
  <2>1. WinsTerm(currentTerm[l], l)
    BY <1>2, Leads
  <2>2. currentTerm[l] = old
    BY <2>1 DEF OneTerm, WinsTerm
  <2> QED
    BY <2>1, <2>2, OneWinner DEF OneTerm
<1>3. c <= Len(log'[n])
  <2>1. CASE AcceptAppend(n)
    <3>1. PICK m \in net :
             /\ m.type = "append" /\ m.live /\ m.caller \in Node
             /\ TakesOver(n, m.caller) /\ Len(log'[n]) = Len(log[m.caller])
             /\ c = Larger(commitIndex[n], m.commit)
      BY <2>1, SceneTypes, AcceptTakes DEF Scene
    <3>2. m.caller = a
      BY <1>2, <3>1 DEF TakesOver
    <3>3. c <= Len(order)
      BY <3>1, LargerBound DEF CommitsInOrder
    <3> QED
      BY <1>1, <3>1, <3>2, <3>3 DEF InOrder
  <2>2. CASE CalcCommit(n) /\ IsCommitIndex(matchIndex[n], c)
    BY <2>2, CalcLeads, SceneTypes, LeaderCommits
  <2> QED
    BY <2>1, <2>2 DEF OneHandsOn
<1>4. Follows(log'[n], log'[a]) /\ Len(log'[a]) \in Nat
  BY SceneNumbers DEF OneTerm
<1>5. Agree(log'[n], log'[a], c)
  <2>1. PICK k \in Int : k = Len(log'[n])
    BY <1>1
  <2>2. Agree(log'[n], log'[a], k) /\ c <= k
    BY <1>3, <1>4, <2>1 DEF Follows
  <2> QED
    BY <2>2, AgreeLess
<1> QED
  BY <1>1, <1>3, <1>4, <1>5 DEF InLine, Follows

LEMMA TwoTermsHands ==
    ASSUME NEW old, NEW new, Scene(old, new), NEW b \in Node, NEW B \in Nat,
           TwoTerms(old, new, b, B), TwoTerms(old, new, b, B)',
           InOrder(b), CommitsInOrder, CommitsUpTo(new, B),
           order \in Seq(Value \cup {Nil}),
           NEW n \in Node, OneHandsOn(n), NEW c \in Nat, c = commitIndex'[n]
    PROVE  InLine(n, b, c)
<1>1. /\ Len(order) \in Nat /\ Len(log[b]) \in Nat /\ Len(log'[b]) \in Nat
      /\ Len(log[n]) \in Nat /\ Len(log'[n]) \in Nat
  BY SceneNumbers, LenProperties
<1>2. WinsTerm(new, b) /\ \A l \in Node : leading[l] /\ l # b => WinsTerm(old, l) /\ currentTerm[l] = old
  BY SecondStays DEF TwoTerms
<1>3. CASE n = b /\ c <= Len(log'[b])
  BY <1>3 DEF InLine, Agree
<1>4. CASE c <= B /\ B <= Len(log'[n])
  <2>1. Agree(log'[n], log'[b], B) /\ B <= Len(log'[b])
    BY TwoTermsAgree
  <2>2. Agree(log'[n], log'[b], c)
    BY <1>4, <2>1, AgreeLess
  <2> QED
    BY <1>1, <1>4, <2>1, <2>2 DEF InLine
<1>5. CASE AcceptAppend(n)
  <2>1. PICK m \in net :
           /\ m.type = "append" /\ m.live /\ m.caller \in Node /\ m.term = currentTerm'[n]
           /\ TakesOver(n, m.caller) /\ Len(log'[n]) = Len(log[m.caller])
           /\ c = Larger(commitIndex[n], m.commit)
    BY <1>5, SceneTypes, AcceptTakes DEF Scene
  <2>2. PICK l \in Node : l = m.caller
    BY <2>1
  <2>3. leading[l] /\ log'[l] = log[l] /\ currentTerm'[n] = currentTerm[l]
    BY <2>1, <2>2, SceneTypes, TakenFrom DEF TakesOver
  <2>4. CASE l = b
    <3>1. c <= Len(order)
      BY <2>1, LargerBound DEF CommitsInOrder
    <3>2. c <= Len(log'[n]) /\ c <= Len(log'[b])
      BY <1>1, <2>1, <2>2, <2>3, <2>4, <3>1 DEF InOrder
    <3>3. Agree(log[n], log[l], nextIndex[l][n] - 1)
      BY <2>1, <2>2, <2>3, <2>4 DEF TwoTerms, Successor, TakesOver
    <3>4. Agree(log'[n], log'[b], c)
      BY <2>1, <2>2, <2>4, <3>3, SceneTypes, AgreeTakesAll
    <3> QED
      BY <3>2, <3>4 DEF InLine
  <2>5. CASE l # b
    <3>1. WinsTerm(old, l) /\ currentTerm[l] = old
      BY <1>2, <2>3, <2>5
    <3>2. currentTerm[n] < new /\ m.term < new
      <4>1. /\ currentTerm'[n] = old /\ currentTerm[n] \in Nat
            /\ currentTerm'[n] >= currentTerm[n]
            /\ old \in Nat /\ new \in Nat /\ old < new
        BY <2>3, <3>1, SceneNumbers
      <4> QED
        BY <2>1, <4>1
    <3>3. c <= B
      BY <2>1, <3>2, LargerBound DEF CommitsUpTo
    <3>4. B <= Len(log[l])
      BY <2>5, <3>1 DEF TwoTerms, Predecessor
    <3> QED
      BY <1>4, <2>1, <2>2, <3>3, <3>4
  <2> QED
    BY <2>4, <2>5
<1>6. CASE CalcCommit(n) /\ IsCommitIndex(matchIndex[n], c)
  <2>1. leading[n] /\ log' = log
    BY <1>6, CalcLeads, SceneTypes
  <2>2. c <= Len(log[n]) /\ (currentTerm[n] = old /\ CountsUpTo(old, n, B) => c <= B)
    BY <1>6, <2>1, LeaderCommits
  <2>3. CASE n # b
    BY <1>2, <1>4, <2>1, <2>2, <2>3 DEF TwoTerms, Predecessor
  <2> QED
    BY <1>3, <2>1, <2>2, <2>3
<1> QED
  BY <1>5, <1>6 DEF OneHandsOn

LEMMA CommitsUpToStep ==
    ASSUME NEW old, NEW new, Scene(old, new), CommitFacts, NEW b \in Node,
           NEW B \in Nat, TwoTerms(old, new, b, B), CommitsUpTo(new, B)
    PROVE  CommitsUpTo(new, B)'
<1>1. WinsTerm(new, b) /\ \A l \in Node : leading[l] /\ l # b => WinsTerm(old, l) /\ currentTerm[l] = old
  BY SecondStays DEF TwoTerms
<1>2. /\ currentTerm'[b] >= new /\ currentTerm[b] >= new
      /\ old \in Nat /\ new \in Nat /\ old < new
  <2>1. currentTerm[b] >= new
    BY <1>1, SecondStays
  <2> QED
    BY <2>1, SceneNumbers
<1>3. ASSUME NEW n \in Node, currentTerm'[n] < new PROVE commitIndex'[n] <= B
  <2>1. currentTerm[n] < new /\ n # b
    BY <1>2, <1>3, SceneNumbers
  <2>2. CASE commitIndex'[n] \in {commitIndex[n], 0}
    BY <2>1, <2>2 DEF CommitsUpTo
  <2>3. CASE \E m \in net : /\ m.type = "append" /\ m.live /\ m.commit = commitIndex'[n]
                            /\ m.term = currentTerm'[n]
    BY <1>3, <2>3 DEF CommitsUpTo
  <2>4. CASE /\ CalcCommit(n) /\ leading[n]
             /\ IsCommitIndex(matchIndex[n], commitIndex'[n])
    <3>1. PICK c \in Nat : c = commitIndex'[n]
      BY SceneTypes DEF TypeOK
    <3>2. WinsTerm(old, n) /\ currentTerm[n] = old
      BY <1>1, <2>1, <2>4
    <3>3. CountsUpTo(old, n, B)
      BY <2>1, <3>2 DEF TwoTerms, Predecessor
    <3>4. c <= B
      BY <2>4, <3>1, <3>2, <3>3, LeaderCommits
    <3> QED
      BY <3>1, <3>4
  <2> QED
    BY <2>2, <2>3, <2>4 DEF CommitFacts, Commits
<1>4. ASSUME NEW m \in net', m.type = "append", m.live, m.term < new PROVE m.commit <= B
  <2>1. SaysCommitted(m)
    BY <1>4 DEF CommitFacts
  <2> QED
    BY <1>3, <1>4, <2>1 DEF SaysCommitted, CommitsUpTo
<1> QED
  BY <1>3, <1>4 DEF CommitsUpTo

LEMMA CommitsInOrderStep ==
    ASSUME TypeOK, TypeOK', StoreTypeOK, StoreTypeOK', CommitFacts, CommitsInOrder,
           OrderStays, \A n \in Node : HandedInOrder(n)',
           NothingHandedOn \/ \E n \in Node : OneHandsOn(n) /\ HandsOn(n, commitIndex'[n])
    PROVE  CommitsInOrder'
<1>1. Len(order) \in Nat /\ Len(order') \in Nat /\ Len(order) <= Len(order')
  BY LenProperties DEF StoreTypeOK, OrderStays
<1>2. ASSUME NEW p \in Node PROVE commitIndex'[p] <= Len(order')
  <2>1. commitIndex[p] \in Nat /\ commitIndex'[p] \in Nat /\ commitIndex[p] <= Len(order)
    BY DEF TypeOK, CommitsInOrder
  <2>2. CASE commitIndex'[p] \in {commitIndex[p], 0}
    BY <1>1, <2>1, <2>2
  <2>3. CASE HandsOn(p, commitIndex'[p])
    BY <2>3 DEF HandsOn, HandedInOrder
  <2> QED
    BY <2>2, <2>3 DEF NothingHandedOn, OneHandsOn
<1>3. ASSUME NEW m \in net', m.type = "append", m.live PROVE m.commit <= Len(order')
  <2>1. SaysCommitted(m)
    BY <1>3 DEF CommitFacts
  <2>2. CASE \E p \in Node : commitIndex'[p] = m.commit
    BY <1>2, <2>2
  <2>3. ASSUME NEW a \in net, a.type = "append", a.live, m.commit = a.commit
        PROVE  m.commit <= Len(order')
    <3>1. m \in Message
      BY DEF TypeOK
    <3>2. m.commit \in Nat
      BY <1>3, <3>1 DEF Message, Request, VoteRequest, AppendRequest, Answer
    <3>3. m.commit <= Len(order)
      BY <2>3 DEF CommitsInOrder
    <3> QED
      BY <1>1, <3>2, <3>3
  <2> QED
    BY <2>1, <2>2, <2>3 DEF SaysCommitted
<1> QED
  BY <1>2, <1>3 DEF CommitsInOrder

-----------------------------------------------------------------------------
(* What is handed on beyond B has been stored by a majority in the second  *)
(* term, and stays there.                                                  *)

\* n has the first c entries of b, and b does not ask it for them again.
Keeping(new, b, n, c) ==
    /\ currentTerm[n] >= new /\ c <= Len(log[n]) /\ Agree(log[n], log[b], c)
    /\ leading[b] => n = b \/ c <= matchIndex[b][n]

\* More than half of the nodes have all of the order, if it goes beyond B.
Replicated(new, b, B) ==
    \A c \in Nat : c = Len(order) /\ c > B =>
        \E A \in SUBSET Node : Majority(A) /\ \A n \in A : Keeping(new, b, n, c)

LEMMA KeepingStep ==
    ASSUME NEW old, NEW new, Scene(old, new), NEW b \in Node, NEW B \in Nat,
           TwoTerms(old, new, b, B), NEW n \in Node,
           NEW c \in Nat, c <= Len(log[b]), Keeping(new, b, n, c)
    PROVE  Keeping(new, b, n, c)'
<1>1. /\ WinsTerm(new, b) /\ (leading'[b] => leading[b])
      /\ old \in Nat /\ new \in Nat /\ old < new
      /\ \A l \in Node : leading[l] /\ l # b => currentTerm[l] = old
  BY SecondStays, SceneNumbers DEF TwoTerms
<1>2. /\ Len(log[n]) \in Nat /\ Len(log'[n]) \in Nat /\ Moves(n)
      /\ currentTerm[n] \in Nat /\ currentTerm'[n] >= new
      /\ Len(log[b]) \in Nat /\ Len(log'[b]) \in Nat /\ Moves(b) /\ Stays(b)
  <2>1. Stays(b)
    BY <1>1, SecondStays, StaysIs
  <2> QED
    BY <2>1, SceneNumbers DEF Keeping
<1>3. CASE n = b
  BY <1>1, <1>2, <1>3 DEF Keeping, Stays, Agree
<1>4. CASE n # b
  <2>1. ASSUME NEW l \in Node \ {b}, TakesOver(n, l) PROVE FALSE
    <3>1. leading[l] /\ currentTerm[l] >= currentTerm[n] /\ currentTerm[n] >= new
      BY <2>1 DEF TakesOver, Keeping
    <3>2. currentTerm[l] = old
      BY <1>1, <2>1, <3>1
    <3> QED
      BY <1>1, <1>2, <3>1, <3>2
  <2>2. Agree(log'[n], log'[b], c)
    <3>1. TakesOver(n, b) => Agree(log[n], log[b], nextIndex[b][n] - 1)
      BY <1>4 DEF TwoTerms, Successor, TakesOver
    <3> QED
      BY <1>1, <1>4, <2>1, <3>1, AgreesOn DEF Keeping
  <2>3. c <= Len(log'[n])
    <3>1. CASE TakesOver(n, b)
      <4>1. /\ leading[b] /\ Len(log'[n]) >= nextIndex[b][n] - 1
            /\ nextIndex[b][n] \in Nat /\ matchIndex[b][n] \in Nat
        <5>1. TypeOK
          BY SceneTypes
        <5>2. nextIndex[b][n] \in Nat /\ matchIndex[b][n] \in Nat
          BY <5>1 DEF TypeOK
        <5> QED
          BY <1>2, <3>1, <5>2 DEF TakesOver
      <4>2. c <= matchIndex[b][n] /\ matchIndex[b][n] < nextIndex[b][n]
        BY <1>4, <4>1 DEF Keeping, Scene, Lengths, Paired
      <4> QED
        BY <1>2, <4>1, <4>2
    <3> QED
      BY <1>2, <2>1, <3>1 DEF Moves, Keeps, Grows, Keeping
  <2>4. ASSUME leading'[b] PROVE c <= matchIndex'[b][n]
    <3>1. leading[b] /\ c <= matchIndex[b][n]
      BY <1>1, <1>4, <2>4 DEF Keeping
    <3>2. Counts(b, n)
      BY <1>2, <1>4, <2>4 DEF Moves
    <3>3. lock[b] # "vote"
      BY <3>1 DEF Scene, Good, LeadersWon
    <3> QED
      BY <3>1, <3>2, <3>3 DEF Counts, SameCount, FirstCount, Won, NewCount
  <2> QED
    BY <1>2, <2>2, <2>3, <2>4 DEF Keeping
<1> QED
  BY <1>3, <1>4

LEMMA CountedKeeping ==
    ASSUME NEW old, NEW new, Scene(old, new), NEW b \in Node, NEW B \in Nat,
           TwoTerms(old, new, b, B), leading[b],
           NEW c \in Nat \ {0}, IsCommitIndex(matchIndex[b], c)
    PROVE  \E A \in SUBSET Node : Majority(A) /\ \A n \in A : Keeping(new, b, n, c)
<1>1. PICK A \in SUBSET Node : A = {p \in Node : matchIndex[b][p] >= c}
  OBVIOUS
<1>2. Majority(A)
  BY <1>1 DEF IsCommitIndex
<1>3. c <= Len(log[b]) /\ currentTerm[b] = new /\ new \in Nat /\ Len(log[b]) \in Nat
  BY LeaderCommits, SecondStays, SceneNumbers DEF TwoTerms
<1>4. Firm(A, c, new)
  <2>1. Majority(A \cup {})
    <3>1. A \cup {} = A
      OBVIOUS
    <3> QED
      BY <1>2, <3>1
  <2>2. \A q \in A : Acked(b, q, c)
    BY <1>1, <1>3 DEF Acked
  <2>3. Counted(b, A, {}, c, new)
    BY <1>3, <2>1, <2>2 DEF Counted
  <2> QED
    BY <1>3, <2>3 DEF Scene, Lengths, Choosable
<1>5. ASSUME NEW n \in A, n # b PROVE Keeping(new, b, n, c)
  <2>1. matchIndex[b][n] >= c /\ matchIndex[b][n] \in Nat /\ nextIndex[b][n] \in Nat
    BY <1>1, SceneTypes DEF TypeOK
  <2>2. currentTerm[n] >= new /\ currentTerm[n] \in Nat
    BY <1>4, SceneNumbers DEF Firm
  <2>3. c <= Len(log[n])
    BY <1>4, <2>2, SceneNumbers DEF Firm
  <2>4. matchIndex[b][n] < nextIndex[b][n]
    BY <1>5 DEF Scene, Lengths, Paired
  <2>5. Agree(log[n], log[b], nextIndex[b][n] - 1)
    BY <1>5 DEF TwoTerms, Successor
  <2>6. Agree(log[n], log[b], c)
    BY <2>1, <2>4, <2>5, AgreeLess
  <2> QED
    BY <2>1, <2>2, <2>3, <2>6 DEF Keeping
<1>6. Keeping(new, b, b, c)
  BY <1>3 DEF Keeping, Agree
<1> QED
  BY <1>2, <1>5, <1>6

LEMMA ReplicatedStep ==
    ASSUME NEW old, NEW new, Scene(old, new), NEW b \in Node, NEW B \in Nat,
           TwoTerms(old, new, b, B), Replicated(new, b, B),
           CommitsInOrder, CommitsUpTo(new, B), InOrder(b),
           Len(order) \in Nat, Len(order) <= Len(order'),
           \/ Len(order') = Len(order)
           \/ \E n \in Node : OneHandsOn(n) /\ Len(order') = commitIndex'[n]
    PROVE  Replicated(new, b, B)'
<1> SUFFICES ASSUME NEW c \in Nat, c = Len(order'), c > B
             PROVE  \E A \in SUBSET Node : Majority(A) /\ \A n \in A : Keeping(new, b, n, c)'
  BY DEF Replicated, Majority
<1>1. ASSUME NEW A \in SUBSET Node, Majority(A), c <= Len(log[b]),
             \A n \in A : Keeping(new, b, n, c)
      PROVE  Majority(A) /\ \A n \in A : Keeping(new, b, n, c)'
  BY <1>1, KeepingStep
<1>2. CASE c = Len(order)
  BY <1>1, <1>2 DEF Replicated, InOrder
<1>3. CASE c > Len(order)
  <2>1. PICK n \in Node : OneHandsOn(n) /\ c = commitIndex'[n]
    BY <1>3
  <2>2. ~AcceptAppend(n)
    <3> SUFFICES ASSUME AcceptAppend(n) PROVE FALSE
      OBVIOUS
    <3>1. \E m \in net : m.type = "append" /\ m.live /\ c = Larger(commitIndex[n], m.commit)
      BY <2>1, SceneTypes, AcceptTakes DEF Scene
    <3>2. c <= Len(order)
      BY <3>1, LargerBound DEF CommitsInOrder
    <3> QED
      BY <1>3, <3>2
  <2>3. CalcCommit(n) /\ IsCommitIndex(matchIndex[n], c)
    BY <2>1, <2>2 DEF OneHandsOn
  <2>4. leading[n]
    BY <2>3, SceneTypes, CalcLeads
  <2>5. c <= Len(log[n]) /\ (currentTerm[n] = old /\ CountsUpTo(old, n, B) => c <= B)
    BY <2>3, <2>4, LeaderCommits
  <2>6. n = b
    <3> SUFFICES ASSUME n # b PROVE FALSE
      OBVIOUS
    <3>1. WinsTerm(old, n) /\ currentTerm[n] = old
      BY <2>4, SecondStays DEF TwoTerms
    <3>2. CountsUpTo(old, n, B)
      BY <3>1 DEF TwoTerms, Predecessor
    <3> QED
      BY <2>5, <3>1, <3>2
  <2>7. PICK A \in SUBSET Node : Majority(A) /\ \A p \in A : Keeping(new, b, p, c)
    BY <2>3, <2>4, <2>6, CountedKeeping
  <2> QED
    BY <1>1, <2>5, <2>6, <2>7
<1> QED
  BY <1>2, <1>3

-----------------------------------------------------------------------------
(* The invariant.                                                          *)

OrderSettled == \A c \in Nat \ {0} : c = Len(order) => \E t \in Nat : Settled(c, t)

\* Commits and queues are within the order, and its end is firm.
Ordered ==
    CommitsInOrder /\ OrderSettled /\ \A n \in Node : HandedInOrder(n)

\* b leads, or has led, the second term, which it won with a log of length B.
Second(old, new, b, B) ==
    /\ TwoTerms(old, new, b, B) /\ InOrder(b)
    /\ CommitsUpTo(new, B) /\ Apart(b, B) /\ Replicated(new, b, B)

Phase(old, new) ==
    \/ Nobody /\ Len(order) = 0
    \/ \E a \in Node : OneTerm(old, a) /\ InOrder(a)
    \/ \E b \in Node : \E B \in Nat : Second(old, new, b, B)

Places == TakenUpOnce /\ OnePlace /\ SentBare

OneOrder(old, new) == Writers /\ Written /\ Places /\ Ordered /\ Phase(old, new)

\* One step of the store, with what is known of its core.
StoreScene(old, new) ==
    /\ Scene(old, new) /\ CommitFacts /\ AppliedGapless /\ StoreTypeOK /\ StoreTypeOK'
    /\ Places /\ EntriesMove /\ OrderMoves

LEMMA OrderLength ==
    ASSUME NEW old, NEW new, StoreScene(old, new)
    PROVE  /\ Len(order) \in Nat /\ Len(order') \in Nat
           /\ order \in Seq(Value \cup {Nil}) /\ order' \in Seq(Value \cup {Nil})
BY LenProperties DEF StoreScene, StoreTypeOK

LEMMA OrderSettledStep ==
    ASSUME NEW old, NEW new, StoreScene(old, new), OrderSettled,
           Len(order') = Len(order) \/ \E n \in Node : Len(order') = commitIndex'[n]
    PROVE  OrderSettled'
<1> SUFFICES ASSUME NEW c \in Nat \ {0}, c = Len(order')
             PROVE  \E t \in Nat : Settled(c, t)'
  BY DEF OrderSettled
<1>1. CASE c = Len(order)
  <2>1. PICK t \in Nat : Settled(c, t)
    BY <1>1 DEF OrderSettled
  <2>2. Paired /\ ElectionSafety'
    BY DEF StoreScene, Scene, Lengths
  <2>3. Settled(c, t)'
    BY <2>1, <2>2, SceneTypes, SettledStep DEF StoreScene
  <2> QED
    BY <2>3
<1>2. ASSUME NEW n \in Node, c = commitIndex'[n] PROVE \E t \in Nat : Settled(c, t)'
  <2>1. HasCommit(c)'
    BY <1>2 DEF HasCommit
  <2>2. CommitsSettled'
    BY DEF StoreScene, Scene, Lengths
  <2> QED
    BY <2>1, <2>2 DEF CommitsSettled
<1> QED
  BY <1>1, <1>2

LEMMA OrderedRests ==
    ASSUME NEW old, NEW new, StoreScene(old, new), Ordered, NothingHandedOn
    PROVE  order' = order /\ OrderStays /\ Ordered'
<1>1. order' = order /\ \A n \in Node : HandedInOrder(n)'
  BY OrderLength, OrderRests DEF StoreScene, Ordered
<1>2. OrderStays
  BY <1>1, OrderLength DEF OrderStays
<1>3. CommitsInOrder'
  BY <1>1, <1>2, SceneTypes, CommitsInOrderStep DEF StoreScene, Ordered
<1>4. OrderSettled'
  BY <1>1, OrderSettledStep DEF Ordered
<1> QED
  BY <1>1, <1>2, <1>3, <1>4 DEF Ordered

LEMMA OrderedTakes ==
    ASSUME NEW old, NEW new, StoreScene(old, new), Ordered, NEW p \in Node,
           Stays(p), InOrder(p),
           NEW n \in Node, OneHandsOn(n), InLine(n, p, commitIndex'[n])
    PROVE  /\ OrderStays /\ HandedWell /\ InOrder(p)' /\ Ordered'
           /\ Len(order') \in {Len(order), commitIndex'[n]}
<1>1. PICK c \in Nat : c = commitIndex'[n]
  BY DEF OneHandsOn
<1>2. TypeOK /\ TypeOK' /\ AppliedGapless
  BY SceneTypes DEF StoreScene
<1>3. HandsOn(n, c)
  BY <1>1, <1>2, CommitHandsOn DEF OneHandsOn, InLine
<1>4. /\ OrderStays /\ InOrder(p)' /\ Len(order') \in {Len(order), c}
      /\ \A q \in Node : HandedInOrder(q)'
  BY <1>1, <1>2, <1>3, OrderLength, OrderTakes DEF StoreScene, Ordered, InLine
<1>5. CommitsInOrder'
  BY <1>1, <1>2, <1>3, <1>4, CommitsInOrderStep DEF StoreScene, Ordered
<1>6. OrderSettled'
  BY <1>1, <1>4, OrderSettledStep DEF Ordered
<1>7. HandedWell
  BY <1>1, <1>3 DEF HandedWell, InLine
<1> QED
  BY <1>1, <1>4, <1>5, <1>6, <1>7 DEF Ordered

LEMMA InOrderRests ==
    ASSUME NEW old, NEW new, Scene(old, new), NEW p \in Node, Stays(p), InOrder(p),
           order' = order, Len(order) \in Nat
    PROVE  InOrder(p)'
BY SceneNumbers DEF InOrder, Stays

LEMMA OrderedStep ==
    ASSUME NEW old, NEW new, StoreScene(old, new), Ordered, NEW p \in Node,
           Stays(p), InOrder(p),
           \/ NothingHandedOn
           \/ \E n \in Node : OneHandsOn(n) /\ InLine(n, p, commitIndex'[n])
    PROVE  /\ OrderStays /\ HandedWell /\ InOrder(p)' /\ Ordered'
           /\ \/ Len(order') = Len(order)
              \/ \E n \in Node : OneHandsOn(n) /\ Len(order') = commitIndex'[n]
<1>1. CASE NothingHandedOn
  <2>1. order' = order /\ OrderStays /\ Ordered'
    BY <1>1, OrderedRests
  <2>2. InOrder(p)'
    BY <2>1, OrderLength, InOrderRests DEF StoreScene
  <2> QED
    BY <1>1, <2>1, <2>2 DEF HandedWell
<1> QED
  BY <1>1, OrderedTakes

LEMMA TwoTermsPhase ==
    ASSUME NEW old, NEW new, StoreScene(old, new), Ordered,
           wins' = wins \/ \E n \in Node : WinElection(n),
           NothingHandedOn \/ \E n \in Node : OneHandsOn(n),
           NEW b \in Node, NEW B \in Nat, Second(old, new, b, B)
    PROVE  OrderStays /\ HandedWell /\ Ordered' /\ Phase(old, new)'
<1> USE DEF Second
<1>1. TwoTerms(old, new, b, B)' /\ CommitsUpTo(new, B)'
  BY TwoTermsStep, CommitsUpToStep DEF StoreScene
<1>2. Stays(b) /\ Apart(b, B)'
  BY SecondStays, StaysIs, ApartStep DEF StoreScene, Places, TwoTerms
<1>3. ASSUME NEW n \in Node, OneHandsOn(n) PROVE InLine(n, b, commitIndex'[n])
  <2>1. PICK c \in Nat : c = commitIndex'[n]
    BY <1>3 DEF OneHandsOn
  <2> QED
    BY <1>1, <1>3, <2>1, OrderLength, TwoTermsHands DEF StoreScene, Ordered
<1>4. /\ OrderStays /\ HandedWell /\ InOrder(b)' /\ Ordered'
      /\ \/ Len(order') = Len(order)
         \/ \E n \in Node : OneHandsOn(n) /\ Len(order') = commitIndex'[n]
  BY <1>2, <1>3, OrderedStep
<1>5. Replicated(new, b, B)'
  BY <1>4, OrderLength, ReplicatedStep DEF StoreScene, Ordered, OrderStays
<1> QED
  BY <1>1, <1>2, <1>4, <1>5 DEF Phase

LEMMA OneTermPhase ==
    ASSUME NEW old, NEW new, StoreScene(old, new), Ordered, wins' = wins,
           NothingHandedOn \/ \E n \in Node : OneHandsOn(n),
           NEW a \in Node, OneTerm(old, a), InOrder(a)
    PROVE  OrderStays /\ HandedWell /\ Ordered' /\ Phase(old, new)'
<1>1. OneTerm(old, a)'
  BY OneTermStep DEF StoreScene
<1>2. Stays(a)
  BY FirstStays, StaysIs DEF StoreScene
<1>3. ASSUME NEW n \in Node, OneHandsOn(n) PROVE InLine(n, a, commitIndex'[n])
  <2>1. PICK c \in Nat : c = commitIndex'[n]
    BY <1>3 DEF OneHandsOn
  <2> QED
    BY <1>1, <1>3, <2>1, OrderLength, OneTermHands DEF StoreScene, Ordered
<1>4. OrderStays /\ HandedWell /\ InOrder(a)' /\ Ordered'
  BY <1>2, <1>3, OrderedStep
<1> QED
  BY <1>1, <1>4 DEF Phase

LEMMA NobodyPhase ==
    ASSUME NEW old, NEW new, StoreScene(old, new), Ordered, wins' = wins,
           NothingHandedOn \/ \E n \in Node : OneHandsOn(n),
           Nobody, Len(order) = 0
    PROVE  OrderStays /\ HandedWell /\ Ordered' /\ Phase(old, new)'
<1>1. Scene(old, new)
  BY DEF StoreScene
<1>2. ASSUME NEW l \in Node, leading[l] PROVE FALSE
  BY <1>1, <1>2, Leads DEF Nobody, WinsTerm
<1>3. ASSUME NEW n \in Node, OneHandsOn(n) PROVE FALSE
  <2>1. CASE AcceptAppend(n)
    <3>1. \E l \in Node : TakesOver(n, l)
      BY <1>1, <2>1, SceneTypes, AcceptTakes DEF Scene
    <3> QED
      BY <1>2, <3>1 DEF TakesOver
  <2>2. CASE CalcCommit(n)
    BY <1>1, <1>2, <2>2, SceneTypes, CalcLeads
  <2> QED
    BY <1>3, <2>1, <2>2 DEF OneHandsOn
<1>4. order' = order /\ OrderStays /\ HandedWell /\ Ordered'
  BY <1>3, OrderedRests DEF HandedWell
<1>5. Nobody'
  BY <1>1, NobodyStep
<1> QED
  BY <1>4, <1>5 DEF Phase

(* An election hands nothing on; its winner has all of the order.          *)
LEMMA WinnerPhase ==
    ASSUME NEW old, NEW new, StoreScene(old, new), Ordered, Phase(old, new),
           NEW n \in Node, WinElection(n)
    PROVE  OrderStays /\ HandedWell /\ Ordered' /\ Phase(old, new)'
<1>1. Scene(old, new)
  BY DEF StoreScene
<1>2. NothingHandedOn
  BY DEF WinElection, commitVars, NothingHandedOn
<1>3. order' = order /\ OrderStays /\ HandedWell /\ Ordered' /\ Len(order) \in Nat
  BY <1>2, OrderedRests, OrderLength DEF HandedWell
<1>4. CommitsInOrder'
  BY <1>3 DEF Ordered
<1>5. CASE Nobody /\ Len(order) = 0
  <2>1. InOrder(n)'
    BY <1>1, <1>3, <1>5, SceneNumbers DEF InOrder
  <2>2. CommitsUpTo(new, 0)'
    BY <1>3, <1>4, <1>5 DEF CommitsUpTo, CommitsInOrder
  <2>3. OneTerm(old, n)' \/ TwoTerms(old, new, n, 0)'
    BY <1>1, <1>5, NobodyWins
  <2>4. Apart(n, 0)'
    BY <1>1, <1>5, NewLeader DEF Nobody, Apart
  <2>5. Replicated(new, n, 0)'
    BY <1>3, <1>5 DEF Replicated
  <2> QED
    BY <1>3, <2>1, <2>2, <2>3, <2>4, <2>5 DEF Phase, Second
<1>6. ASSUME NEW a \in Node, OneTerm(old, a), InOrder(a) PROVE Phase(old, new)'
  <2>1. PICK B \in Nat : B = Len(log[n])
    BY <1>1, SceneNumbers
  <2>2. TwoTerms(old, new, n, B)'
    BY <1>1, <1>6, <2>1, SecondWins
  <2>3. leading'[n] /\ UNCHANGED log
    BY <1>1, NewLeader
  <2>4. Len(order') <= B
    <3>1. CASE Len(order') = 0
      BY <3>1
    <3>2. ASSUME NEW c \in Nat \ {0}, c = Len(order') PROVE c <= B
      <4>1. PICK t \in Nat : Settled(c, t)'
        BY <1>3, <3>2 DEF Ordered, OrderSettled
      <4>2. t <= new
        <5>1. t \in {old, new}
          BY <1>1, <4>1 DEF Settled, Scene, OnlyWon
        <5> QED
          BY <1>1, <5>1, SceneNumbers
      <4>3. currentTerm'[n] >= new
        <5>1. <<new, n>> \in wins'
          BY <2>2 DEF TwoTerms, WinsTerm
        <5>2. new <= currentTerm'[n]
          BY <1>1, <5>1 DEF Scene, Good, LeadersWon
        <5> QED
          BY <1>1, <5>2, SceneNumbers
      <4>4. currentTerm'[n] >= t
        BY <1>1, <4>2, <4>3, SceneNumbers
      <4>5. c <= Len(log'[n])
        BY <2>3, <4>1, <4>4 DEF Settled, Firm
      <4> QED
        BY <2>1, <2>3, <4>5
    <3> QED
      BY <1>3, <3>1, <3>2
  <2>5. InOrder(n)'
    <3>1. Follows(log[n], log[a]) /\ Len(log[a]) \in Nat
      BY <1>1, <1>6, SceneNumbers DEF OneTerm
    <3>2. \A i \in 1..Len(order) : order[i] = log[n][i].val
      BY <1>3, <1>6, <2>1, <2>4, <3>1 DEF InOrder, Follows, Agree
    <3> QED
      BY <1>3, <2>1, <2>3, <2>4, <3>2 DEF InOrder
  <2>6. CommitsUpTo(new, B)'
    <3>1. /\ \A p \in Node : commitIndex'[p] \in Nat
          /\ \A m \in net' : m.type = "append" /\ m.live => m.commit \in Nat
      BY <1>1, SceneTypes DEF TypeOK, Message, Request, VoteRequest, AppendRequest, Answer
    <3>2. \A p \in Node : commitIndex'[p] <= B
      BY <1>3, <1>4, <2>4, <3>1 DEF CommitsInOrder
    <3>3. \A m \in net' : m.type = "append" /\ m.live => m.commit <= B
      BY <1>3, <1>4, <2>4, <3>1 DEF CommitsInOrder
    <3> QED
      BY <3>2, <3>3 DEF CommitsUpTo
  <2>7. Apart(n, B)'
    BY <1>1, <2>1, <2>3, SceneNumbers DEF Apart
  <2>8. Replicated(new, n, B)'
    BY <1>3, <2>4 DEF Replicated
  <2> QED
    BY <2>2, <2>5, <2>6, <2>7, <2>8 DEF Phase, Second
<1>7. ASSUME NEW b \in Node, NEW B \in Nat, Second(old, new, b, B)
      PROVE  Phase(old, new)'
  BY <1>2, <1>7, TwoTermsPhase
<1> QED
  BY <1>3, <1>5, <1>6, <1>7 DEF Phase

LEMMA PhaseNext ==
    ASSUME NEW old, NEW new, StoreScene(old, new), [Next]_vars, Ordered, Phase(old, new)
    PROVE  OrderStays /\ HandedWell /\ Ordered' /\ Phase(old, new)'
<1>1. NothingHandedOn \/ \E n \in Node : OneHandsOn(n)
  BY SceneTypes, HandedCome DEF StoreScene
<1>2. CASE wins' = wins
  BY <1>1, <1>2, NobodyPhase, OneTermPhase, TwoTermsPhase DEF Phase
<1> QED
  BY <1>2, WinsCome, WinnerPhase

LEMMA OneOrderInit ==
    ASSUME NEW old, NEW new, StoreInit PROVE OneOrder(old, new)
<1>1. Init /\ order = <<>> /\ Len(order) = 0
  BY DEF StoreInit
<1>2. Writers
  BY <1>1 DEF Init, Writers
<1>3. Written /\ Places
  <2>1. Written /\ SentBare
    BY <1>1 DEF Init, Written, SentBare
  <2>2. TakenUpOnce /\ OnePlace
    BY <1>1 DEF Init, TakenUpOnce, Nowhere, OnePlace
  <2> QED
    BY <2>1, <2>2 DEF Places
<1>4. CommitsInOrder /\ OrderSettled
  BY <1>1 DEF Init, CommitsInOrder, OrderSettled
<1>5. \A n \in Node : HandedInOrder(n)
  BY <1>1 DEF Init, HandedInOrder
<1>6. Phase(old, new)
  BY <1>1 DEF Init, Phase, Nobody
<1> QED
  BY <1>2, <1>3, <1>4, <1>5, <1>6 DEF OneOrder, Ordered

\* Nobody has won another term, and nothing has come late.
CalmIn(old, new) == Undisturbed /\ old < new /\ OnlyWon(old, new)

LEMMA WinsKept == ASSUME [Next]_vars PROVE wins \subseteq wins'
<1>1. ASSUME NEW n \in Node, WinElection(n) PROVE wins \subseteq wins'
  BY <1>1 DEF WinElection
<1> QED
  BY <1>1, WinsCome

LEMMA CalmBefore ==
    ASSUME NEW old, NEW new, [Next]_vars, CalmIn(old, new)' PROVE CalmIn(old, new)
BY WinsKept, StaysUndisturbed DEF CalmIn, OnlyWon

\* One step of the store, with what is known of the order before and after it.
OrderScene(old, new) ==
    /\ StoreScene(old, new) /\ OneOrder(old, new) /\ OneOrder(old, new)' /\ OrderStays /\ HandedWell
    /\ [StoreNext]_storeVars /\ [Next]_vars

LEMMA OneOrderNext ==
    ASSUME Cardinality(Node) > 1, NEW old \in Nat, NEW new \in Nat, CalmIn(old, new)',
           Known, Known', ElectionSafety, ElectionSafety', AppliedGapless,
           Lengths, Lengths', StoreTypeOK, StoreTypeOK', OneOrder(old, new),
           [StoreNext]_storeVars
    PROVE  OrderScene(old, new)
<1>1. [Next]_vars
  BY StoreStep
<1>2. Undisturbed' /\ Good /\ Good' /\ TypeOK /\ TypeOK' /\ LeadersWon
  BY DEF CalmIn, Good, Known, Lengths
<1>3. StepFacts /\ CommitFacts
  BY <1>1, <1>2, StepFactsHold, CommitFactsHold
<1>4. /\ Writers /\ Written /\ Ordered /\ Phase(old, new)
      /\ Places /\ TakenUpOnce /\ OnePlace /\ SentBare
  BY DEF OneOrder, Places
<1>5. old < new /\ OnlyWon(old, new) /\ OnlyWon(old, new)'
  BY <1>1, CalmBefore DEF CalmIn
<1>6. Writers' /\ Written' /\ Places'
  BY <1>1, <1>2, <1>3, <1>4, WinsKept, WritersNext, WrittenNext, TakenUpNext, SentBareNext
  DEF Places
<1>7. Scene(old, new)
  BY <1>2, <1>3, <1>4, <1>5 DEF Scene
<1>8. StoreScene(old, new)
  BY <1>1, <1>2, <1>3, <1>4, <1>7, StoreOrders, EntriesMoveNext DEF StoreScene
<1>9. OrderStays /\ HandedWell /\ Ordered' /\ Phase(old, new)'
  BY <1>1, <1>4, <1>8, PhaseNext
<1> QED
  BY <1>1, <1>6, <1>8, <1>9 DEF OneOrder, OrderScene

-----------------------------------------------------------------------------
(* The maps.                                                               *)

\* The map of every node is that after the writes that it has taken.
MapsFollow ==
    DOMAIN db = Node /\ \A n \in Node : db[n] = Maps(order)[taken[n]]

LEMMA MapsFollowInit == StoreInit => MapsFollow
<1> SUFFICES ASSUME StoreInit PROVE MapsFollow
  OBVIOUS
<1>1. Len(order) \in Nat /\ taken = [n \in Node |-> 0] /\ db = [n \in Node |-> EmptyDb]
  BY DEF StoreInit
<1>2. Maps(order)[0] = EmptyDb
  BY <1>1, MapOfNone, MapAfterIs
<1> QED
  BY <1>1, <1>2 DEF MapsFollow

LEMMA OrderWritten ==
    ASSUME NEW old, NEW new, OneOrder(old, new), TypeOK, NEW i \in 1..Len(order)
    PROVE  order[i] \in Value
<1>1. ASSUME NEW p \in Node, InOrder(p) PROVE order[i] \in Value
  <2>1. order[i] = log[p][i].val /\ Len(log[p]) \in Nat /\ Len(order) <= Len(log[p])
    BY <1>1, LogLength DEF InOrder
  <2> QED
    BY <2>1 DEF OneOrder, Written
<1> QED
  BY <1>1 DEF OneOrder, Phase, Second

LEMMA MapsFollowNext ==
    ASSUME NEW old, NEW new, TypeOK, StoreTypeOK, StoreTypeOK', OneOrder(old, new),
           OrderStays, MapsFollow,
           [StoreNext]_storeVars
    PROVE  MapsFollow'
<1>1. Len(order) \in Nat /\ Len(order') \in Nat
  BY LenProperties DEF StoreTypeOK
<1>2. \A i \in 0..Len(order) : Maps(order')[i] = Maps(order)[i]
  BY <1>1, MapStays, MapAfterIs DEF OrderStays
<1>3. \A n \in Node : taken[n] \in 0..Len(order)
  <2> SUFFICES ASSUME NEW n \in Node PROVE taken[n] \in 0..Len(order)
    OBVIOUS
  <2>1. taken[n] \in Nat /\ taken[n] <= Len(applied[n]) /\ Len(applied[n]) <= Len(order)
    BY DEF StoreTypeOK, OneOrder, Ordered, HandedInOrder
  <2>2. Len(applied[n]) \in Nat
    BY LenProperties DEF TypeOK
  <2> QED
    BY <1>1, <2>1, <2>2
<1>4. CASE UNCHANGED dbVars
  <2>1. db' = db /\ taken' = taken
    BY <1>4 DEF dbVars
  <2> QED
    BY <1>2, <1>3, <2>1 DEF MapsFollow
<1>5. ASSUME NEW n \in Node, Consume(n) PROVE MapsFollow'
  <2>1. PICK j \in Nat : j = taken[n]
    BY DEF StoreTypeOK
  <2>2. j < Len(applied[n]) /\ Len(applied[n]) \in Nat /\ Len(applied[n]) <= Len(order)
    BY <1>5, <2>1, LenProperties DEF Consume, TypeOK, OneOrder, Ordered, HandedInOrder
  <2>3. j + 1 \in 1..Len(order) /\ j \in 0..(Len(order) - 1) /\ j + 1 \in 1..Len(applied[n])
    BY <1>1, <2>2
  <2>4. applied[n][j + 1].val = order[j + 1] /\ order[j + 1] \in Value
    BY <2>3, OrderWritten DEF OneOrder, Ordered, HandedInOrder
  <2>5. order[j + 1] # Nil
    BY <2>4, ValueAssumption
  <2>6. /\ db' = [db EXCEPT ![n] = CommitEntry(db[n], Op[order[j + 1]])]
        /\ taken' = [taken EXCEPT ![n] = j + 1]
    BY <1>5, <2>1, <2>4, <2>5 DEF Consume
  <2>7. Maps(order)[j + 1] = CommitEntry(Maps(order)[j], Op[order[j + 1]])
    BY <1>1, <2>3, MapOfNext, MapAfterIs
  <2>8. db'[n] = Maps(order)[j + 1] /\ taken'[n] = j + 1
    BY <2>1, <2>6, <2>7 DEF MapsFollow, StoreTypeOK
  <2>9. \A p \in Node \ {n} : db'[p] = db[p] /\ taken'[p] = taken[p]
    BY <2>6 DEF MapsFollow, StoreTypeOK
  <2>10. DOMAIN db' = Node
    BY <2>6 DEF MapsFollow
  <2>11. j + 1 \in 0..Len(order)
    BY <2>3
  <2> QED
    BY <1>2, <1>3, <2>8, <2>9, <2>10, <2>11 DEF MapsFollow
<1>6. ASSUME NEW n \in Node, Restart(n) PROVE MapsFollow'
  <2>1. taken' = [taken EXCEPT ![n] = 0] /\ db' = [db EXCEPT ![n] = EmptyDb]
    BY <1>6 DEF Restart, NewDb
  <2>2. db'[n] = EmptyDb /\ taken'[n] = 0 /\ DOMAIN db' = Node
    BY <2>1 DEF MapsFollow, StoreTypeOK
  <2>3. \A p \in Node \ {n} : db'[p] = db[p] /\ taken'[p] = taken[p]
    BY <2>1 DEF MapsFollow, StoreTypeOK
  <2>4. Maps(order)[0] = EmptyDb /\ 0 \in 0..Len(order)
    BY <1>1, MapOfNone, MapAfterIs
  <2> QED
    BY <1>2, <1>3, <2>2, <2>3, <2>4 DEF MapsFollow
<1>7. CASE UNCHANGED storeVars
  BY <1>4, <1>7 DEF storeVars
<1>8. ASSUME NEW n \in Node,
             \/ Core(Election(n)) \/ Core(Replication(n))
             \/ \E w \in Value :
                  PassCheck(n, w) \/ FailCheck(n, w) \/ Redirect(n, w) \/ Submit(n, w)
             \/ \E r \in Read : RedirectRead(n, r) \/ PassRead(n, r) \/ Get(n, r)
      PROVE  UNCHANGED dbVars
  BY <1>8 DEF Core, PassCheck, FailCheck, Redirect, Submit, RedirectRead, PassRead, Get
<1> QED
  BY <1>4, <1>5, <1>6, <1>7, <1>8 DEF StoreNext

(* While it is Calm, the elections are those of some two terms.            *)
LEMMA SomeTwoTerms ==
    ASSUME NEW W, \A w \in W : w[1] \in Nat,
           \A w1, w2, w3 \in W : w1 = w2 \/ w1 = w3 \/ w2 = w3
    PROVE  \E old, new \in Nat : old < new /\ \A w \in W : w[1] \in {old, new}
<1>1. CASE W = {}
  BY <1>1, 0 < 1
<1>2. ASSUME NEW u \in W, \A w \in W : w[1] = u[1]
      PROVE  \E old, new \in Nat : old < new /\ \A w \in W : w[1] \in {old, new}
  <2>1. PICK t \in Nat : t = u[1]
    OBVIOUS
  <2>2. t < t + 1 /\ t + 1 \in Nat /\ \A w \in W : w[1] \in {t, t + 1}
    BY <1>2, <2>1
  <2> QED
    BY <2>2
<1>3. ASSUME NEW u \in W, NEW v \in W, u[1] < v[1]
      PROVE  \E old, new \in Nat : old < new /\ \A w \in W : w[1] \in {old, new}
  <2>1. u # v
    BY <1>3
  <2>2. \A w \in W : w = u \/ w = v
    BY <2>1
  <2>3. PICK old, new \in Nat : old = u[1] /\ new = v[1]
    OBVIOUS
  <2>4. old < new /\ \A w \in W : w[1] \in {old, new}
    BY <1>3, <2>2, <2>3
  <2> QED
    BY <2>4
<1>4. \A u, v \in W : u[1] = v[1] \/ u[1] < v[1] \/ v[1] < u[1]
  OBVIOUS
<1> QED
  BY <1>1, <1>2, <1>3, <1>4

LEMMA CalmTerms ==
    ASSUME Calm, TypeOK PROVE \E old, new \in Nat : CalmIn(old, new)
<1>1. \A w \in wins : w[1] \in Nat
  BY DEF TypeOK
<1>2. PICK old, new \in Nat : old < new /\ \A w \in wins : w[1] \in {old, new}
  BY <1>1, SomeTwoTerms DEF Calm, AtMostTwoLeaders
<1> QED
  BY <1>2 DEF Calm, CalmIn, OnlyWon

LEMMA CalmTermsNext ==
    ASSUME Calm', TypeOK' PROVE \E old, new \in Nat : CalmIn(old, new)'
<1>1. \A w \in wins' : w[1] \in Nat
  BY DEF TypeOK
<1>2. PICK old, new \in Nat : old < new /\ \A w \in wins' : w[1] \in {old, new}
  BY <1>1, SomeTwoTerms DEF Calm, AtMostTwoLeaders
<1> QED
  BY <1>2 DEF Calm, CalmIn, OnlyWon

\* Whatever the two terms are.
Followed ==
    \A old, new \in Nat : CalmIn(old, new) => OneOrder(old, new) /\ MapsFollow

LEMMA FollowedNext ==
    ASSUME Cardinality(Node) > 1, Known, Known', ElectionSafety, ElectionSafety',
           AppliedGapless, Undisturbed => Lengths, (Undisturbed => Lengths)',
           StoreTypeOK, StoreTypeOK', Followed, [StoreNext]_storeVars
    PROVE  Followed'
<1> SUFFICES ASSUME NEW old \in Nat, NEW new \in Nat, CalmIn(old, new)'
             PROVE  OneOrder(old, new)' /\ MapsFollow'
  BY DEF Followed
<1>1. CalmIn(old, new)
  BY StoreStep, CalmBefore
<1>2. OneOrder(old, new) /\ MapsFollow /\ Lengths /\ Lengths' /\ TypeOK
  BY <1>1 DEF Followed, CalmIn, Known
<1>3. OrderScene(old, new)
  BY <1>2, OneOrderNext
<1>4. OneOrder(old, new)' /\ OrderStays
  BY <1>3 DEF OrderScene
<1> QED
  BY <1>2, <1>4, MapsFollowNext

LEMMA FollowedHolds ==
    ASSUME Cardinality(Node) > 1
    PROVE  StoreSpec => [](TypeOK /\ StoreTypeOK /\ Followed)
<1>1. StoreInit => Followed
  BY OneOrderInit, MapsFollowInit DEF Followed
<1>2. /\ Known /\ Known' /\ ElectionSafety /\ ElectionSafety'
      /\ AppliedGapless /\ (Undisturbed => Lengths) /\ (Undisturbed => Lengths)'
      /\ StoreTypeOK /\ StoreTypeOK' /\ Followed /\ [StoreNext]_storeVars
      => Followed'
  BY FollowedNext
<1>3. Known => TypeOK
  BY DEF Known
<1> QED
  BY <1>1, <1>2, <1>3, StoreIsRaft, StoreTypeCorrect,
     LengthsHold, OneLeaderPerTerm, EveryIndexOnce, PTL DEF StoreSpec

(* As long as it is Calm, that is until a third election is won or an      *)
(* AppendEntries is acted on whose caller has given up on it, the maps of  *)
(* all nodes are those of one order of writes, across elections,           *)
(* truncations, commits of a deposed leader and restarts (db.go:18, 51).   *)
THEOREM MapsFollowOneOrder ==
    ASSUME Cardinality(Node) > 1
    PROVE  StoreSpec => []ReplicasAgree
<1>1. TypeOK /\ StoreTypeOK /\ Followed => ReplicasAgree
  <2> SUFFICES ASSUME TypeOK, StoreTypeOK, Followed, Calm, NEW n \in Node
               PROVE  /\ Writes(applied[n]) = SubSeq(order, 1, Len(applied[n]))
                      /\ db[n] = Abstract!MapAfter(taken[n])
    BY DEF ReplicasAgree
  <2>1. PICK old, new \in Nat : OneOrder(old, new) /\ MapsFollow
    BY CalmTerms DEF Followed
  <2>2. /\ applied[n] \in Seq(Entry) /\ Len(applied[n]) \in Nat
        /\ order \in Seq(Value \cup {Nil}) /\ Len(order) \in Nat
    BY LenProperties DEF TypeOK, StoreTypeOK
  <2>3. PICK k \in Nat : k = Len(applied[n])
    BY <2>2
  <2>4. k <= Len(order) /\ \A i \in 1..k : applied[n][i].val = order[i]
    BY <2>1, <2>3 DEF OneOrder, Ordered, HandedInOrder
  <2>5. /\ Writes(applied[n]) \in Seq(Value \cup {Nil}) /\ Len(Writes(applied[n])) = k
        /\ \A i \in 1..k : Writes(applied[n])[i] = order[i]
    BY <2>2, <2>3, <2>4, WritesType
  <2>6. \A i \in 1..k : order[i] \in Value \cup {Nil}
    BY <2>2, <2>4, ElementOfSeq
  <2>7. /\ SubSeq(order, 1, k) \in Seq(Value \cup {Nil}) /\ Len(SubSeq(order, 1, k)) = k
        /\ \A i \in 1..k : SubSeq(order, 1, k)[i] = order[i]
    <3>1. /\ SubSeq(order, 1, k) \in Seq(Value \cup {Nil})
          /\ Len(SubSeq(order, 1, k)) = IF 1 <= k THEN k - 1 + 1 ELSE 0
          /\ \A i \in 1..(k - 1 + 1) : SubSeq(order, 1, k)[i] = order[1 + i - 1]
      BY <2>6, SubSeqProperties
    <3>2. (IF 1 <= k THEN k - 1 + 1 ELSE 0) = k
      OBVIOUS
    <3>3. \A i \in 1..k : i \in 1..(k - 1 + 1) /\ 1 + i - 1 = i
      OBVIOUS
    <3>4. \A i \in 1..k : SubSeq(order, 1, k)[i] = order[i]
      BY <3>1, <3>3
    <3> QED
      BY <3>1, <3>2, <3>4
  <2>8. Writes(applied[n]) = SubSeq(order, 1, k)
    BY <2>5, <2>7, SeqEqual
  <2>9. db[n] = Abstract!MapAfter(taken[n])
    BY <2>1, MapAfterIs DEF MapsFollow
  <2> QED
    BY <2>3, <2>8, <2>9
<1> QED
  BY <1>1, FollowedHolds, PTL

-----------------------------------------------------------------------------
(* What was handed on is still in the log of the node that did so, with its *)
(* channel if that is there.                                                *)

LEMMA OrderTypes ==
    ASSUME NEW old, NEW new, OrderScene(old, new)
    PROVE  /\ TypeOK /\ TypeOK' /\ StoreTypeOK /\ StoreTypeOK' /\ Scene(old, new) /\ StoreScene(old, new)
           /\ Len(order) \in Nat /\ Len(order') \in Nat
           /\ \A n \in Node : /\ Len(applied[n]) \in Nat /\ Len(applied'[n]) \in Nat
                              /\ Len(log[n]) \in Nat /\ Len(log'[n]) \in Nat
                              /\ taken[n] \in Nat /\ taken'[n] \in Nat
                              /\ commitIndex[n] \in Nat /\ commitIndex'[n] \in Nat
<1>1. StoreScene(old, new) /\ Scene(old, new)
  BY DEF OrderScene, StoreScene
<1>2. TypeOK /\ TypeOK' /\ StoreTypeOK /\ StoreTypeOK'
  BY <1>1, SceneTypes DEF StoreScene
<1>3. \A n \in Node : /\ applied[n] \in Seq(Entry) /\ applied'[n] \in Seq(Entry)
                      /\ log[n] \in Seq(Entry) /\ log'[n] \in Seq(Entry)
                      /\ commitIndex[n] \in Nat /\ commitIndex'[n] \in Nat
  BY <1>2 DEF TypeOK
<1>4. /\ order \in Seq(Value \cup {Nil}) /\ order' \in Seq(Value \cup {Nil})
      /\ \A n \in Node : taken[n] \in Nat /\ taken'[n] \in Nat
  BY <1>2 DEF StoreTypeOK
<1> QED
  BY <1>1, <1>2, <1>3, <1>4, LenProperties

\* What s has at j is in log t.
HeldIn(s, t, j) ==
    j <= Len(t) /\ s[j].val = t[j].val /\ (t[j].chan => s[j].chan)

Held(n) ==
    /\ Len(applied[n]) <= commitIndex[n]
    /\ \A j \in 1..Len(applied[n]) : HeldIn(applied[n], log[n], j)

(* A leader that replaces entries of n has all that n has handed on.       *)
LEMMA LeaderHolds ==
    ASSUME NEW old, NEW new, OrderScene(old, new), NEW n \in Node, Held(n),
           NEW l \in Node, TakesOver(n, l)
    PROVE  /\ Len(applied[n]) <= Len(log[l])
           /\ \A j \in 1..Len(applied[n]) : log[l][j].val = applied[n][j].val
<1>1. Scene(old, new) /\ Len(order) \in Nat /\ Len(applied[n]) \in Nat /\ Len(log[l]) \in Nat
      /\ leading[l] /\ commitIndex[n] \in Nat
  BY OrderTypes DEF TakesOver
<1>2. /\ Len(applied[n]) <= Len(order)
      /\ \A j \in 1..Len(applied[n]) : applied[n][j].val = order[j]
      /\ Phase(old, new)
  BY DEF OrderScene, OneOrder, Ordered, HandedInOrder
<1>3. CASE InOrder(l)
  BY <1>1, <1>2, <1>3 DEF InOrder
<1>4. CASE Nobody
  BY <1>1, <1>4, Leads DEF Nobody, WinsTerm
<1>5. ASSUME NEW a \in Node, OneTerm(old, a), InOrder(a) PROVE InOrder(l)
  <2>1. WinsTerm(currentTerm[l], l)
    BY <1>1, Leads
  <2>2. currentTerm[l] = old
    BY <1>5, <2>1 DEF OneTerm, WinsTerm
  <2> QED
    BY <1>1, <1>5, <2>1, <2>2, OneWinner DEF OneTerm
<1>6. ASSUME NEW b \in Node, NEW B \in Nat, Second(old, new, b, B), l # b
      PROVE  /\ Len(applied[n]) <= Len(log[l])
             /\ \A j \in 1..Len(applied[n]) : log[l][j].val = applied[n][j].val
  <2>1. TwoTerms(old, new, b, B) /\ InOrder(b) /\ CommitsUpTo(new, B)
    BY <1>6 DEF Second
  <2>2. WinsTerm(old, l) /\ currentTerm[l] = old
    BY <1>1, <1>6, <2>1, SecondStays DEF TwoTerms
  <2>3. currentTerm[n] < new
    BY <1>1, <2>2, SceneNumbers DEF TakesOver
  <2>4. Len(applied[n]) <= B
    BY <1>1, <2>1, <2>3 DEF Held, CommitsUpTo
  <2>5. B <= Len(log[l]) /\ Agree(log[l], log[b], B)
    BY <1>6, <2>1, <2>2 DEF TwoTerms, Predecessor
  <2>6. ASSUME NEW j \in 1..Len(applied[n]) PROVE log[l][j].val = applied[n][j].val
    <3>1. applied[n][j].val = log[b][j].val /\ j <= Len(log[b])
      <4>1. Len(log[b]) \in Nat
        BY OrderTypes
      <4> QED
        BY <1>1, <1>2, <2>1, <4>1 DEF InOrder
    <3> QED
      BY <1>1, <2>4, <2>5, <3>1 DEF Agree
  <2> QED
    BY <1>1, <2>4, <2>5, <2>6
<1> QED
  BY <1>2, <1>3, <1>4, <1>5, <1>6 DEF Phase, Second

LEMMA HeldStays ==
    ASSUME NEW old, NEW new, OrderScene(old, new), NEW n \in Node, Held(n),
           applied'[n] # <<>>,
           NEW j \in 1..Len(applied[n])
    PROVE  HeldIn(applied[n], log'[n], j)
<1>1. /\ TypeOK /\ TypeOK' /\ Len(applied[n]) \in Nat
      /\ Len(log[n]) \in Nat /\ Len(log'[n]) \in Nat
  BY OrderTypes
<1>2. j <= Len(log[n]) /\ applied[n][j].val = log[n][j].val
      /\ (log[n][j].chan => applied[n][j].chan)
  BY DEF Held, HeldIn
<1>3. Extends(n)
  BY DEF OrderScene, StoreScene, EntriesMove
<1>4. j <= Len(log'[n]) /\ applied[n][j].val = log'[n][j].val
  <2>1. CASE log'[n] = log[n]
    BY <1>2, <2>1
  <2>2. ASSUME NEW v \in checked[n], log'[n] = Append(log[n], NewEntry(v))
        PROVE  j <= Len(log'[n]) /\ applied[n][j].val = log'[n][j].val
    <3>1. NewEntry(v) \in Entry /\ log[n] \in Seq(Entry)
      BY <1>1 DEF NewEntry, Entry, TypeOK
    <3>2. /\ Len(log'[n]) = Len(log[n]) + 1
          /\ \A k \in 1..Len(log[n]) : log'[n][k] = log[n][k]
      BY <2>2, <3>1, AppendProperties
    <3> QED
      BY <1>1, <1>2, <3>2
  <2>3. ASSUME NEW l \in Node, TakesOver(n, l), Len(log'[n]) = Len(log[l])
        PROVE  j <= Len(log'[n]) /\ applied[n][j].val = log'[n][j].val
    <3>1. Len(applied[n]) <= Len(log[l]) /\ log[l][j].val = applied[n][j].val
      BY <2>3, LeaderHolds
    <3>2. j \in 1..Len(log'[n])
      BY <1>1, <2>3, <3>1
    <3>3. log'[n][j].val = log[n][j].val \/ log'[n][j].val = log[l][j].val
      BY <1>1, <2>3, <3>2, TakenFrom
    <3> QED
      BY <1>2, <3>1, <3>2, <3>3
  <2> QED
    BY <1>3, <2>1, <2>2, <2>3 DEF Extends
<1>5. ASSUME log'[n][j].chan PROVE applied[n][j].chan
  <2>1. j \in 1..Len(log'[n])
    BY <1>1, <1>4
  <2>2. WithChannel(n, j)
    BY <1>1, <1>3, <1>5, <2>1, ChannelsStay
  <2> QED
    BY <1>1, <1>2, <1>5, <2>2 DEF WithChannel
<1> QED
  BY <1>4, <1>5 DEF HeldIn

LEMMA HeldNext ==
    ASSUME NEW old, NEW new, OrderScene(old, new), NEW n \in Node, Held(n)
    PROVE  Held(n)'
<1>1. /\ Len(applied[n]) \in Nat /\ Len(applied'[n]) \in Nat
      /\ commitIndex[n] \in Nat /\ commitIndex'[n] \in Nat
  BY OrderTypes
<1>2. CASE applied'[n] = <<>>
  <2>1. Len(<<>>) = 0 /\ 1..0 = {}
    OBVIOUS
  <2> QED
    BY <1>1, <1>2, <2>1 DEF Held
<1>3. CASE applied'[n] = applied[n] /\ commitIndex'[n] = commitIndex[n]
             /\ applied'[n] # <<>>
  BY <1>3, HeldStays DEF Held
<1>4. CASE /\ OneHandsOn(n) /\ HandsOn(n, commitIndex'[n]) /\ commitIndex'[n] <= Len(log'[n])
           /\ applied'[n] # <<>>
  <2>1. PICK c \in Nat : c = commitIndex'[n]
    BY <1>1
  <2>2. /\ Len(applied[n]) <= c /\ Len(applied'[n]) = c /\ c <= Len(log'[n])
        /\ \A i \in 1..c : applied'[n][i] = IF i <= Len(applied[n]) THEN applied[n][i]
                                            ELSE log'[n][i]
    BY <1>4, <2>1 DEF HandsOn
  <2>3. ASSUME NEW j \in 1..c PROVE HeldIn(applied'[n], log'[n], j)
    <3>1. CASE j <= Len(applied[n])
      <4>1. HeldIn(applied[n], log'[n], j) /\ applied'[n][j] = applied[n][j]
        BY <1>1, <1>4, <2>2, <3>1, HeldStays
      <4> QED
        BY <4>1 DEF HeldIn
    <3>2. CASE ~(j <= Len(applied[n]))
      <4>1. Len(log'[n]) \in Nat
        BY OrderTypes
      <4> QED
        BY <2>2, <3>2, <4>1 DEF HeldIn
    <3> QED
      BY <3>1, <3>2
  <2> QED
    BY <2>1, <2>2, <2>3 DEF Held
<1>5. \/ applied'[n] = applied[n] /\ commitIndex'[n] = commitIndex[n]
      \/ applied'[n] = <<>>
      \/ OneHandsOn(n) /\ HandsOn(n, commitIndex'[n]) /\ commitIndex'[n] <= Len(log'[n])
  BY DEF OrderScene, HandedWell, NothingHandedOn, OneHandsOn
<1> QED
  BY <1>2, <1>3, <1>4, <1>5

-----------------------------------------------------------------------------
(* Requests and their handlers.                                            *)

LEMMA MoveIs ==
    ASSUME StoreTypeOK, NEW r \in AnyRequest, NEW n, NEW s, Move(r, n, s)
    PROVE  /\ stage'[r] = s /\ at'[r] = n
           /\ \A q \in AnyRequest \ {r} : stage'[q] = stage[q] /\ at'[q] = at[q]
BY DEF StoreTypeOK, Move

\* No handler takes up w, and the one that has goes on waiting.
StageStays(w) ==
    /\ stage'[w] = "handled" <=> stage[w] = "handled"
    /\ stage'[w] = "answered" <=> stage[w] = "answered"
    /\ stage'[w] = "lost" <=> stage[w] = "lost"
    /\ stage[w] = "handled" => at'[w] = at[w]

Quiet ==
    /\ taken' = taken /\ \A w \in Value : StageStays(w)
    /\ \A p \in Node : Extends(p)
    /\ checked' = checked \/ \E n \in Node, v \in Value : ApplyRequest(n, v)

LEMMA StoreCases ==
    ASSUME NEW old, NEW new, OrderScene(old, new)
    PROVE  \/ Quiet
           \/ \E n \in Node : \/ \E w \in Value : PassCheck(n, w)
                              \/ Consume(n) \/ Restart(n)
<1>1. StoreTypeOK /\ TypeOK /\ Undisturbed' /\ Good /\ SentBare
  BY OrderTypes DEF OrderScene, StoreScene, Places, Scene
<1>2. ASSUME UNCHANGED vars PROVE checked' = checked /\ \A p \in Node : Extends(p)
  <2>1. log' = log /\ checked' = checked
    BY <1>2 DEF vars, diskVars, clientVars
  <2> QED
    BY <2>1 DEF Extends
<1>3. ASSUME UNCHANGED requestVars PROVE \A w \in Value : StageStays(w)
  BY <1>3 DEF requestVars, StageStays
<1>4. CASE UNCHANGED storeVars
  BY <1>2, <1>3, <1>4 DEF storeVars, dbVars, Quiet
<1>5. ASSUME NEW n \in Node, Core(Election(n)) \/ Core(Replication(n)) PROVE Quiet
  <2>1. (Election(n) \/ Replication(n)) /\ UNCHANGED requestVars /\ taken' = taken
    BY <1>5 DEF Core, dbVars
  <2> QED
    BY <1>1, <1>3, <2>1, StepExtends, CoreChecks DEF Quiet
<1>6. ASSUME NEW n \in Node, NEW w \in Value, FailCheck(n, w) \/ Redirect(n, w) PROVE Quiet
  <2>1. /\ UNCHANGED vars /\ taken' = taken /\ w \in AnyRequest
        /\ stage[w] \in {"sent", "redirect"}
        /\ \E m : Move(w, m, "redirect") \/ Move(w, m, "sent")
    BY <1>6 DEF FailCheck, Redirect, SentTo, dbVars, AnyRequest
  <2>2. /\ stage'[w] \in {"sent", "redirect"}
        /\ \A q \in AnyRequest \ {w} : stage'[q] = stage[q] /\ at'[q] = at[q]
    BY <1>1, <2>1, MoveIs
  <2>3. \A q \in Value : StageStays(q)
    BY <2>1, <2>2 DEF StageStays, AnyRequest
  <2> QED
    BY <1>2, <2>1, <2>3 DEF Quiet
<1>7. ASSUME NEW n \in Node, NEW w \in Value, Submit(n, w) PROVE Quiet
  <2>1. ApplyRequest(n, w) /\ UNCHANGED requestVars /\ taken' = taken /\ Client(n)
    BY <1>7 DEF Submit, dbVars, Client
  <2> QED
    BY <1>1, <1>3, <2>1, StepExtends DEF Quiet
<1>8. ASSUME NEW n \in Node, NEW r \in Read,
             RedirectRead(n, r) \/ PassRead(n, r) \/ Get(n, r)
      PROVE  Quiet
  <2>1. /\ UNCHANGED vars /\ taken' = taken /\ r \in AnyRequest
        /\ \E m, s : Move(r, m, s)
    BY <1>8 DEF RedirectRead, PassRead, Get, dbVars, AnyRequest
  <2>2. \A q \in AnyRequest \ {r} : stage'[q] = stage[q] /\ at'[q] = at[q]
    BY <1>1, <2>1, MoveIs
  <2>3. \A q \in Value : StageStays(q)
    BY <2>2, RequestAssumption DEF StageStays, AnyRequest
  <2> QED
    BY <1>2, <2>1, <2>3 DEF Quiet
<1> QED
  BY <1>4, <1>5, <1>6, <1>7, <1>8 DEF OrderScene, StoreNext

Submitted == {w \in Value : stage[w] \in {"handled", "answered", "lost"}}

\* Whoever is not answered was told nothing.
Unanswered ==
    /\ DOMAIN answer = AnyRequest
    /\ \A r \in AnyRequest : stage[r] # "answered" => answer[r] = NoAnswer

\* Between the check for a leader and the append, the handler is at work.
Handlers == \A n \in Node : \A w \in checked[n] : stage[w] = "handled" /\ at[w] = n

LogsSubmitted == \A n \in Node : \A i \in 1..Len(log[n]) : log[n][i].val \in Submitted

\* At the end of a channel that n has not served yet, a handler of n waits.
Waits(n, s) ==
    \A i \in 1..Len(s) : i > taken[n] /\ s[i].chan =>
        s[i].val \in Value /\ stage[s[i].val] = "handled" /\ at[s[i].val] = n

Channels == \A n \in Node : Waits(n, log[n]) /\ Waits(n, applied[n])

AnsweredInOrder ==
    \A w \in Value : stage[w] = "answered" => \E i \in 1..Len(order) : order[i] = w

HasEntry(w, n) == \E i \in (taken[n] + 1)..Len(log[n]) : log[n][i] = NewEntry(w)

\* b, not n, leads or has led the second term, and does without w.
Without(new, w, n) ==
    \E b \in Node \ {n} : WinsTerm(new, b) /\ \A i \in 1..Len(log[b]) : log[b][i].val # w

\* Where the handler of w waits, and what has become of w.
Kept(new, w) ==
    /\ at[w] \in Node /\ \E t \in Nat : WinsTerm(t, at[w])
    /\ w \in checked[at[w]] \/ HasEntry(w, at[w]) \/ Without(new, w, at[w])

HandledKept(new) == \A w \in Value : stage[w] = "handled" => Kept(new, w)

RequestInv(new) ==
    /\ \A n \in Node : Held(n)
    /\ Unanswered /\ Handlers /\ LogsSubmitted /\ Channels /\ AnsweredInOrder /\ HandledKept(new)

RequestScene(old, new) == OrderScene(old, new) /\ RequestInv(new)

-----------------------------------------------------------------------------
(* What the steps that move requests do.                                   *)

\* A handler of n finds that n leads, and goes on with w.
Passes(n, w) ==
    /\ stage[w] = "sent" /\ stage'[w] = "handled" /\ at'[w] = n
    /\ \A q \in AnyRequest \ {w} : stage'[q] = stage[q] /\ at'[q] = at[q]
    /\ UNCHANGED <<log, applied, taken, wins>> /\ \E t \in Nat : WinsTerm(t, n)
    /\ checked'[n] = checked[n] \cup {w}
    /\ \A p \in Node \ {n} : checked'[p] = checked[p]

LEMMA PassesIs ==
    ASSUME NEW old, NEW new, RequestScene(old, new), NEW n \in Node,
           NEW w \in Value, PassCheck(n, w)
    PROVE  Passes(n, w)
<1>1. OrderScene(old, new) /\ TypeOK /\ StoreTypeOK /\ Scene(old, new)
  BY OrderTypes DEF RequestScene
<1>2. /\ stage[w] = "sent" /\ CheckLeader(n, w) /\ Move(w, n, "handled")
      /\ taken' = taken /\ w \in AnyRequest
  BY DEF PassCheck, SentTo, dbVars, AnyRequest
<1>3. /\ stage'[w] = "handled" /\ at'[w] = n
      /\ \A q \in AnyRequest \ {w} : stage'[q] = stage[q] /\ at'[q] = at[q]
  BY <1>1, <1>2, MoveIs
<1>4. /\ leading[n] /\ UNCHANGED <<log, applied, wins>>
      /\ checked' = [checked EXCEPT ![n] = checked[n] \cup {w}]
  BY <1>2 DEF CheckLeader, diskVars, commitVars, history
<1>5. \E t \in Nat : WinsTerm(t, n)
  BY <1>1, <1>4, Leads, SceneNumbers
<1>6. /\ checked'[n] = checked[n] \cup {w}
      /\ \A p \in Node \ {n} : checked'[p] = checked[p]
  BY <1>1, <1>4 DEF TypeOK
<1> QED
  BY <1>2, <1>3, <1>4, <1>5, <1>6 DEF Passes

\* The database of n takes the entry at i, of write w, and answers its handler
\* if that waits.
Takes(n, i, w) ==
    /\ i = taken[n] + 1 /\ i \in 1..Len(applied[n]) /\ i \in 1..Len(log[n])
    /\ i \in 1..Len(order)
    /\ w \in Value /\ applied[n][i].val = w /\ log[n][i].val = w /\ order[i] = w
    /\ log[n][i].chan => applied[n][i].chan
    /\ taken'[n] = i /\ \A p \in Node \ {n} : taken'[p] = taken[p]
    /\ UNCHANGED <<vars, order, log, applied, checked, wins>>
    /\ applied[n][i].chan => stage[w] = "handled" /\ at[w] = n /\ stage'[w] = "answered"
    /\ \A q \in AnyRequest : (q = w /\ applied[n][i].chan)
                             \/ (stage'[q] = stage[q] /\ at'[q] = at[q])

LEMMA TakesIs ==
    ASSUME NEW old, NEW new, RequestScene(old, new), NEW n \in Node, Consume(n)
    PROVE  \E i \in Nat, w \in Value : Takes(n, i, w)
<1>1. /\ OrderScene(old, new) /\ TypeOK /\ StoreTypeOK /\ Len(applied[n]) \in Nat /\ taken[n] \in Nat
      /\ Len(log[n]) \in Nat /\ Len(order) \in Nat
  BY OrderTypes DEF RequestScene
<1>2. PICK i \in Nat : i = taken[n] + 1
  BY <1>1
<1>3. i \in 1..Len(applied[n])
  BY <1>1, <1>2 DEF Consume
<1>4. /\ Len(applied[n]) <= Len(order) /\ applied[n][i].val = order[i]
      /\ HeldIn(applied[n], log[n], i)
  BY <1>1, <1>3 DEF OrderScene, OneOrder, Ordered, HandedInOrder, RequestScene, RequestInv,
                    Held
<1>5. i \in 1..Len(order) /\ order[i] \in Value
  BY <1>1, <1>3, <1>4, OrderWritten DEF OrderScene
<1>6. PICK w \in Value : w = order[i]
  BY <1>5
<1>7. /\ i \in 1..Len(log[n]) /\ applied[n][i].val = w /\ log[n][i].val = w
      /\ log[n][i].chan => applied[n][i].chan
  <2>1. i <= Len(log[n]) /\ applied[n][i].val = log[n][i].val
    BY <1>4 DEF HeldIn
  <2>2. log[n][i].chan => applied[n][i].chan
    BY <1>4 DEF HeldIn
  <2>3. i \in 1..Len(log[n])
    BY <1>1, <1>3, <2>1
  <2> QED
    BY <1>4, <1>6, <2>1, <2>2, <2>3
<1>8. /\ taken' = [taken EXCEPT ![n] = i] /\ UNCHANGED <<vars, order>>
      /\ IF applied[n][i].chan THEN Move(w, n, "answered") ELSE UNCHANGED requestVars
  BY <1>2, <1>7 DEF Consume
<1>9. UNCHANGED <<vars, order, log, applied, checked, wins>>
  BY <1>8 DEF vars, diskVars, commitVars, clientVars, history
<1>10. taken'[n] = i /\ \A p \in Node \ {n} : taken'[p] = taken[p]
  BY <1>1, <1>8 DEF StoreTypeOK
<1>11. w \in AnyRequest
  BY DEF AnyRequest
<1>12. CASE applied[n][i].chan
  <2>1. stage[w] = "handled" /\ at[w] = n
    BY <1>1, <1>2, <1>3, <1>7, <1>12 DEF RequestScene, RequestInv, Channels, Waits
  <2>2. /\ stage'[w] = "answered"
        /\ \A q \in AnyRequest \ {w} : stage'[q] = stage[q] /\ at'[q] = at[q]
    BY <1>1, <1>8, <1>11, <1>12, MoveIs
  <2>3. \A q \in AnyRequest : (q = w /\ applied[n][i].chan)
                             \/ (stage'[q] = stage[q] /\ at'[q] = at[q])
    BY <1>12, <2>2
  <2>4. Takes(n, i, w)
    BY <1>2, <1>3, <1>5, <1>6, <1>7, <1>9, <1>10, <2>1, <2>2, <2>3 DEF Takes
  <2> QED
    BY <2>4
<1>13. CASE ~applied[n][i].chan
  <2>1. stage' = stage /\ at' = at
    BY <1>8, <1>13 DEF requestVars
  <2> QED
    BY <1>2, <1>3, <1>5, <1>6, <1>7, <1>9, <1>10, <1>13, <2>1 DEF Takes
<1> QED
  BY <1>12, <1>13

\* The process of n ends, and its handlers with it.
Restarts(n) ==
    /\ Bare(log'[n]) /\ applied'[n] = <<>> /\ checked'[n] = {} /\ taken'[n] = 0
    /\ \A p \in Node \ {n} : /\ log'[p] = log[p] /\ applied'[p] = applied[p]
                             /\ checked'[p] = checked[p] /\ taken'[p] = taken[p]
    /\ wins' = wins /\ order' = order
    /\ \A w \in Value : IF stage[w] = "handled" /\ at[w] = n THEN stage'[w] = "lost"
                        ELSE StageStays(w)

LEMMA RestartsIs ==
    ASSUME NEW old, NEW new, RequestScene(old, new), NEW n \in Node, Restart(n)
    PROVE  Restarts(n)
<1>1. OrderScene(old, new) /\ TypeOK /\ StoreTypeOK /\ Good /\ Undisturbed'
  BY OrderTypes DEF RequestScene, Scene
<1>2. Failure(n) /\ Resend(n) /\ NewDb(n) /\ order' = order
  BY DEF Restart
<1>3. /\ Bare(log'[n]) /\ applied'[n] = <<>>
      /\ \A p \in Node \ {n} : log'[p] = log[p] /\ applied'[p] = applied[p]
  BY <1>1, <1>2, FailureBare
<1>4. checked' = [checked EXCEPT ![n] = {}] /\ wins' = wins
  BY <1>2 DEF Failure, Crash, CrashInVote, CrashInAppend, Reboot, history
<1>5. checked'[n] = {} /\ \A p \in Node \ {n} : checked'[p] = checked[p]
  BY <1>1, <1>4 DEF TypeOK
<1>6. taken'[n] = 0 /\ \A p \in Node \ {n} : taken'[p] = taken[p]
  BY <1>1, <1>2 DEF NewDb, StoreTypeOK
<1>7. ASSUME NEW w \in Value
      PROVE  IF stage[w] = "handled" /\ at[w] = n THEN stage'[w] = "lost" ELSE StageStays(w)
  BY <1>2 DEF Resend, AnyRequest, StageStays
<1> QED
  BY <1>2, <1>3, <1>4, <1>5, <1>6, <1>7 DEF Restarts

LEMMA RequestCases ==
    ASSUME NEW old, NEW new, RequestScene(old, new)
    PROVE  \/ Quiet
           \/ \E n \in Node, w \in Value : Passes(n, w)
           \/ \E n \in Node, i \in Nat, w \in Value : Takes(n, i, w)
           \/ \E n \in Node : Restarts(n)
BY StoreCases, PassesIs, TakesIs, RestartsIs DEF RequestScene

-----------------------------------------------------------------------------
(* What is known of the requests stays true.                               *)

LEMMA UnansweredNext ==
    ASSUME StoreTypeOK, Unanswered, [StoreNext]_storeVars PROVE Unanswered'
<1>1. CASE UNCHANGED storeVars
  BY <1>1 DEF storeVars, requestVars, Unanswered
<1>2. ASSUME NEW r \in AnyRequest, NEW n, NEW s, Move(r, n, s), UNCHANGED answer,
             stage[r] # "answered"
      PROVE  Unanswered'
  BY <1>2, MoveIs DEF Unanswered
<1>3. ASSUME NEW r \in AnyRequest, NEW n, Move(r, n, "answered"),
             NEW x, answer' = [answer EXCEPT ![r] = x]
      PROVE  Unanswered'
  BY <1>3, MoveIs DEF Unanswered
<1>4. ASSUME NEW n \in Node, Core(Election(n)) \/ Core(Replication(n)) PROVE Unanswered'
  BY <1>4 DEF Core, requestVars, Unanswered
<1>5. ASSUME NEW n \in Node, NEW w \in Value, Submit(n, w) PROVE Unanswered'
  BY <1>5 DEF Submit, requestVars, Unanswered
<1>6. ASSUME NEW n \in Node, NEW w \in Value,
             PassCheck(n, w) \/ FailCheck(n, w) \/ Redirect(n, w)
      PROVE  Unanswered'
  <2>1. w \in AnyRequest /\ stage[w] \in {"sent", "redirect"} /\ UNCHANGED answer
    BY <1>6 DEF PassCheck, FailCheck, Redirect, SentTo, AnyRequest
  <2>2. \E m, s : Move(w, m, s)
    BY <1>6 DEF PassCheck, FailCheck, Redirect
  <2> QED
    BY <1>2, <2>1, <2>2
<1>7. ASSUME NEW n \in Node, NEW r \in Read, RedirectRead(n, r) \/ PassRead(n, r)
      PROVE  Unanswered'
  <2>1. r \in AnyRequest /\ stage[r] = "sent" /\ UNCHANGED answer
    BY <1>7 DEF RedirectRead, PassRead, SentTo, AnyRequest
  <2>2. \E m, s : Move(r, m, s)
    BY <1>7 DEF RedirectRead, PassRead
  <2> QED
    BY <1>2, <2>1, <2>2
<1>8. ASSUME NEW n \in Node, NEW r \in Read, Get(n, r) PROVE Unanswered'
  BY <1>3, <1>8 DEF Get, AnyRequest
<1>9. ASSUME NEW n \in Node, Restart(n) PROVE Unanswered'
  <2>1. answer' = answer /\ Resend(n)
    BY <1>9 DEF Restart
  <2>2. \A r \in AnyRequest : stage[r] = "answered" => stage'[r] = "answered"
    BY <2>1 DEF Resend
  <2> QED
    BY <2>1, <2>2 DEF Unanswered
<1>10. ASSUME NEW n \in Node, Consume(n) PROVE Unanswered'
  <2>1. PICK e : e = applied[n][taken[n] + 1]
    OBVIOUS
  <2>2. IF e.chan
          THEN /\ answer' = [answer EXCEPT ![e.val] =
                     HttpStatus(Op[e.val], Succeeds(db[n], Op[e.val]))]
               /\ Move(e.val, n, "answered")
          ELSE UNCHANGED requestVars
    BY <1>10, <2>1 DEF Consume
  <2>3. CASE e.chan
    <3>1. PICK w : w = e.val
      OBVIOUS
    <3>2. PICK x : x = HttpStatus(Op[w], Succeeds(db[n], Op[w]))
      OBVIOUS
    <3>3. Move(w, n, "answered") /\ answer' = [answer EXCEPT ![w] = x]
      BY <2>2, <2>3, <3>1, <3>2
    <3>4. CASE w \in AnyRequest
      BY <1>3, <3>3, <3>4
    <3>5. CASE w \notin AnyRequest
      BY <3>3, <3>5 DEF Move, Unanswered, StoreTypeOK
    <3> QED
      BY <3>4, <3>5
  <2>4. CASE ~e.chan
    BY <2>2, <2>4 DEF requestVars, Unanswered
  <2> QED
    BY <2>3, <2>4
<1> QED
  BY <1>1, <1>4, <1>5, <1>6, <1>7, <1>8, <1>9, <1>10 DEF StoreNext

LEMMA SubmittedStays ==
    ASSUME NEW old, NEW new, RequestScene(old, new) PROVE Submitted \subseteq Submitted'
<1> SUFFICES ASSUME NEW q \in Submitted
             PROVE  stage'[q] \in {"handled", "answered", "lost"}
  BY DEF Submitted
<1>1. q \in Value /\ q \in AnyRequest /\ stage[q] \in {"handled", "answered", "lost"}
  BY DEF Submitted, AnyRequest
<1>2. CASE Quiet
  BY <1>1, <1>2 DEF Quiet, StageStays
<1>3. ASSUME NEW n \in Node, NEW w \in Value, Passes(n, w)
      PROVE  stage'[q] \in {"handled", "answered", "lost"}
  BY <1>1, <1>3 DEF Passes
<1>4. ASSUME NEW n \in Node, NEW i \in Nat, NEW w \in Value, Takes(n, i, w)
      PROVE  stage'[q] \in {"handled", "answered", "lost"}
  BY <1>1, <1>4 DEF Takes
<1>5. ASSUME NEW n \in Node, Restarts(n)
      PROVE  stage'[q] \in {"handled", "answered", "lost"}
  BY <1>1, <1>5 DEF Restarts, StageStays
<1> QED
  BY <1>2, <1>3, <1>4, <1>5, RequestCases

LEMMA HandlersNext ==
    ASSUME NEW old, NEW new, RequestScene(old, new) PROVE Handlers'
<1> SUFFICES ASSUME NEW p \in Node, NEW q \in checked'[p]
             PROVE  stage'[q] = "handled" /\ at'[q] = p
  BY DEF Handlers
<1>1. TypeOK /\ TypeOK' /\ TakenUpOnce /\ (q \in checked[p] => stage[q] = "handled" /\ at[q] = p)
  BY OrderTypes DEF RequestScene, RequestInv, Handlers, OrderScene, StoreScene, Places
<1>2. q \in Value /\ q \in AnyRequest
  BY <1>1 DEF TypeOK, AnyRequest
<1>3. CASE Quiet
  <2>1. checked'[p] \subseteq checked[p]
    <3>1. ASSUME NEW n \in Node, NEW v, checked' = [checked EXCEPT ![n] = checked[n] \ {v}]
          PROVE  checked'[p] \subseteq checked[p]
      BY <1>1, <3>1 DEF TypeOK
    <3> QED
      BY <1>3, <3>1 DEF Quiet, ApplyRequest
  <2> QED
    BY <1>1, <1>2, <1>3, <2>1 DEF Quiet, StageStays
<1>4. ASSUME NEW n \in Node, NEW w \in Value, Passes(n, w)
      PROVE  stage'[q] = "handled" /\ at'[q] = p
  BY <1>1, <1>2, <1>4 DEF Passes
<1>5. ASSUME NEW n \in Node, NEW i \in Nat, NEW w \in Value, Takes(n, i, w)
      PROVE  stage'[q] = "handled" /\ at'[q] = p
  <2>1. q \in checked[p] /\ i \in 1..Len(log[n]) /\ log[n][i].val = w
    BY <1>5 DEF Takes
  <2>2. q # w
    BY <1>1, <2>1 DEF TakenUpOnce, Nowhere
  <2> QED
    BY <1>1, <1>2, <1>5, <2>1, <2>2 DEF Takes
<1>6. ASSUME NEW n \in Node, Restarts(n)
      PROVE  stage'[q] = "handled" /\ at'[q] = p
  <2>1. p # n /\ q \in checked[p]
    BY <1>6 DEF Restarts
  <2> QED
    BY <1>1, <1>2, <1>6, <2>1 DEF Restarts, StageStays
<1> QED
  BY <1>3, <1>4, <1>5, <1>6, RequestCases

LEMMA LogsSubmittedNext ==
    ASSUME NEW old, NEW new, RequestScene(old, new) PROVE LogsSubmitted'
<1> SUFFICES ASSUME NEW n \in Node, NEW i \in 1..Len(log'[n])
             PROVE  log'[n][i].val \in Submitted'
  BY DEF LogsSubmitted
<1>1. TypeOK /\ TypeOK' /\ StepFacts
  BY OrderTypes, SceneTypes DEF RequestScene
<1>2. /\ \A q \in Node : \A v \in checked[q] : v \in Submitted
      /\ \A q \in Node : \A j \in 1..Len(log[q]) : log[q][j].val \in Submitted
  <2>1. \A q \in Node : checked[q] \subseteq Value
    BY <1>1 DEF TypeOK
  <2>2. Handlers /\ LogsSubmitted
    BY DEF RequestScene, RequestInv
  <2> QED
    BY <2>1, <2>2 DEF Handlers, LogsSubmitted, Submitted
<1>3. HasSource(n, i)
  BY <1>1, Sources
<1> QED
  BY <1>2, <1>3, SubmittedStays DEF HasSource

LEMMA AnsweredInOrderNext ==
    ASSUME NEW old, NEW new, RequestScene(old, new) PROVE AnsweredInOrder'
<1> SUFFICES ASSUME NEW q \in Value, stage'[q] = "answered"
             PROVE  \E j \in 1..Len(order') : order'[j] = q
  BY DEF AnsweredInOrder
<1>1. OrderStays /\ Len(order) \in Nat /\ Len(order') \in Nat /\ q \in AnyRequest
  BY OrderTypes DEF RequestScene, OrderScene, AnyRequest
<1>2. ASSUME NEW j \in 1..Len(order), order[j] = q
      PROVE  \E k \in 1..Len(order') : order'[k] = q
  BY <1>1, <1>2 DEF OrderStays
<1>3. CASE stage[q] = "answered"
  BY <1>2, <1>3 DEF RequestScene, RequestInv, AnsweredInOrder
<1>4. CASE stage[q] # "answered"
  <2>1. PICK n \in Node, i \in Nat, w \in Value : Takes(n, i, w)
    BY <1>1, <1>4, RequestCases DEF Quiet, Passes, Restarts, StageStays
  <2>2. q = w /\ i \in 1..Len(order) /\ order[i] = w
    BY <1>1, <1>4, <2>1 DEF Takes
  <2> QED
    BY <1>2, <2>2
<1> QED
  BY <1>3, <1>4

\* What n hands on now is in its log, the rest was handed on before.
LEMMA HandedFrom ==
    ASSUME NEW old, NEW new, OrderScene(old, new), NEW n \in Node,
           NEW j \in 1..Len(applied'[n])
    PROVE  \/ j \in 1..Len(applied[n]) /\ applied'[n][j] = applied[n][j]
           \/ j \in 1..Len(log'[n]) /\ applied'[n][j] = log'[n][j]
<1>1. /\ Len(applied[n]) \in Nat /\ Len(applied'[n]) \in Nat /\ Len(log'[n]) \in Nat
      /\ commitIndex'[n] \in Nat
  BY OrderTypes
<1>2. CASE applied'[n] = <<>>
  <2>1. Len(<<>>) = 0 /\ 1..0 = {}
    OBVIOUS
  <2> QED
    BY <1>2, <2>1
<1>3. CASE HandsOn(n, commitIndex'[n]) /\ commitIndex'[n] <= Len(log'[n])
  BY <1>1, <1>3 DEF HandsOn
<1> QED
  BY <1>2, <1>3 DEF OrderScene, HandedWell, NothingHandedOn, OneHandsOn

LEMMA ChannelsNext ==
    ASSUME NEW old, NEW new, RequestScene(old, new) PROVE Channels'
<1> SUFFICES ASSUME NEW p \in Node PROVE Waits(p, log[p])' /\ Waits(p, applied[p])'
  BY DEF Channels
<1>1. /\ OrderScene(old, new) /\ TypeOK /\ TypeOK' /\ Handlers /\ OnePlace /\ Held(p)
      /\ Waits(p, log[p]) /\ Waits(p, applied[p])
      /\ taken[p] \in Nat /\ taken'[p] \in Nat
      /\ Len(applied[p]) \in Nat /\ Len(log[p]) \in Nat /\ Len(log'[p]) \in Nat
  BY OrderTypes DEF RequestScene, RequestInv, Channels, OrderScene, StoreScene, Places
<1>2. CASE Quiet
  <2>1. Waits(p, log[p])'
    <3> SUFFICES ASSUME NEW i \in 1..Len(log'[p]), i > taken'[p], log'[p][i].chan
                 PROVE  /\ log'[p][i].val \in Value /\ stage'[log'[p][i].val] = "handled"
                        /\ at'[log'[p][i].val] = p
      BY DEF Waits
    <3>1. PICK v : v = log'[p][i].val
      OBVIOUS
    <3>2. v \in Value /\ stage[v] = "handled" /\ at[v] = p
      <4>1. WithChannel(p, i)
        BY <1>1, ChannelsStay DEF OrderScene, StoreScene, EntriesMove
      <4>2. CASE i \in 1..Len(log[p]) /\ log'[p][i] = log[p][i]
        BY <1>1, <1>2, <3>1, <4>2 DEF Quiet, Waits
      <4>3. ASSUME NEW w \in checked[p], log'[p][i] = NewEntry(w)
            PROVE  v \in Value /\ stage[v] = "handled" /\ at[v] = p
        <5>1. v = w
          BY <3>1, <4>3 DEF NewEntry
        <5>2. w \in Value
          BY <1>1 DEF TypeOK
        <5> QED
          BY <1>1, <4>3, <5>1, <5>2 DEF Handlers
      <4> QED
        BY <4>1, <4>2, <4>3 DEF WithChannel
    <3> QED
      BY <1>2, <3>1, <3>2 DEF Quiet, StageStays
  <2>2. Waits(p, applied[p])'
    <3> SUFFICES ASSUME NEW j \in 1..Len(applied'[p]), j > taken'[p], applied'[p][j].chan
                 PROVE  /\ applied'[p][j].val \in Value
                        /\ stage'[applied'[p][j].val] = "handled"
                        /\ at'[applied'[p][j].val] = p
      BY DEF Waits
    <3>1. CASE j \in 1..Len(log'[p]) /\ applied'[p][j] = log'[p][j]
      BY <2>1, <3>1 DEF Waits
    <3>2. CASE j \in 1..Len(applied[p]) /\ applied'[p][j] = applied[p][j]
      <4>1. PICK v : v = applied[p][j].val
        OBVIOUS
      <4>2. v \in Value /\ stage[v] = "handled" /\ at[v] = p
        BY <1>1, <1>2, <3>2, <4>1 DEF Quiet, Waits
      <4> QED
        BY <1>2, <3>2, <4>1, <4>2 DEF Quiet, StageStays
    <3> QED
      BY <1>1, <3>1, <3>2, HandedFrom
  <2> QED
    BY <2>1, <2>2
<1>3. ASSUME NEW n \in Node, NEW w \in Value, Passes(n, w)
      PROVE  Waits(p, log[p])' /\ Waits(p, applied[p])'
  <2>1. \A v \in Value : stage[v] = "handled" /\ at[v] = p =>
                         stage'[v] = "handled" /\ at'[v] = p
    BY <1>3 DEF Passes, AnyRequest
  <2> QED
    BY <1>1, <1>3, <2>1 DEF Passes, Waits
<1>4. ASSUME NEW n \in Node, NEW i \in Nat, NEW w \in Value, Takes(n, i, w)
      PROVE  Waits(p, log[p])' /\ Waits(p, applied[p])'
  <2>1. /\ log' = log /\ applied' = applied /\ taken'[p] >= taken[p]
        /\ i \in 1..Len(log[n]) /\ log[n][i].val = w
        /\ p = n => taken'[p] = i
    BY <1>1, <1>4 DEF Takes
  <2>2. ASSUME NEW v \in Value, stage[v] = "handled", at[v] = p,
               NEW j \in 1..Len(log[p]), log[p][j].val = v, j > taken'[p]
        PROVE  stage'[v] = "handled" /\ at'[v] = p
    <3>1. CASE v = w /\ applied[n][i].chan
      <4>1. p = n
        BY <1>4, <2>2, <3>1 DEF Takes
      <4>2. i = j
        BY <1>1, <2>1, <2>2, <3>1, <4>1 DEF OnePlace
      <4> QED
        BY <2>1, <2>2, <4>1, <4>2
    <3>2. CASE ~(v = w /\ applied[n][i].chan)
      BY <1>4, <2>2, <3>2 DEF Takes, AnyRequest
    <3> QED
      BY <3>1, <3>2
  <2>3. Waits(p, log[p])'
    BY <1>1, <2>1, <2>2 DEF Waits
  <2>4. \A j \in 1..Len(applied[p]) : j \in 1..Len(log[p]) /\ log[p][j].val = applied[p][j].val
    BY <1>1 DEF Held, HeldIn
  <2>5. Waits(p, applied[p])'
    BY <1>1, <2>1, <2>2, <2>4 DEF Waits
  <2> QED
    BY <2>3, <2>5
<1>5. ASSUME NEW n \in Node, Restarts(n)
      PROVE  Waits(p, log[p])' /\ Waits(p, applied[p])'
  <2>1. CASE p = n
    <3>1. Len(<<>>) = 0 /\ 1..0 = {}
      OBVIOUS
    <3> QED
      BY <1>5, <2>1, <3>1 DEF Restarts, Bare, Waits
  <2>2. CASE p # n
    <3>1. \A v \in Value : stage[v] = "handled" /\ at[v] = p =>
                           stage'[v] = "handled" /\ at'[v] = p
      BY <1>5, <2>2 DEF Restarts, StageStays
    <3> QED
      BY <1>1, <1>5, <2>2, <3>1 DEF Restarts, Waits
  <2> QED
    BY <2>1, <2>2
<1> QED
  BY <1>2, <1>3, <1>4, <1>5, RequestCases

\* An entry with its handler stays in the log, or a newer leader does without it.
LEMMA EntryStays ==
    ASSUME NEW old, NEW new, RequestScene(old, new), NEW n \in Node, Extends(n),
           NEW w \in Value,
           NEW i \in 1..Len(log[n]), log[n][i] = NewEntry(w),
           NEW t \in Nat, WinsTerm(t, n)
    PROVE  (i \in 1..Len(log'[n]) /\ log'[n][i] = NewEntry(w)) \/ Without(new, w, n)'
<1>1. /\ TypeOK /\ TypeOK' /\ Scene(old, new) /\ OnePlace /\ Len(log[n]) \in Nat /\ Phase(old, new)
      /\ log[n] \in Seq(Entry)
  <2>1. TypeOK /\ TypeOK' /\ Scene(old, new) /\ Len(log[n]) \in Nat
    BY OrderTypes DEF RequestScene
  <2> QED
    BY <2>1 DEF RequestScene, OrderScene, StoreScene, Places, OneOrder, TypeOK
<1>2. CASE log'[n] = log[n]
  BY <1>2
<1>3. ASSUME NEW v \in checked[n], log'[n] = Append(log[n], NewEntry(v))
      PROVE  i \in 1..Len(log'[n]) /\ log'[n][i] = NewEntry(w)
  <2>1. NewEntry(v) \in Entry
    BY <1>1 DEF NewEntry, Entry, TypeOK
  <2>2. /\ Len(log'[n]) = Len(log[n]) + 1
        /\ \A k \in 1..Len(log[n]) : log'[n][k] = log[n][k]
    BY <1>1, <1>3, <2>1, AppendProperties
  <2> QED
    BY <1>1, <2>2
<1>4. ASSUME NEW l \in Node, TakesOver(n, l),
             \A j \in 1..Len(log'[n]) : IF j < nextIndex[l][n] THEN log'[n][j] = log[n][j]
                                        ELSE ~log'[n][j].chan
      PROVE  (i \in 1..Len(log'[n]) /\ log'[n][i] = NewEntry(w)) \/ Without(new, w, n)'
  <2>1. /\ l # n /\ leading[l] /\ currentTerm[l] >= currentTerm[n]
        /\ nextIndex[l][n] \in Nat /\ Len(log'[n]) \in Nat /\ Len(log'[n]) >= nextIndex[l][n] - 1
        /\ log'[l] = log[l]
    BY <1>1, <1>4, TakenFrom DEF TakesOver
  <2>2. CASE i < nextIndex[l][n]
    BY <1>1, <1>4, <2>1, <2>2
  <2>3. CASE ~(i < nextIndex[l][n])
    <3>1. WinsTerm(currentTerm[l], l) /\ currentTerm[l] \in {old, new}
      BY <1>1, <2>1, Leads
    <3>2. t <= currentTerm[n] /\ t \in {old, new}
      BY <1>1, HasWon, OneWinner
    <3>3. currentTerm[l] # t
      BY <1>1, <2>1, <3>1, OneWinner
    <3>4. currentTerm[l] = new /\ t = old
      <4>1. /\ old \in Nat /\ new \in Nat /\ old < new
            /\ currentTerm[n] \in Nat /\ currentTerm[l] >= t
        BY <1>1, <2>1, <3>2, SceneNumbers
      <4> QED
        BY <3>1, <3>2, <3>3, <4>1
    <3>5. WinsTerm(new, l) /\ WinsTerm(old, n)
      BY <3>1, <3>4
    <3>6. PICK b \in Node, B \in Nat : Second(old, new, b, B)
      <4>1. <<new, l>> \in wins /\ <<new, l>>[1] = new /\ old # new
        BY <1>1, <3>5, SceneNumbers DEF WinsTerm
      <4>2. ~Nobody /\ \A a \in Node : ~OneTerm(old, a)
        BY <4>1 DEF Nobody, OneTerm
      <4> QED
        BY <1>1, <4>2 DEF Phase
    <3>7. b = l /\ TwoTerms(old, new, b, B) /\ Apart(b, B)
      BY <1>1, <3>5, <3>6, OneWinner DEF Second, TwoTerms
    <3>8. nextIndex[l][n] - 1 >= B
      BY <2>1, <3>5, <3>7 DEF TwoTerms, Predecessor
    <3>9. i > B /\ log[n][i].chan /\ log[n][i].val = w
      BY <1>1, <2>1, <2>3, <3>8 DEF NewEntry
    <3>10. ASSUME NEW k \in 1..Len(log[l]), log[l][k].val = w PROVE FALSE
      <4>1. i = k
        BY <1>1, <3>9, <3>10 DEF OnePlace
      <4> QED
        BY <1>1, <2>1, <3>7, <3>9, <3>10, <4>1 DEF Apart
    <3>11. WinsTerm(new, l)'
      BY <1>1, <3>5, OneWinner
    <3> QED
      BY <2>1, <3>10, <3>11 DEF Without
  <2> QED
    BY <2>2, <2>3
<1> QED
  BY <1>2, <1>3, <1>4 DEF Extends

(* Who does without w never takes it up: w is with another node's handler. *)
LEMMA WithoutStays ==
    ASSUME NEW old, NEW new, RequestScene(old, new), NEW n \in Node,
           NEW w \in Value, stage[w] = "handled", at[w] = n,
           Without(new, w, n)
    PROVE  Without(new, w, n)'
<1>1. Scene(old, new) /\ Handlers
  BY OrderTypes DEF RequestScene, RequestInv
<1>2. PICK b \in Node \ {n} : WinsTerm(new, b) /\ \A i \in 1..Len(log[b]) : log[b][i].val # w
  BY DEF Without
<1>3. WinsTerm(new, b)'
  BY <1>1, <1>2, OneWinner
<1>4. Len(log[b]) \in Nat /\ (Keeps(b) \/ Grows(b)) /\ w \notin checked[b]
  BY <1>1, <1>2, SceneNumbers, SecondStays DEF Handlers
<1>5. CASE Keeps(b)
  BY <1>2, <1>3, <1>5 DEF Keeps, Without
<1>6. CASE Grows(b)
  <2>1. \A i \in 1..Len(log'[b]) : i \in 1..Len(log[b]) \/ i = Len(log[b]) + 1
    BY <1>4, <1>6 DEF Grows
  <2>2. \A i \in 1..Len(log'[b]) : log'[b][i].val # w
    BY <1>2, <1>4, <1>6, <2>1 DEF Grows
  <2> QED
    BY <1>2, <1>3, <2>2 DEF Without
<1> QED
  BY <1>4, <1>5, <1>6

LEMMA KeptQuiet ==
    ASSUME NEW old, NEW new, RequestScene(old, new), Quiet, NEW w \in Value,
           stage[w] = "handled", Kept(new, w)
    PROVE  Kept(new, w)'
<1>1. PICK n \in Node : n = at[w]
  BY DEF Kept
<1>2. PICK t \in Nat : WinsTerm(t, n)
  BY <1>1 DEF Kept
<1>3. /\ TypeOK /\ TypeOK' /\ StoreTypeOK /\ Scene(old, new)
      /\ Len(log[n]) \in Nat /\ taken[n] \in Nat /\ Len(applied[n]) \in Nat
  BY OrderTypes DEF RequestScene
<1>4. at'[w] = n /\ taken'[n] = taken[n] /\ Extends(n) /\ WinsTerm(t, n)'
  BY <1>1, <1>2, <1>3, OneWinner DEF Quiet, StageStays
<1>5. taken[n] <= Len(log[n])
  <2>1. taken[n] <= Len(applied[n])
    BY <1>3 DEF StoreTypeOK
  <2>2. Len(applied[n]) = 0 \/ Len(applied[n]) \in 1..Len(applied[n])
    BY <1>3
  <2>3. Len(applied[n]) = 0 \/ Len(applied[n]) <= Len(log[n])
    BY <2>2 DEF RequestScene, RequestInv, Held, HeldIn
  <2> QED
    BY <1>3, <2>1, <2>3
<1>6. CASE w \in checked[n]
  <2>1. checked' = checked => w \in checked'[n]
    BY <1>6
  <2>2. ASSUME NEW p \in Node, NEW v \in Value, ApplyRequest(p, v), w \notin checked'[n]
        PROVE  HasEntry(w, n)'
    <3>1. /\ checked' = [checked EXCEPT ![p] = checked[p] \ {v}]
          /\ log' = [log EXCEPT ![p] = Append(log[p], NewEntry(v))]
      BY <2>2 DEF ApplyRequest
    <3>2. p = n /\ v = w
      BY <1>3, <1>6, <2>2, <3>1 DEF TypeOK
    <3>3. log'[n] = Append(log[n], NewEntry(w)) /\ log[n] \in Seq(Entry) /\ NewEntry(w) \in Entry
      BY <1>3, <3>1, <3>2 DEF TypeOK, NewEntry, Entry
    <3>4. Len(log'[n]) = Len(log[n]) + 1 /\ log'[n][Len(log[n]) + 1] = NewEntry(w)
      BY <3>3, AppendProperties
    <3>5. Len(log[n]) + 1 \in (taken'[n] + 1)..Len(log'[n])
      BY <1>3, <1>4, <1>5, <3>4
    <3> QED
      BY <3>4, <3>5 DEF HasEntry
  <2>3. w \in checked'[n] \/ HasEntry(w, n)'
    BY <1>6, <2>1, <2>2 DEF Quiet
  <2> QED
    BY <1>4, <2>3 DEF Kept
<1>7. CASE HasEntry(w, n)
  <2>1. PICK i \in (taken[n] + 1)..Len(log[n]) : log[n][i] = NewEntry(w)
    BY <1>7 DEF HasEntry
  <2>2. i \in 1..Len(log[n]) /\ i >= taken[n] + 1
    BY <1>3, <2>1
  <2>3. (i \in 1..Len(log'[n]) /\ log'[n][i] = NewEntry(w)) \/ Without(new, w, n)'
    BY <1>2, <1>4, <2>1, <2>2, EntryStays
  <2>4. ASSUME i \in 1..Len(log'[n]), log'[n][i] = NewEntry(w) PROVE HasEntry(w, n)'
    <3>1. i \in (taken'[n] + 1)..Len(log'[n])
      BY <1>3, <1>4, <2>2, <2>4
    <3> QED
      BY <2>4, <3>1 DEF HasEntry
  <2>5. HasEntry(w, n)' \/ Without(new, w, n)'
    BY <2>3, <2>4
  <2> QED
    BY <1>4, <2>5 DEF Kept
<1>8. CASE Without(new, w, n)
  <2>1. Without(new, w, n)'
    BY <1>1, <1>8, WithoutStays
  <2> QED
    BY <1>4, <2>1 DEF Kept
<1> QED
  BY <1>1, <1>6, <1>7, <1>8 DEF Kept

LEMMA HandledKeptNext ==
    ASSUME NEW old, NEW new, RequestScene(old, new) PROVE HandledKept(new)'
<1> SUFFICES ASSUME NEW w \in Value, stage'[w] = "handled" PROVE Kept(new, w)'
  BY DEF HandledKept
<1>1. /\ TypeOK /\ TypeOK' /\ StoreTypeOK /\ Scene(old, new) /\ w \in AnyRequest
      /\ \A n \in Node : Len(log[n]) \in Nat /\ taken[n] \in Nat
  BY OrderTypes DEF RequestScene, AnyRequest
<1>2. stage[w] = "handled" => Kept(new, w)
  BY DEF RequestScene, RequestInv, HandledKept
<1>3. CASE Quiet
  BY <1>2, <1>3, KeptQuiet DEF Quiet, StageStays
<1>4. ASSUME NEW p \in Node, NEW v \in Value, Passes(p, v) PROVE Kept(new, w)'
  <2>1. CASE w = v
    <3>1. PICK t \in Nat : WinsTerm(t, p)
      BY <1>4 DEF Passes
    <3>2. WinsTerm(t, p)' /\ at'[w] = p /\ w \in checked'[p]
      BY <1>1, <1>4, <2>1, <3>1, OneWinner DEF Passes
    <3> QED
      BY <3>2 DEF Kept
  <2>2. CASE w # v
    <3>1. stage[w] = "handled" /\ at'[w] = at[w] /\ Kept(new, w)
      BY <1>1, <1>2, <1>4, <2>2 DEF Passes
    <3>2. PICK n \in Node : n = at[w]
      BY <3>1 DEF Kept
    <3>3. /\ at'[w] = n /\ \E t \in Nat : WinsTerm(t, n)'
          /\ HasEntry(w, n)' <=> HasEntry(w, n)
          /\ Without(new, w, n)' <=> Without(new, w, n)
      BY <1>4, <3>1, <3>2 DEF Passes, Kept, WinsTerm, HasEntry, Without
    <3>4. w \in checked[n] => w \in checked'[n]
      BY <1>4, <3>2 DEF Passes
    <3> QED
      BY <3>1, <3>2, <3>3, <3>4 DEF Kept
  <2> QED
    BY <2>1, <2>2
<1>5. ASSUME NEW p \in Node, NEW i \in Nat, NEW v \in Value, Takes(p, i, v) PROVE Kept(new, w)'
  <2>1. /\ stage[w] = "handled" /\ at'[w] = at[w] /\ Kept(new, w)
        /\ ~(w = v /\ applied[p][i].chan)
    BY <1>1, <1>2, <1>5 DEF Takes
  <2>2. PICK n \in Node : n = at[w]
    BY <2>1 DEF Kept
  <2>3. /\ at'[w] = n /\ \E t \in Nat : WinsTerm(t, n)'
        /\ Without(new, w, n)' <=> Without(new, w, n)
        /\ w \in checked[n] <=> w \in checked'[n]
    BY <1>5, <2>1, <2>2 DEF Takes, Kept, WinsTerm, Without
  <2>4. ASSUME HasEntry(w, n) PROVE HasEntry(w, n)'
    <3>1. PICK k \in (taken[n] + 1)..Len(log[n]) : log[n][k] = NewEntry(w)
      BY <2>4 DEF HasEntry
    <3>2. log' = log /\ (p # n => taken'[n] = taken[n])
          /\ (p = n => taken'[n] = i /\ i = taken[n] + 1)
      BY <1>5 DEF Takes
    <3>3. p = n => k # i
      <4> SUFFICES ASSUME p = n, k = i PROVE FALSE
        OBVIOUS
      <4>1. log[p][i].val = w /\ log[p][i].chan
        BY <3>1 DEF NewEntry
      <4> QED
        BY <1>5, <2>1, <4>1 DEF Takes
    <3>4. k \in (taken'[n] + 1)..Len(log'[n])
      BY <1>1, <3>2, <3>3
    <3> QED
      BY <3>1, <3>2, <3>4 DEF HasEntry
  <2> QED
    BY <2>1, <2>2, <2>3, <2>4 DEF Kept
<1>6. ASSUME NEW p \in Node, Restarts(p) PROVE Kept(new, w)'
  <2>1. stage[w] = "handled" /\ at[w] # p /\ at'[w] = at[w] /\ Kept(new, w)
    BY <1>2, <1>6 DEF Restarts, StageStays
  <2>2. PICK n \in Node \ {p} : n = at[w]
    BY <2>1 DEF Kept
  <2>3. /\ at'[w] = n /\ \E t \in Nat : WinsTerm(t, n)'
        /\ HasEntry(w, n)' <=> HasEntry(w, n)
        /\ w \in checked[n] <=> w \in checked'[n]
    BY <1>6, <2>1, <2>2 DEF Restarts, Kept, WinsTerm, HasEntry
  <2>4. Without(new, w, n) => Without(new, w, n)'
    BY <2>1, <2>2, WithoutStays
  <2> QED
    BY <2>1, <2>2, <2>3, <2>4 DEF Kept
<1> QED
  BY <1>3, <1>4, <1>5, <1>6, RequestCases

LEMMA RequestInvInit == ASSUME NEW new, StoreInit PROVE RequestInv(new)
<1>1. /\ log = [n \in Node |-> <<>>] /\ applied = [n \in Node |-> <<>>]
      /\ commitIndex = [n \in Node |-> 0] /\ checked = [n \in Node |-> {}]
      /\ stage = [r \in AnyRequest |-> "sent"] /\ answer = [r \in AnyRequest |-> NoAnswer]
  BY DEF StoreInit, Init
<1>2. Len(<<>>) = 0 /\ 1..0 = {}
  OBVIOUS
<1>3. (\A n \in Node : Held(n)) /\ LogsSubmitted /\ Channels
  BY <1>1, <1>2 DEF Held, LogsSubmitted, Channels, Waits
<1>4. Unanswered /\ Handlers
  BY <1>1 DEF Unanswered, Handlers
<1>5. AnsweredInOrder /\ HandledKept(new)
  BY <1>1 DEF AnsweredInOrder, HandledKept, AnyRequest
<1> QED
  BY <1>3, <1>4, <1>5 DEF RequestInv

LEMMA RequestInvNext ==
    ASSUME NEW old, NEW new, RequestScene(old, new) PROVE RequestInv(new)'
<1>1. OrderScene(old, new) /\ (\A n \in Node : Held(n)) /\ Unanswered /\ StoreTypeOK
      /\ [StoreNext]_storeVars
  BY OrderTypes DEF RequestScene, RequestInv, OrderScene
<1>2. \A n \in Node : Held(n)'
  BY <1>1, HeldNext
<1>3. Unanswered'
  BY <1>1, UnansweredNext
<1> QED
  BY <1>2, <1>3, HandlersNext, LogsSubmittedNext, ChannelsNext, AnsweredInOrderNext,
     HandledKeptNext DEF RequestInv

\* All that is known of the store.
StoreInv ==
    /\ Known /\ ElectionSafety /\ AppliedGapless /\ (Undisturbed => Lengths) /\ StoreTypeOK
    /\ Followed /\ \A old, new \in Nat : CalmIn(old, new) => RequestInv(new)

LEMMA StoreInvStep ==
    ASSUME Cardinality(Node) > 1, StoreInv, Known', ElectionSafety',
           (Undisturbed => Lengths)',
           StoreTypeOK', [StoreNext]_storeVars,
           NEW old \in Nat, NEW new \in Nat, CalmIn(old, new)'
    PROVE  RequestScene(old, new) /\ MapsFollow /\ RequestInv(new)'
<1>1. CalmIn(old, new)
  BY StoreStep, CalmBefore
<1>2. /\ OneOrder(old, new) /\ MapsFollow /\ RequestInv(new) /\ Lengths /\ Lengths'
      /\ Known /\ ElectionSafety /\ AppliedGapless /\ StoreTypeOK
  BY <1>1 DEF StoreInv, Followed, CalmIn
<1>3. OrderScene(old, new)
  BY <1>2, OneOrderNext
<1>4. RequestScene(old, new)
  BY <1>2, <1>3 DEF RequestScene
<1> QED
  BY <1>2, <1>4, RequestInvNext

LEMMA StoreInvHolds ==
    ASSUME Cardinality(Node) > 1
    PROVE  StoreSpec => []StoreInv
<1> DEFINE Requested == \A old, new \in Nat : CalmIn(old, new) => RequestInv(new)
<1>1. StoreInit => Requested
  BY RequestInvInit
<1>2. /\ Known /\ Known' /\ ElectionSafety /\ ElectionSafety' /\ AppliedGapless
      /\ (Undisturbed => Lengths) /\ (Undisturbed => Lengths)' /\ StoreTypeOK /\ StoreTypeOK'
      /\ Followed /\ Requested /\ [StoreNext]_storeVars
      => Requested'
  BY StoreInvStep DEF StoreInv
<1>3. /\ Known /\ ElectionSafety /\ AppliedGapless /\ (Undisturbed => Lengths) /\ StoreTypeOK
      /\ Followed /\ Requested
      => StoreInv
  BY DEF StoreInv
<1> HIDE DEF Requested
<1> QED
  BY <1>1, <1>2, <1>3, FollowedHolds, StoreIsRaft, StoreTypeCorrect,
     LengthsHold, OneLeaderPerTerm, EveryIndexOnce, PTL DEF StoreSpec

-----------------------------------------------------------------------------
(* What the handlers and the clients may rely on.                          *)

\* A write that takes effect is in the log of the newest leader.
LEMMA InLeadersLog ==
    ASSUME NEW old, NEW new, OneOrder(old, new), NEW i \in 1..Len(order)
    PROVE  \/ \E a \in Node : OneTerm(old, a) /\ InOrder(a)
           \/ \E b \in Node : \E B \in Nat : Second(old, new, b, B)
<1>1. Len(order) # 0
  BY 1..0 = {}
<1> QED
  BY <1>1 DEF OneOrder, Phase

LEMMA WithoutIsNot ==
    ASSUME NEW old \in Nat, NEW new \in Nat, old < new,
           TypeOK, OneOrder(old, new), ElectionSafety, NEW n \in Node, NEW w \in Value,
           NEW i \in 1..Len(order), order[i] = w, Len(order) \in Nat
    PROVE  ~Without(new, w, n) /\ ~Nowhere(w)
<1>1. ASSUME NEW b \in Node, InOrder(b)
      PROVE  i \in 1..Len(log[b]) /\ log[b][i].val = w
  <2>1. Len(log[b]) \in Nat
    BY LogLength
  <2> QED
    BY <1>1, <2>1 DEF InOrder
<1>2. ~Nowhere(w)
  BY <1>1, InLeadersLog DEF Nowhere, Second
<1>3. ~Without(new, w, n)
  <2> SUFFICES ASSUME NEW b \in Node, <<new, b>> \in wins,
                      \A j \in 1..Len(log[b]) : log[b][j].val # w
               PROVE  FALSE
    BY DEF Without, WinsTerm
  <2>1. \A a \in Node : ~OneTerm(old, a)
    <3>1. <<new, b>>[1] = new /\ old # new
      OBVIOUS
    <3> QED
      BY <3>1 DEF OneTerm
  <2>2. PICK l \in Node, B \in Nat : Second(old, new, l, B)
    BY <2>1, InLeadersLog
  <2>3. l = b
    BY <2>2 DEF Second, TwoTerms, WinsTerm, ElectionSafety
  <2> QED
    BY <1>1, <2>2, <2>3 DEF Second
<1> QED
  BY <1>2, <1>3

(* As long as it is Calm, a write that takes effect while its handler      *)
(* waits is on its way to that handler: its entry, with the channel, is    *)
(* still to be taken at that node (env.go:90, log.go:175-178).             *)
THEOREM HandlersAreAnswered ==
    ASSUME Cardinality(Node) > 1
    PROVE  StoreSpec => []StillAnswerable
<1>1. StoreInv => StillAnswerable
  <2> SUFFICES ASSUME StoreInv, Calm, NEW w \in Value, stage[w] = "handled",
                      NEW i \in DOMAIN order, order[i] = w
               PROVE  HasEntry(w, at[w])
    BY DEF StillAnswerable, HasEntry
  <2>1. PICK old, new \in Nat : CalmIn(old, new)
    BY CalmTerms DEF StoreInv, Known
  <2>2. OneOrder(old, new) /\ RequestInv(new) /\ old < new
    BY <2>1 DEF StoreInv, Followed, CalmIn
  <2>3. /\ TypeOK /\ ElectionSafety /\ Places /\ Kept(new, w)
        /\ order \in Seq(Value \cup {Nil})
    BY <2>2 DEF StoreInv, Known, OneOrder, StoreTypeOK, RequestInv, HandledKept
  <2>4. Len(order) \in Nat /\ i \in 1..Len(order)
    BY <2>3, LenProperties
  <2>5. PICK n \in Node : n = at[w]
    BY <2>3 DEF Kept
  <2>6. ~Without(new, w, n) /\ ~Nowhere(w)
    BY <2>2, <2>3, <2>4, WithoutIsNot
  <2>7. w \notin checked[n]
    BY <2>3, <2>6 DEF Places, TakenUpOnce
  <2> QED
    BY <2>3, <2>5, <2>6, <2>7 DEF Kept
<1> QED
  BY <1>1, StoreInvHolds, PTL

LEMMA MajorityGrows ==
    ASSUME NEW A \in SUBSET Node, NEW S \in SUBSET Node, A \subseteq S, Majority(A)
    PROVE  Majority(S)
<1>1. IsFiniteSet(S) /\ IsFiniteSet(A)
  BY NodeAssumption, FS_Subset
<1>2. Cardinality(A) <= Cardinality(S) /\ Cardinality(A) \in Nat /\ Cardinality(S) \in Nat
  BY <1>1, FS_Subset, FS_CardinalityType
<1>3. Cardinality(Node) \in Nat
  BY NodeAssumption, FS_CardinalityType
<1> QED
  BY <1>2, <1>3 DEF Majority

(* All of the order is in the logs of a majority.                          *)
LEMMA OrderReplicated ==
    ASSUME NEW old, NEW new, TypeOK, OneOrder(old, new), Len(order) \in Nat,
           NEW i \in 1..Len(order)
    PROVE  \E A \in SUBSET Node :
             Majority(A) /\ \A n \in A : i \in 1..Len(log[n]) /\ log[n][i].val = order[i]
<1>1. PICK c \in Nat \ {0} : c = Len(order) /\ i <= c
  OBVIOUS
<1>2. \A n \in Node : Len(log[n]) \in Nat
  BY LogLength
<1>3. PICK A \in SUBSET Node : Majority(A) /\ \A q \in A : c <= Len(log[q])
  BY <1>1 DEF OneOrder, Ordered, OrderSettled, Settled, Firm
<1>4. ASSUME NEW p \in Node, InOrder(p), NEW k \in Nat, i <= k,
             NEW S \in SUBSET Node, Majority(S),
             \A n \in S : i <= Len(log[n]) /\ Agree(log[n], log[p], k)
      PROVE  \E Q \in SUBSET Node :
               Majority(Q) /\ \A n \in Q : i \in 1..Len(log[n]) /\ log[n][i].val = order[i]
  <2>1. i \in 1..k /\ i <= Len(log[p]) /\ order[i] = log[p][i].val
    BY <1>1, <1>2, <1>4 DEF InOrder
  <2>2. \A n \in S : i \in 1..Len(log[n]) /\ log[n][i].val = order[i]
    BY <1>2, <1>4, <2>1 DEF Agree
  <2> QED
    BY <1>4, <2>2
<1>5. ASSUME NEW a \in Node, OneTerm(old, a), InOrder(a)
      PROVE  \E S \in SUBSET Node :
               Majority(S) /\ \A n \in S : i \in 1..Len(log[n]) /\ log[n][i].val = order[i]
  <2>1. ASSUME NEW n \in A
        PROVE  i \in 1..Len(log[n]) /\ log[n][i].val = order[i]
    <3>1. i \in 1..Len(log[n]) /\ i <= Len(log[a]) /\ log[n][i].val = log[a][i].val
      BY <1>1, <1>2, <1>3, <1>5 DEF OneTerm, Follows, Agree
    <3> QED
      BY <1>5, <3>1 DEF InOrder
  <2> QED
    BY <1>3, <2>1
<1>6. ASSUME NEW b \in Node, NEW B \in Nat, Second(old, new, b, B)
      PROVE  \E S \in SUBSET Node :
               Majority(S) /\ \A n \in S : i \in 1..Len(log[n]) /\ log[n][i].val = order[i]
  <2>1. TwoTerms(old, new, b, B) /\ InOrder(b) /\ Replicated(new, b, B)
    BY <1>6 DEF Second
  <2>2. CASE c <= B
    <3>1. \A n \in A : i <= Len(log[n]) /\ Agree(log[n], log[b], B)
      BY <1>1, <1>2, <1>3, <2>1 DEF TwoTerms
    <3> QED
      BY <1>1, <1>3, <1>4, <2>1, <2>2, <3>1
  <2>3. CASE c > B
    <3>1. PICK S \in SUBSET Node : Majority(S) /\ \A n \in S : Keeping(new, b, n, c)
      BY <1>1, <2>1, <2>3 DEF Replicated
    <3>2. \A n \in S : i <= Len(log[n]) /\ Agree(log[n], log[b], c)
      BY <1>1, <1>2, <3>1 DEF Keeping
    <3> QED
      BY <1>1, <1>4, <2>1, <3>1, <3>2
  <2> QED
    BY <2>2, <2>3
<1> QED
  BY <1>5, <1>6, InLeadersLog

(* As long as it is Calm, what a client was told of is in the logs of a    *)
(* majority (external.go:147-173), whatever the second leader cuts         *)
(* (log.go:175-178) and whoever restarts.                                  *)
THEOREM AnswersAreKept ==
    ASSUME Cardinality(Node) > 1
    PROVE  StoreSpec => []AnsweredIsReplicated
<1>1. StoreInv => AnsweredIsReplicated
  <2> SUFFICES ASSUME StoreInv, Calm, NEW w \in Value, stage[w] = "answered"
               PROVE  Majority({n \in Node : \E j \in DOMAIN log[n] : log[n][j].val = w})
    BY DEF AnsweredIsReplicated
  <2>1. PICK old, new \in Nat : CalmIn(old, new)
    BY CalmTerms DEF StoreInv, Known
  <2>2. TypeOK /\ OneOrder(old, new) /\ order \in Seq(Value \cup {Nil}) /\ AnsweredInOrder
    BY <2>1 DEF StoreInv, Known, Followed, StoreTypeOK, RequestInv
  <2>3. Len(order) \in Nat
    BY <2>2, LenProperties
  <2>4. PICK i \in 1..Len(order) : order[i] = w
    BY <2>2 DEF AnsweredInOrder
  <2>5. PICK A \in SUBSET Node :
          Majority(A) /\ \A n \in A : i \in 1..Len(log[n]) /\ log[n][i].val = w
    BY <2>2, <2>3, <2>4, OrderReplicated
  <2>6. \A n \in Node : DOMAIN log[n] = 1..Len(log[n])
    BY <2>2, LenProperties DEF TypeOK
  <2>7. A \subseteq {n \in Node : \E j \in DOMAIN log[n] : log[n][j].val = w}
    BY <2>5, <2>6
  <2> QED
    BY <2>5, <2>7, MajorityGrows
<1> QED
  BY <1>1, StoreInvHolds, PTL

-----------------------------------------------------------------------------
(* The refinement: each step of the store is one of KeyValue, or none.     *)

Tells == [r \in AnyRequest |-> Told(r)]

KvStep == Abstract!KvNext \/ UNCHANGED Abstract!kvVars

\* Nothing is void yet.
StillCalm == Calm /\ Calm'

LEMMA NothingVoid == ASSUME StillCalm PROVE (~Calm)' = ~Calm
BY DEF StillCalm

LEMMA KvInitHolds == StoreInit => Abstract!KvInit
<1> SUFFICES ASSUME StoreInit PROVE Abstract!KvInit
  OBVIOUS
<1>1. /\ stage = [r \in AnyRequest |-> "sent"] /\ order = <<>>
      /\ answer = [r \in AnyRequest |-> NoAnswer]
  BY DEF StoreInit
<1>2. {w \in Value : stage[w] \in {"handled", "answered", "lost"}} = {}
  BY <1>1 DEF AnyRequest
<1>3. \A r \in AnyRequest : Told(r) = NoAnswer
  BY <1>1 DEF Told
<1>4. [r \in AnyRequest |-> Told(r)] = [r \in Value \cup Read |-> NoAnswer]
  BY <1>3 DEF AnyRequest
<1>5. Calm
  BY DEF StoreInit, Init, Calm, Undisturbed, AtMostTwoLeaders
<1> QED
  BY <1>1, <1>2, <1>4, <1>5 DEF Abstract!KvInit

\* The order grows, at most.
LEMMA OrderAdvances ==
    ASSUME NEW old, NEW new, RequestScene(old, new), StillCalm,
           Submitted' = Submitted, answer' = answer
    PROVE  KvStep
<1>1. /\ OrderStays /\ OneOrder(old, new)' /\ LogsSubmitted' /\ Tells' = Tells
      /\ order \in Seq(Value \cup {Nil}) /\ order' \in Seq(Value \cup {Nil})
      /\ Len(order) \in Nat /\ Len(order') \in Nat
      /\ \A n \in Node : Len(log'[n]) \in Nat
  <2>1. Tells' = Tells
    BY DEF Tells, Told
  <2>2. OrderScene(old, new)
    BY DEF RequestScene
  <2> QED
    BY <2>1, <2>2, OrderTypes, LogsSubmittedNext DEF OrderScene, StoreTypeOK
<1>2. CASE Len(order') = Len(order)
  <2>1. order' = order
    BY <1>1, <1>2, SeqEqual DEF OrderStays
  <2> QED
    BY <1>1, <2>1, NothingVoid DEF KvStep, Abstract!kvVars, Submitted, Tells
<1>3. CASE Len(order') # Len(order)
  <2>1. PICK k \in Nat : k = Len(order)
    BY <1>1
  <2>2. k < Len(order') /\ \A i \in 1..k : order'[i] = order[i]
    BY <1>1, <1>3, <2>1 DEF OrderStays
  <2>3. SubSeq(order', 1, k) = order
    <3>1. \A i \in 1..k : order'[i] \in Value \cup {Nil}
      BY <1>1, <2>1, <2>2, ElementOfSeq
    <3>2. /\ SubSeq(order', 1, k) \in Seq(Value \cup {Nil})
          /\ Len(SubSeq(order', 1, k)) = IF 1 <= k THEN k - 1 + 1 ELSE 0
          /\ \A i \in 1..(k - 1 + 1) : SubSeq(order', 1, k)[i] = order'[1 + i - 1]
      BY <3>1, SubSeqProperties
    <3>3. Len(SubSeq(order', 1, k)) = k
      BY <3>2
    <3>4. \A i \in 1..k : SubSeq(order', 1, k)[i] = order[i]
      BY <2>2, <3>2
    <3> QED
      BY <1>1, <2>1, <3>2, <3>3, <3>4, SeqEqual
  <2>4. PICK p \in Node : InOrder(p)'
    BY <1>1, <2>1, <2>2 DEF OneOrder, Phase, Second
  <2>5. \A i \in 1..Len(order') : i \in 1..Len(log'[p]) /\ order'[i] = log'[p][i].val
    BY <1>1, <2>4 DEF InOrder
  <2>6. ASSUME NEW i \in (k + 1)..Len(order')
        PROVE  order'[i] \in Submitted /\ \A j \in 1..(i - 1) : order'[j] # order'[i]
    <3>1. i \in 1..Len(order')
      BY <1>1, <2>6
    <3>2. order'[i] \in Submitted
      BY <1>1, <2>5, <3>1 DEF LogsSubmitted
    <3>3. ASSUME NEW j \in 1..(i - 1), order'[j] = order'[i] PROVE FALSE
      <4>1. j \in 1..Len(order') /\ j # i
        BY <1>1, <3>1
      <4>2. OnePlace'
        BY <1>1 DEF OneOrder, Places
      <4> QED
        BY <2>5, <3>1, <3>3, <4>1, <4>2 DEF OnePlace
    <3> QED
      BY <3>2, <3>3
  <2>7. Abstract!TakeEffect
    BY <1>1, <2>1, <2>2, <2>3, <2>6, NothingVoid DEF Abstract!TakeEffect, Submitted, Tells
  <2> QED
    BY <2>7 DEF KvStep, Abstract!KvNext
<1> QED
  BY <1>2, <1>3

\* A handler that goes on with a write has accepted it.
LEMMA PassIsAccept ==
    ASSUME NEW old, NEW new, RequestScene(old, new), StillCalm,
           NEW n \in Node, NEW w \in Value, PassCheck(n, w)
    PROVE  KvStep
<1>1. Passes(n, w)
  BY PassesIs
<1>2. UNCHANGED <<answer, order>>
  BY DEF PassCheck
<1>3. w \notin Submitted /\ Submitted' = Submitted \cup {w}
  BY <1>1 DEF Passes, Submitted, AnyRequest
<1>4. Tells' = Tells
  BY <1>2 DEF Tells, Told
<1>5. Abstract!Accept(w)
  BY <1>2, <1>3, <1>4, NothingVoid DEF Abstract!Accept, Submitted, Tells
<1> QED
  BY <1>5 DEF KvStep, Abstract!KvNext

(* The map of n is that of the abstract store after taken[n] writes.       *)
LEMMA MapIs ==
    ASSUME NEW old, NEW new, RequestScene(old, new), MapsFollow, NEW n \in Node
    PROVE  /\ db[n] = Abstract!MapAfter(taken[n])
           /\ taken[n] \in 0..Len(order) /\ Len(order) \in Nat
           /\ DOMAIN order = 1..Len(order)
<1>1. /\ OrderScene(old, new) /\ StoreTypeOK /\ taken[n] \in Nat /\ Len(order) \in Nat
      /\ Len(applied[n]) \in Nat
  BY OrderTypes DEF RequestScene
<1>2. taken[n] <= Len(applied[n]) /\ Len(applied[n]) <= Len(order)
  BY <1>1 DEF StoreTypeOK, OrderScene, OneOrder, Ordered, HandedInOrder
<1>3. DOMAIN order = 1..Len(order)
  BY <1>1, LenProperties DEF StoreTypeOK
<1> QED
  BY <1>1, <1>2, <1>3, MapAfterIs DEF MapsFollow

\* The channel of an entry tells its handler the status in the order.
LEMMA TakeIsAnswer ==
    ASSUME NEW old, NEW new, RequestScene(old, new), MapsFollow, StillCalm,
           NEW n \in Node, Consume(n)
    PROVE  KvStep
<1>1. PICK i \in Nat, w \in Value : Takes(n, i, w)
  BY TakesIs
<1>2. /\ i = taken[n] + 1 /\ i \in 1..Len(order) /\ order[i] = w /\ order' = order
      /\ applied[n][i].val = w /\ w \in AnyRequest
  BY <1>1 DEF Takes, AnyRequest
<1>3. CASE ~applied[n][i].chan
  <2>1. stage' = stage /\ answer' = answer
    BY <1>2, <1>3 DEF Consume, requestVars
  <2> QED
    BY <2>1, OrderAdvances DEF Submitted
<1>4. CASE applied[n][i].chan
  <2>1. PICK x : x = HttpStatus(Op[w], Succeeds(db[n], Op[w]))
    OBVIOUS
  <2>2. answer' = [answer EXCEPT ![w] = x]
    BY <1>2, <1>4, <2>1 DEF Consume
  <2>3. stage[w] = "handled" /\ stage'[w] = "answered"
        /\ \A q \in AnyRequest \ {w} : stage'[q] = stage[q]
    BY <1>1, <1>4 DEF Takes
  <2>4. Submitted' = Submitted
    BY <2>3 DEF Submitted, AnyRequest
  <2>5. DOMAIN answer = AnyRequest /\ answer[w] = NoAnswer
    BY <1>2, <2>3 DEF RequestScene, RequestInv, Unanswered
  <2>6. x # NoAnswer /\ (x \in {200, 201} <=> Succeeds(db[n], Op[w]))
    BY <2>1, RequestAssumption DEF HttpStatus
  <2>7. Tells' = [Tells EXCEPT ![w] = Succeeds(db[n], Op[w])]
    <3>1. answer'[w] = x /\ \A q \in AnyRequest \ {w} : answer'[q] = answer[q]
      BY <1>2, <2>2, <2>5
    <3>2. Told(w)' = (x \in {200, 201})
      BY <2>6, <3>1 DEF Told
    <3>3. \A q \in AnyRequest \ {w} : Told(q)' = Told(q)
      BY <3>1 DEF Told
    <3>4. (x \in {200, 201}) = Succeeds(db[n], Op[w])
      <4>1. \A u, v \in BOOLEAN : (u <=> v) => u = v
        OBVIOUS
      <4>2. (x \in {200, 201}) \in BOOLEAN
        OBVIOUS
      <4>3. Succeeds(db[n], Op[w]) \in BOOLEAN
        BY DEF Succeeds
      <4> QED
        BY <2>6, <4>1, <4>2, <4>3, Zenon
    <3> QED
      BY <1>2, <3>2, <3>3, <3>4 DEF Tells
  <2>8. db[n] = Abstract!MapAfter(i - 1) /\ i \in DOMAIN order
    <3>1. i - 1 = taken[n]
      BY <1>2, MapIs
    <3> QED
      BY <1>2, <3>1, MapIs
  <2>9. Succeeds(db[n], Op[w]) = Abstract!Succeeds(Abstract!MapAfter(i - 1), Op[w])
    BY <2>8, AbstractDb DEF Abstract!Succeeds, Succeeds
  <2>10. Told(w) = NoAnswer /\ Tells[w] = NoAnswer
    BY <1>2, <2>5 DEF Told, Tells
  <2>11. Tells' = [Tells EXCEPT ![w] = Abstract!Succeeds(Abstract!MapAfter(i - 1), Op[w])]
    BY <2>7, <2>9
  <2>12. Abstract!AnswerWrite(w)
    BY <1>2, <2>4, <2>8, <2>10, <2>11, NothingVoid DEF Abstract!AnswerWrite, Submitted, Tells
  <2> QED
    BY <2>12 DEF KvStep, Abstract!KvNext
<1> QED
  BY <1>3, <1>4

\* A read shows the map of n.
LEMMA GetIsAnswer ==
    ASSUME NEW old, NEW new, RequestScene(old, new), MapsFollow, StillCalm,
           NEW n \in Node, NEW r \in Read, Get(n, r)
    PROVE  KvStep
<1>1. r \in AnyRequest /\ r \notin Value
  BY RequestAssumption DEF AnyRequest
<1>2. PICK x : x = db[n][Op[r].key]
  OBVIOUS
<1>3. /\ answer' = [answer EXCEPT ![r] = x] /\ stage[r] = "read" /\ order' = order
      /\ Move(r, n, "answered")
  BY <1>2 DEF Get
<1>4. DOMAIN answer = AnyRequest /\ answer[r] = NoAnswer
  BY <1>1, <1>3 DEF RequestScene, RequestInv, Unanswered
<1>5. Submitted' = Submitted
  <2>1. StoreTypeOK
    BY OrderTypes DEF RequestScene
  <2>2. \A q \in Value : stage'[q] = stage[q]
    BY <1>1, <1>3, <2>1, MoveIs DEF AnyRequest
  <2> QED
    BY <2>2 DEF Submitted
<1>6. Tells[r] = NoAnswer /\ Tells' = [Tells EXCEPT ![r] = x]
  <2>1. answer'[r] = x /\ \A q \in AnyRequest \ {r} : answer'[q] = answer[q]
    BY <1>1, <1>3, <1>4
  <2>2. Told(r) = NoAnswer /\ Told(r)' = x
    BY <1>1, <1>4, <2>1 DEF Told
  <2>3. \A q \in AnyRequest \ {r} : Told(q)' = Told(q)
    BY <2>1 DEF Told
  <2> QED
    BY <1>1, <2>2, <2>3 DEF Tells
<1>7. /\ taken[n] \in 0..Len(order) /\ x = Abstract!MapAfter(taken[n])[Op[r].key]
  BY <1>2, MapIs
<1>8. Abstract!AnswerRead(r)
  BY <1>3, <1>5, <1>6, <1>7, NothingVoid DEF Abstract!AnswerRead, Submitted, Tells
<1> QED
  BY <1>8 DEF KvStep, Abstract!KvNext

\* All other steps move requests and leave them submitted or not.
LEMMA KvStepHolds ==
    ASSUME NEW old, NEW new, RequestScene(old, new), MapsFollow, StillCalm PROVE KvStep
<1>1. [StoreNext]_storeVars /\ OrderScene(old, new) /\ StoreTypeOK
  BY OrderTypes DEF RequestScene, OrderScene
<1>2. ASSUME UNCHANGED requestVars PROVE KvStep
  <2>1. Submitted' = Submitted /\ answer' = answer
    BY <1>2 DEF requestVars, Submitted
  <2> QED
    BY <2>1, OrderAdvances
<1>3. ASSUME NEW r \in AnyRequest, NEW n, NEW s, Move(r, n, s), answer' = answer,
             stage[r] \notin {"handled", "answered", "lost"},
             s \notin {"handled", "answered", "lost"}
      PROVE  KvStep
  <2>1. \A q \in Value : stage'[q] \in {"handled", "answered", "lost"} <=>
                         stage[q] \in {"handled", "answered", "lost"}
    BY <1>1, <1>3, MoveIs DEF AnyRequest
  <2>2. Submitted' = Submitted
    BY <2>1 DEF Submitted
  <2> QED
    BY <1>3, <2>2, OrderAdvances
<1>4. CASE UNCHANGED storeVars
  BY <1>2, <1>4 DEF storeVars
<1>5. ASSUME NEW n \in Node, Core(Election(n)) \/ Core(Replication(n)) PROVE KvStep
  BY <1>2, <1>5 DEF Core
<1>6. ASSUME NEW n \in Node, Restart(n) PROVE KvStep
  <2>1. Resend(n) /\ answer' = answer
    BY <1>6 DEF Restart
  <2>2. \A q \in Value : stage'[q] \in {"handled", "answered", "lost"} <=>
                         stage[q] \in {"handled", "answered", "lost"}
    BY <2>1 DEF Resend, AnyRequest
  <2>3. Submitted' = Submitted
    BY <2>2 DEF Submitted
  <2> QED
    BY <2>1, <2>3, OrderAdvances
<1>7. ASSUME NEW n \in Node, NEW w \in Value, Submit(n, w) PROVE KvStep
  BY <1>2, <1>7 DEF Submit
<1>8. ASSUME NEW n \in Node, NEW w \in Value, FailCheck(n, w) \/ Redirect(n, w) PROVE KvStep
  <2>1. w \in AnyRequest /\ stage[w] \in {"sent", "redirect"} /\ answer' = answer
    BY <1>8 DEF FailCheck, Redirect, SentTo, AnyRequest
  <2>2. \E m : Move(w, m, "redirect") \/ Move(w, m, "sent")
    BY <1>8 DEF FailCheck, Redirect
  <2> QED
    BY <1>3, <2>1, <2>2
<1>9. ASSUME NEW n \in Node, NEW r \in Read, RedirectRead(n, r) \/ PassRead(n, r)
      PROVE  KvStep
  <2>1. r \in AnyRequest /\ stage[r] = "sent" /\ answer' = answer
    BY <1>9 DEF RedirectRead, PassRead, SentTo, AnyRequest
  <2>2. \E m : Move(r, m, "read") \/ Move(r, m, "sent")
    BY <1>9 DEF RedirectRead, PassRead
  <2> QED
    BY <1>3, <2>1, <2>2
<1> QED
  BY <1>1, <1>4, <1>5, <1>6, <1>7, <1>8, <1>9, PassIsAccept, TakeIsAnswer, GetIsAnswer
  DEF StoreNext

(* A step after which it is no longer Calm is anything; before it, each    *)
(* step is one of the abstract store.                                      *)
LEMMA StoreSteps ==
    ASSUME Cardinality(Node) > 1, StoreInv, Known', ElectionSafety',
           (Undisturbed => Lengths)',
           StoreTypeOK', [StoreNext]_storeVars
    PROVE  KvStep
<1>1. CASE ~Calm'
  <2>1. Abstract!Anything
    BY <1>1 DEF Abstract!Anything
  <2> QED
    BY <2>1 DEF KvStep, Abstract!KvNext
<1>2. CASE Calm'
  <2>1. PICK old, new \in Nat : CalmIn(old, new)'
    BY <1>2, CalmTermsNext DEF Known
  <2>2. RequestScene(old, new) /\ MapsFollow
    BY <2>1, StoreInvStep
  <2>3. wins \subseteq wins' /\ Undisturbed
    BY <2>1, StoreStep, WinsKept, CalmBefore DEF CalmIn
  <2>4. AtMostTwoLeaders
    BY <1>2, <2>3 DEF Calm, AtMostTwoLeaders
  <2>5. StillCalm
    BY <1>2, <2>3, <2>4 DEF StillCalm, Calm
  <2> QED
    BY <2>2, <2>5, KvStepHolds
<1> QED
  BY <1>1, <1>2

(* As long as it is Calm, the store is one map to its clients: KeyValue,   *)
(* whose writes take effect one after another between their submission and *)
(* their answer, and whose reads show the map after some of them           *)
(* (external.go:98, 147-266).                                              *)
THEOREM StoreImplements ==
    ASSUME Cardinality(Node) > 1
    PROVE  StoreSpec => Implements
<1>1. StoreInv => Known /\ ElectionSafety /\ (Undisturbed => Lengths) /\ StoreTypeOK
  BY DEF StoreInv
<1>2. /\ StoreInv /\ Known' /\ ElectionSafety' /\ (Undisturbed => Lengths)' /\ StoreTypeOK'
      /\ [StoreNext]_storeVars
      => [Abstract!KvNext]_(Abstract!kvVars)
  BY StoreSteps DEF KvStep
<1> QED
  BY <1>1, <1>2, KvInitHolds, StoreInvHolds, PTL DEF StoreSpec, Implements, Abstract!KvSpec

=============================================================================

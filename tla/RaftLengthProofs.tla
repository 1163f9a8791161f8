-------------------------- MODULE RaftLengthProofs --------------------------
(***************************************************************************)
(* Two properties of lengths that hold as long as no AppendEntries that    *)
(* its caller has given up on is acted on, for every number of nodes and   *)
(* with restarts, late votes and ignored requests: a leader counts as      *)
(* replicated what is there, and the log of a newer leader reaches every   *)
(* commit index.                                                           *)
(*                                                                         *)
(* Entries carry no term, so logs are compared by their lengths only.      *)
(* StepFacts stands for a step: what it says of lengths, terms, leaders,   *)
(* counts and votes is all that the argument needs.                        *)
(***************************************************************************)
EXTENDS RaftIndexProofs

\* What the proofs about Raft say already.
Known == TypeOK /\ ElectionInv /\ LeadershipFlags /\ BroadcastInv

-----------------------------------------------------------------------------
(* Terms of entries are 0, and requests are on time: what a live one says  *)
(* of its caller's log is still so.                                        *)

ZeroTerms(s) == \A i \in 1..Len(s) : s[i].term = 0

\* The entries of a request are those of its caller.
Copied(m) ==
    \A i \in 1..Len(m.entries) : m.entries[i].val = log[m.caller][m.prev + i].val

Punctual(m) ==
    /\ m.type = "append" => m.prevTerm = 0 /\ ZeroTerms(m.entries) /\ Copied(m)
    /\ m.type = "vote" => m.lastTerm = 0 /\ m.lastIdx = Len(log[m.caller])

OnTime ==
    /\ \A m \in net : m.live => Punctual(m)
    /\ \A n \in Node : ZeroTerms(log[n])

LEMMA LogLength ==
    ASSUME TypeOK, NEW n \in Node
    PROVE  log[n] \in Seq(Entry) /\ Len(log[n]) \in Nat
BY LenProperties DEF TypeOK

LEMMA ZeroTermAt ==
    ASSUME NEW s, ZeroTerms(s), NEW i \in 0..Len(s) PROVE TermAt(s, i) = 0
BY DEF ZeroTerms, TermAt

LEMMA ZeroSubSeq ==
    ASSUME NEW s \in Seq(Entry), ZeroTerms(s), NEW i \in Nat, NEW j \in Nat,
           1 <= i, i <= j + 1, j <= Len(s)
    PROVE  /\ SubSeq(s, i, j) \in Seq(Entry) /\ ZeroTerms(SubSeq(s, i, j))
           /\ Len(SubSeq(s, i, j)) = j - i + 1
<1>1. Len(s) \in Nat
  BY LenProperties
<1>2. \A k \in i..j : s[k] \in Entry
  BY <1>1, ElementOfSeq
<1>3. /\ SubSeq(s, i, j) \in Seq(Entry) /\ Len(SubSeq(s, i, j)) = j - i + 1
      /\ \A k \in 1..(j - i + 1) : SubSeq(s, i, j)[k] = s[i + k - 1]
  BY <1>2, SubSeqProperties
<1>4. \A k \in 1..(j - i + 1) : i + k - 1 \in 1..Len(s)
  BY <1>1
<1> QED
  BY <1>3, <1>4 DEF ZeroTerms

LEMMA PrefixOf ==
    ASSUME NEW s \in Seq(Entry), NEW k \in Nat, k <= Len(s)
    PROVE  /\ SubSeq(s, 1, k) \in Seq(Entry) /\ Len(SubSeq(s, 1, k)) = k
           /\ \A j \in 1..k : SubSeq(s, 1, k)[j] = s[j]
           /\ ZeroTerms(s) => ZeroTerms(SubSeq(s, 1, k))
<1>1. Len(s) \in Nat
  BY LenProperties
<1>2. \A i \in 1..k : s[i] \in Entry
  BY <1>1, ElementOfSeq
<1>3. /\ SubSeq(s, 1, k) \in Seq(Entry)
      /\ Len(SubSeq(s, 1, k)) = IF 1 <= k THEN k - 1 + 1 ELSE 0
      /\ \A j \in 1..(k - 1 + 1) : SubSeq(s, 1, k)[j] = s[1 + j - 1]
  BY <1>2, SubSeqProperties
<1>4. \A j \in 1..k : j \in 1..(k - 1 + 1) /\ 1 + j - 1 = j
  OBVIOUS
<1>5. (IF 1 <= k THEN k - 1 + 1 ELSE 0) = k
  OBVIOUS
<1>6. \A j \in 1..k : SubSeq(s, 1, k)[j] = s[j]
  BY <1>3, <1>4
<1>7. \A j \in 1..k : j \in 1..Len(s)
  BY <1>1
<1> QED
  BY <1>3, <1>5, <1>6, <1>7 DEF ZeroTerms

LEMMA ZeroConcat ==
    ASSUME NEW s \in Seq(Entry), NEW t \in Seq(Entry), ZeroTerms(s), ZeroTerms(t)
    PROVE  ZeroTerms(s \o t)
<1>1. /\ s \o t \in Seq(Entry) /\ Len(s \o t) = Len(s) + Len(t)
      /\ \A k \in 1..(Len(s) + Len(t)) :
            (s \o t)[k] = IF k <= Len(s) THEN s[k] ELSE t[k - Len(s)]
  BY ConcatProperties
<1>2. Len(s) \in Nat /\ Len(t) \in Nat
  BY LenProperties
<1> QED
  BY <1>1, <1>2 DEF ZeroTerms

LEMMA ZeroSent ==
    ASSUME NEW s \in Seq(Entry), ZeroTerms(s) PROVE ZeroTerms(Sent(s))
<1>1. Len(Sent(s)) = Len(s) /\ DOMAIN s = 1..Len(s)
  BY SentLength, LenProperties
<1>2. \A i \in 1..Len(s) : s[i] \in Entry
  BY ElementOfSeq
<1>3. \A i \in 1..Len(s) : Sent(s)[i].term = s[i].term
  BY <1>1, <1>2 DEF Sent, Entry
<1> QED
  BY <1>1, <1>3 DEF ZeroTerms

LEMMA AnswersLive ==
    ASSUME TypeOK, NEW m \in net, m.type \in {"voted", "appended"} PROVE m.live
BY MessageParts DEF Answer

\* A request of n that has outlived its round.
Leftover(m, n) ==
    /\ ~m.live /\ m.caller = n /\ m.type \in {"vote", "append"}
    /\ m.type = "vote" => m.term <= currentTerm'[n]

(* All that a closed round leaves on its way are its requests.             *)
LEMMA ClosedRound ==
    ASSUME TypeOK, NEW n \in Node, NEW S \in SUBSET Request, CloseCalls(n, Abandon(S)),
           \A r \in S : r.caller = n /\ (r.type = "vote" => r.term <= currentTerm'[n])
    PROVE  \A m \in net' : m \in net \ Calls(n) \/ Leftover(m, n)
<1> SUFFICES ASSUME NEW m \in net', m \notin net \ Calls(n) PROVE Leftover(m, n)
  OBVIOUS
<1>1. PICK r \in S : m = [r EXCEPT !.live = FALSE]
  BY DEF CloseCalls, Abandon
<1>2. r \in VoteRequest \/ r \in AppendRequest
  BY DEF Request
<1>3. /\ ~m.live /\ m.caller = r.caller /\ m.type = r.type /\ m.term = r.term
      /\ m.type \in {"vote", "append"}
  BY <1>1, <1>2 DEF VoteRequest, AppendRequest
<1> QED
  BY <1>3 DEF Leftover

(* A request of n that waits for its answer is of the term that n has.     *)
LEMMA PendingTerm ==
    ASSUME TypeOK, ElectionInv, NEW n \in Node, NEW r \in Pending(n)
    PROVE  r \in Request /\ r.caller = n /\ (r.type = "vote" => r.term = currentTerm[n])
BY PendingRequests DEF Pending, Calls, ElectionInv, AsksInRound

(* A node that holds no round waits for no message.                        *)
LEMMA FreeIsSilent ==
    ASSUME Known, NEW n \in Node, lock[n] = "free"
    PROVE  \A m \in net : m.live => m.caller # n
<1> SUFFICES ASSUME NEW m \in net, m.live, m.caller = n PROVE FALSE
  OBVIOUS
<1>1. m.type \in {"vote", "append", "voted", "appended"}
  BY MessageParts DEF Known
<1>2. CASE m.type \in {"vote", "voted"}
  BY <1>1, <1>2 DEF Known, ElectionInv, AsksInRound, AnswersAreVotes
<1>3. CASE m.type \in {"append", "appended"}
  BY <1>1, <1>3 DEF Known, BroadcastInv, InRound, OfItsRound
<1> QED
  BY <1>1, <1>2, <1>3

(* A step that adds at most answers to the messages that are waited for,   *)
(* and changes a log only of a node that waits for none.                   *)
LEMMA CalmStep ==
    ASSUME TypeOK, OnTime, NEW n \in Node,
           \A p \in Node \ {n} : log'[p] = log[p], ZeroTerms(log'[n]),
           \A m \in net' : m.live => m \in net \/ m.type \in {"voted", "appended"},
           \/ log'[n] = log[n]
           \/ \A m \in net' : m.live /\ m \in net => m.caller # n
    PROVE  OnTime'
<1>1. ASSUME NEW m \in net', m.live PROVE Punctual(m)'
  <2>1. CASE m \in net
    <3>1. m.caller \in Node /\ Punctual(m)
      BY <1>1, <2>1, MessageParts DEF OnTime
    <3>2. log'[m.caller] = log[m.caller]
      BY <1>1, <2>1, <3>1
    <3> QED
      BY <3>1, <3>2 DEF Punctual, Copied
  <2>2. CASE m.type \in {"voted", "appended"}
    BY <2>2 DEF Punctual
  <2> QED
    BY <1>1, <2>1, <2>2
<1>2. \A p \in Node : ZeroTerms(log'[p])
  BY DEF OnTime
<1> QED
  BY <1>1, <1>2 DEF OnTime

(* ... and one that adds none.                                             *)
LEMMA CalmTake ==
    ASSUME TypeOK, OnTime, UNCHANGED log, \A m \in net' : m.live => m \in net
    PROVE  OnTime'
BY DEF OnTime, Punctual, Copied

LEMMA AnswersCalm ==
    ASSUME NEW m \in net, NEW t, NEW ok,
           \/ net' = Answered(m, VoteAnswer(m, t, ok))
           \/ net' = Answered(m, AppendAnswer(m, t, ok))
    PROVE  \A a \in net' : a \in net \/ a.type \in {"voted", "appended"}
<1>1. VoteAnswer(m, t, ok).type = "voted" /\ AppendAnswer(m, t, ok).type = "appended"
  BY DEF VoteAnswer, AppendAnswer
<1>2. \A a : Answered(m, a) \subseteq net \cup {a}
  BY DEF Answered
<1> QED
  BY <1>1, <1>2

LEMMA RoundsEndCalm ==
    ASSUME Known, OnTime, NEW n \in Node,
           StepDown(n) \/ LoseElection(n) \/ WinElection(n) \/ EndBroadcast(n)
    PROVE  /\ OnTime' /\ UNCHANGED log /\ lock'[n] = "free"
           /\ \A m \in net' : m \in net \ Calls(n) \/ Leftover(m, n)
<1>1. UNCHANGED log /\ TypeOK /\ ElectionInv
  BY DEF StepDown, LoseElection, WinElection, EndBroadcast, diskVars, Known
<1>2. lock'[n] = "free"
  BY <1>1 DEF StepDown, LoseElection, WinElection, EndBroadcast, Unlock, TypeOK
<1>3. \A m \in net' : m \in net \ Calls(n) \/ Leftover(m, n)
  <2>1. CASE StepDown(n)
    <3>1. PICK m \in Calls(n), kept \in SUBSET Pending(n), late \in SUBSET Pending(n) :
             /\ currentTerm' = [currentTerm EXCEPT ![n] = m.term]
             /\ m.term > currentTerm[n]
             /\ CloseCalls(n, Abandon((kept \ late)
                                   \cup {[r EXCEPT !.term = m.term] : r \in late}))
      BY <2>1 DEF StepDown
    <3>2. m.term \in Nat /\ currentTerm[n] \in Nat /\ currentTerm'[n] = m.term
      BY <1>1, <3>1, MessageParts DEF Calls, TypeOK
    <3> DEFINE S == (kept \ late) \cup {[r EXCEPT !.term = m.term] : r \in late}
    <3>3. ASSUME NEW r \in kept \ late
          PROVE  r \in Request /\ r.caller = n /\ (r.type = "vote" => r.term <= currentTerm'[n])
      BY <1>1, <3>1, <3>2, PendingTerm
    <3>4. ASSUME NEW r \in late
          PROVE  LET s == [r EXCEPT !.term = m.term]
                 IN  s \in Request /\ s.caller = n /\ (s.type = "vote" => s.term <= currentTerm'[n])
      <4>1. r \in Request /\ r.caller = n
        BY <1>1, PendingTerm
      <4>2. r \in VoteRequest \/ r \in AppendRequest
        BY <4>1 DEF Request
      <4>3. [r EXCEPT !.term = m.term].caller = n /\ [r EXCEPT !.term = m.term].term = m.term
        BY <4>1, <4>2 DEF VoteRequest, AppendRequest
      <4>4. [r EXCEPT !.term = m.term] \in Request
        BY <1>1, <3>2, <4>1, RequestType
      <4> QED
        BY <3>2, <4>3, <4>4
    <3>5. \A r \in S : r \in Request /\ r.caller = n /\ (r.type = "vote" => r.term <= currentTerm'[n])
      BY <3>3, <3>4
    <3>6. CloseCalls(n, Abandon(S))
      BY <3>1
    <3> HIDE DEF S
    <3> QED
      BY <1>1, <3>5, <3>6, ClosedRound
  <2>2. CASE LoseElection(n) \/ WinElection(n) \/ EndBroadcast(n)
    <3>1. PICK kept \in SUBSET Pending(n) : CloseCalls(n, Abandon(kept))
      BY <2>2 DEF LoseElection, WinElection, EndBroadcast
    <3>2. currentTerm'[n] = currentTerm[n] /\ currentTerm[n] \in Nat
      BY <1>1, <2>2 DEF LoseElection, WinElection, EndBroadcast, diskVars, TypeOK
    <3>3. \A r \in kept : r \in Request /\ r.caller = n /\ (r.type = "vote" => r.term <= currentTerm'[n])
      BY <1>1, <3>2, PendingTerm
    <3> QED
      BY <1>1, <3>1, <3>3, ClosedRound
  <2> QED
    BY <2>1, <2>2
<1>4. \A m \in net' : m.live => m \in net
  BY <1>3 DEF Leftover
<1> QED
  BY <1>1, <1>2, <1>3, <1>4, CalmTake

LEMMA ElectionStartsCalm ==
    ASSUME TypeOK, OnTime, NEW n \in Node, StartElection(n)
    PROVE  OnTime'
<1> DEFINE asked == {[type |-> "vote", caller |-> n, peer |-> m, term |-> currentTerm[n] + 1,
                      lastIdx |-> Len(log[n]), lastTerm |-> LastTerm(n),
                      live |-> TRUE] : m \in Node \ {n}}
<1>1. net' = net \cup asked /\ UNCHANGED log
  BY DEF StartElection
<1>2. LastTerm(n) = 0
  BY LogLength, ZeroTermAt DEF LastTerm, OnTime
<1>3. \A a \in asked : /\ a.type = "vote" /\ a.lastTerm = 0
                       /\ a.caller = n /\ a.lastIdx = Len(log[n])
  BY <1>2
<1> HIDE DEF asked
<1> QED
  BY <1>1, <1>3 DEF OnTime, Punctual, Copied

LEMMA SentVal ==
    ASSUME NEW s \in Seq(Entry), NEW i \in 1..Len(s)
    PROVE  Sent(s)[i].val = s[i].val
<1>1. DOMAIN s = 1..Len(s) /\ s[i] \in Entry
  BY LenProperties, ElementOfSeq
<1> QED
  BY <1>1 DEF Sent, Entry

LEMMA SuffixVal ==
    ASSUME NEW s \in Seq(Entry), NEW k \in 0..Len(s)
    PROVE  /\ Len(Sent(SubSeq(s, k + 1, Len(s)))) = Len(s) - k
           /\ \A i \in 1..(Len(s) - k) :
                 Sent(SubSeq(s, k + 1, Len(s)))[i].val = s[k + i].val
<1> DEFINE t == SubSeq(s, k + 1, Len(s))
<1>1. Len(s) \in Nat
  BY LenProperties
<1>2. PICK j \in Nat : j = k + 1
  BY <1>1
<1>3. \A i \in j..Len(s) : s[i] \in Entry
  BY <1>1, <1>2, ElementOfSeq
<1>4. /\ SubSeq(s, j, Len(s)) \in Seq(Entry)
      /\ Len(SubSeq(s, j, Len(s))) = IF j <= Len(s) THEN Len(s) - j + 1 ELSE 0
      /\ \A i \in 1..(Len(s) - j + 1) : SubSeq(s, j, Len(s))[i] = s[j + i - 1]
  BY <1>1, <1>3, SubSeqProperties
<1>5. /\ t \in Seq(Entry) /\ Len(t) = Len(s) - k
      /\ \A i \in 1..(Len(s) - k) : t[i] = s[k + i]
  <2>1. t = SubSeq(s, j, Len(s))
    BY <1>2
  <2>2. Len(s) - j + 1 = Len(s) - k /\ \A i \in 1..(Len(s) - k) : j + i - 1 = k + i
    BY <1>1, <1>2
  <2>3. (IF j <= Len(s) THEN Len(s) - j + 1 ELSE 0) = Len(s) - k
    BY <1>1, <1>2
  <2> HIDE DEF t
  <2> QED
    BY <1>4, <2>1, <2>2, <2>3
<1> HIDE DEF t
<1>6. Len(Sent(t)) = Len(s) - k /\ \A i \in 1..(Len(s) - k) : Sent(t)[i].val = t[i].val
  BY <1>5, SentLength, SentVal
<1>7. \A i \in 1..(Len(s) - k) : Sent(t)[i].val = s[k + i].val
  BY <1>5, <1>6
<1> QED
  BY <1>6, <1>7 DEF t

LEMMA BroadcastStartsCalm ==
    ASSUME TypeOK, OnTime, NEW n \in Node, StartBroadcast(n)
    PROVE  OnTime'
<1> DEFINE ask(m) ==
      [type |-> "append", caller |-> n, peer |-> m, term |-> currentTerm[n],
       prev |-> PrevIndex(n, m), prevTerm |-> TermAt(log[n], PrevIndex(n, m)),
       entries |-> Sent(SubSeq(log[n], PrevIndex(n, m) + 1, Len(log[n]))),
       commit |-> commitIndex[n], live |-> TRUE]
           asked == {ask(m) : m \in Node \ {n}}
<1>1. net' = net \cup asked /\ UNCHANGED log
  BY DEF StartBroadcast, diskVars
<1>3. ASSUME NEW m \in Node \ {n}
      PROVE  /\ TermAt(log[n], PrevIndex(n, m)) = 0
             /\ ZeroTerms(Sent(SubSeq(log[n], PrevIndex(n, m) + 1, Len(log[n]))))
             /\ Copied(ask(m))
  <2>1. PrevIndex(n, m) \in 0..Len(log[n]) /\ Len(log[n]) \in Nat
        /\ log[n] \in Seq(Entry) /\ ZeroTerms(log[n])
    BY PrevIndexType, LogLength DEF OnTime
  <2>2. TermAt(log[n], PrevIndex(n, m)) = 0
    BY <2>1, ZeroTermAt
  <2>3. /\ PrevIndex(n, m) + 1 \in Nat /\ 1 <= PrevIndex(n, m) + 1
        /\ PrevIndex(n, m) + 1 <= Len(log[n]) + 1 /\ Len(log[n]) <= Len(log[n])
    BY <2>1
  <2>4. Copied(ask(m))
    <3>1. /\ ask(m).entries = Sent(SubSeq(log[n], PrevIndex(n, m) + 1, Len(log[n])))
          /\ ask(m).caller = n /\ ask(m).prev = PrevIndex(n, m)
      OBVIOUS
    <3>2. PICK k \in 0..Len(log[n]) : k = PrevIndex(n, m)
      BY <2>1
    <3>3. /\ Len(Sent(SubSeq(log[n], k + 1, Len(log[n])))) = Len(log[n]) - k
          /\ \A i \in 1..(Len(log[n]) - k) :
                Sent(SubSeq(log[n], k + 1, Len(log[n])))[i].val = log[n][k + i].val
      BY <2>1, SuffixVal
    <3> HIDE DEF ask
    <3> QED
      BY <3>1, <3>2, <3>3 DEF Copied
  <2> HIDE DEF ask
  <2> QED
    BY <2>1, <2>2, <2>3, <2>4, ZeroSubSeq, ZeroSent
<1>4. \A a \in asked : /\ a.live /\ a.type = "append" /\ a.prevTerm = 0
                       /\ ZeroTerms(a.entries) /\ Copied(a)
  <2> SUFFICES ASSUME NEW m \in Node \ {n}
               PROVE  /\ ask(m).live /\ ask(m).type = "append" /\ ask(m).prevTerm = 0
                      /\ ZeroTerms(ask(m).entries) /\ Copied(ask(m))
    BY Zenon
  <2>1. Copied(ask(m))
    BY <1>3
  <2> QED
    BY <1>3, <2>1
<1> HIDE DEF asked
<1> QED
  BY <1>1, <1>4 DEF OnTime, Punctual, Copied

LEMMA CommitCalm ==
    ASSUME TypeOK, ElectionInv, OnTime, NEW n \in Node, CalcCommit(n)
    PROVE  OnTime'
<1>1. UNCHANGED log /\ lock[n] = "append"
  BY DEF CalcCommit, diskVars
<1>2. PICK idx \in {matchIndex[n][m] : m \in Node} :
         \/ \E late \in SUBSET Pending(n) :
               net' = (net \ late) \cup {[m EXCEPT !.commit = idx] : m \in late}
         \/ net' = net
  BY DEF CalcCommit, commitVars
<1>3. CASE net' = net
  BY <1>1, <1>3, CalmTake
<1>4. ASSUME NEW late \in SUBSET Pending(n),
             net' = (net \ late) \cup {[m EXCEPT !.commit = idx] : m \in late}
      PROVE  OnTime'
  <2> DEFINE built == {[m EXCEPT !.commit = idx] : m \in late}
  <2>3. ASSUME NEW m \in late
        PROVE  LET b == [m EXCEPT !.commit = idx]
               IN  /\ b.live /\ b.type = "append" /\ b.prevTerm = 0
                   /\ ZeroTerms(b.entries) /\ Copied(b)
    <3>1. m \in net /\ m \in Request /\ m.caller = n /\ m.live
      BY PendingRequests DEF Pending, Calls
    <3>2. m.type # "vote"
      BY <1>1, <3>1 DEF ElectionInv, AsksInRound
    <3>3. m \in AppendRequest /\ m.type = "append"
      BY <3>1, <3>2 DEF Request, VoteRequest, AppendRequest
    <3>4. m.prevTerm = 0 /\ ZeroTerms(m.entries) /\ Copied(m)
      BY <3>1, <3>3 DEF OnTime, Punctual
    <3> QED
      BY <3>1, <3>3, <3>4 DEF AppendRequest, Copied
  <2>4. \A b \in built : /\ b.live /\ b.type = "append" /\ b.prevTerm = 0
                         /\ ZeroTerms(b.entries) /\ Copied(b)
    BY <2>3
  <2> HIDE DEF built
  <2>5. net' = (net \ late) \cup built
    BY <1>4 DEF built
  <2> QED
    BY <1>1, <2>4, <2>5 DEF OnTime, Punctual, Copied
<1> QED
  BY <1>2, <1>3, <1>4

LEMMA WholeSeq ==
    ASSUME NEW s \in Seq(Entry) PROVE SubSeq(s, 1, Len(s)) = s
<1>1. Len(s) \in Nat /\ Len(s) <= Len(s)
  BY LenProperties
<1>2. PICK t : t = SubSeq(s, 1, Len(s))
  OBVIOUS
<1>3. t \in Seq(Entry) /\ Len(t) = Len(s) /\ \A j \in 1..Len(s) : t[j] = s[j]
  BY <1>1, <1>2, PrefixOf
<1> QED
  BY <1>2, <1>3, SeqEqual

(* A request to append comes from a leader that is waiting for its answer, *)
(* and asks for the place after those that it has not stepped back over.   *)
LEMMA AppendFrom ==
    ASSUME Known, OnTime, NEW n \in Node, NEW m \in net,
           m.type = "append", m.peer = n, m.live
    PROVE  /\ m \in AppendRequest /\ m.prev \in Nat /\ m.term \in Nat
           /\ m.caller \in Node \ {n} /\ leading[m.caller]
           /\ lock[m.caller] \in {"append", "wait"}
           /\ m.term = currentTerm[m.caller]
           /\ ~Stale(n, m) => currentTerm[m.caller] >= currentTerm[n]
           /\ nextIndex[m.caller][n] = m.prev + 1
           /\ m.prev + Len(m.entries) = Len(log[m.caller])
           /\ Fits(n, m) <=> m.prev <= Len(log[n])
           /\ ~Fits(n, m) => Corrected(n, m) = log[n]
           /\ Fits(n, m) => Corrected(n, m) = SubSeq(log[n], 1, m.prev)
<1> USE DEF Known
<1>1. /\ m.caller \in Node /\ m.term \in Nat
      /\ m \in AppendRequest /\ m.prev \in Nat
  BY MessageParts
<1>2. OfItsRound(m) /\ BuiltFromLog(m)
  BY <1>1 DEF BroadcastInv, InRound, OfItsRound
<1>3. m.caller # n /\ leading[m.caller] /\ lock[m.caller] \in {"append", "wait"}
  BY <1>1, <1>2 DEF OfItsRound, LeadershipFlags
<1>4. m.term = currentTerm[m.caller] /\ (~Stale(n, m) => m.term >= currentTerm[n])
  <2>1. currentTerm[n] \in Nat
    BY DEF TypeOK
  <2> QED
    BY <1>1, <1>2, <2>1 DEF BuiltFromLog, Stale
<1>5. log[n] \in Seq(Entry) /\ Len(log[n]) \in Nat /\ ZeroTerms(log[n])
  BY LogLength DEF OnTime
<1>6. m.prevTerm = 0
  BY DEF OnTime, Punctual
<1>7. m.prev <= Len(log[n]) => TermAt(log[n], m.prev) = 0
  BY <1>1, <1>5, ZeroTermAt
<1>8. Fits(n, m) <=> m.prev <= Len(log[n])
  BY <1>6, <1>7 DEF Fits
<1>9. /\ ~Fits(n, m) => Corrected(n, m) = log[n]
      /\ Fits(n, m) => Corrected(n, m) = SubSeq(log[n], 1, m.prev)
  BY <1>1, <1>5, <1>8 DEF Corrected
<1> QED
  BY <1>1, <1>2, <1>3, <1>4, <1>8, <1>9 DEF BuiltFromLog

\* s is the log of n up to i, and from there that of l.
Joined(s, n, l, i) ==
    /\ s \in Seq(Entry) /\ ZeroTerms(s)
    /\ \A j \in 1..Len(s) : s[j].val = IF j <= i THEN log[n][j].val ELSE log[l][j].val

(* What is appended of a request, all of it or what a crash leaves         *)
(* (log.go:160-187): before it, the follower's entries; then the leader's. *)
LEMMA AppendLeaves ==
    ASSUME Known, OnTime, NEW n \in Node, NEW m \in net,
           m.type = "append", m.peer = n, m.live, Fits(n, m), NEW k \in 0..Len(m.entries)
    PROVE  /\ Joined(Corrected(n, m) \o SubSeq(m.entries, 1, k), n, m.caller, m.prev)
           /\ Len(Corrected(n, m) \o SubSeq(m.entries, 1, k)) = m.prev + k
           /\ Joined(Corrected(n, m), n, m.caller, m.prev)
           /\ Len(Corrected(n, m)) = m.prev
<1> DEFINE s == SubSeq(log[n], 1, m.prev)
           t == SubSeq(m.entries, 1, k)
<1>1. /\ m \in AppendRequest /\ m.prev \in Nat /\ m.caller \in Node
      /\ m.prev + Len(m.entries) = Len(log[m.caller])
      /\ m.prev <= Len(log[n]) /\ Corrected(n, m) = s
  BY AppendFrom
<1>2. log[n] \in Seq(Entry) /\ Len(log[n]) \in Nat /\ ZeroTerms(log[n])
  BY LogLength DEF Known, OnTime
<1>3. /\ m.entries \in Seq(Entry) /\ Len(m.entries) \in Nat
      /\ ZeroTerms(m.entries) /\ Copied(m)
  BY <1>1, LenProperties DEF AppendRequest, OnTime, Punctual
<1>4. /\ s \in Seq(Entry) /\ ZeroTerms(s) /\ Len(s) = m.prev
      /\ \A j \in 1..m.prev : s[j] = log[n][j]
  BY <1>1, <1>2, PrefixOf
<1>5. /\ t \in Seq(Entry) /\ ZeroTerms(t) /\ Len(t) = k
      /\ \A j \in 1..k : t[j] = m.entries[j]
  <2>1. k \in Nat /\ k <= Len(m.entries)
    BY <1>3
  <2> QED
    BY <1>3, <2>1, PrefixOf
<1> HIDE DEF s, t
<1>6. /\ s \o t \in Seq(Entry) /\ Len(s \o t) = m.prev + k
      /\ \A j \in 1..(m.prev + k) : (s \o t)[j] = IF j <= m.prev THEN s[j] ELSE t[j - m.prev]
  <2>1. /\ s \o t \in Seq(Entry) /\ Len(s \o t) = Len(s) + Len(t)
        /\ \A j \in 1..(Len(s) + Len(t)) :
              (s \o t)[j] = IF j <= Len(s) THEN s[j] ELSE t[j - Len(s)]
    <3>1. s \in Seq(Entry) /\ t \in Seq(Entry)
      BY <1>4, <1>5
    <3> QED
      BY <3>1, ConcatProperties
  <2>2. Len(s) = m.prev /\ Len(t) = k
    BY <1>4, <1>5
  <2> QED
    BY <2>1, <2>2, Zenon
<1>7. ZeroTerms(s \o t)
  BY <1>4, <1>5, ZeroConcat
<1>8. ASSUME NEW j \in 1..(m.prev + k)
      PROVE  (s \o t)[j].val = IF j <= m.prev THEN log[n][j].val ELSE log[m.caller][j].val
  <2>1. CASE j <= m.prev
    <3>1. j \in 1..m.prev
      BY <1>1, <2>1
    <3> QED
      BY <1>4, <1>6, <2>1, <3>1
  <2>2. CASE ~(j <= m.prev)
    <3>1. PICK i \in 1..k : i = j - m.prev
      BY <1>1, <1>3, <2>2
    <3>2. i \in 1..Len(m.entries) /\ m.prev + i = j
      BY <1>1, <1>3, <3>1
    <3>3. m.entries[i].val = log[m.caller][j].val
      BY <1>3, <3>2 DEF Copied
    <3> QED
      BY <1>5, <1>6, <2>2, <3>1, <3>3
  <2> QED
    BY <2>1, <2>2
<1>9. \A j \in 1..m.prev : j <= m.prev
  BY <1>1
<1>10. Joined(s \o t, n, m.caller, m.prev)
  BY <1>6, <1>7, <1>8, Zenon DEF Joined
<1>11. Joined(s, n, m.caller, m.prev)
  BY <1>4, <1>9 DEF Joined
<1> QED
  BY <1>1, <1>4, <1>6, <1>10, <1>11 DEF s, t

LEMMA AllAppended ==
    ASSUME Known, OnTime, NEW n \in Node, NEW m \in net,
           m.type = "append", m.peer = n, m.live, Fits(n, m)
    PROVE  /\ Joined(Corrected(n, m) \o m.entries, n, m.caller, m.prev)
           /\ Len(Corrected(n, m) \o m.entries) = Len(log[m.caller])
<1>1. m.entries \in Seq(Entry) /\ m.prev + Len(m.entries) = Len(log[m.caller])
  BY AppendFrom DEF AppendRequest
<1>2. SubSeq(m.entries, 1, Len(m.entries)) = m.entries
  BY <1>1, WholeSeq
<1>3. Len(m.entries) \in 0..Len(m.entries)
  BY <1>1, LenProperties
<1> QED
  BY <1>1, <1>2, <1>3, AppendLeaves

LEMMA FollowCalm ==
    ASSUME Known, OnTime, Undisturbed', NEW n \in Node,
           RejectMismatch(n) \/ AcceptAppend(n) \/ PanicInAppend(n)
    PROVE  OnTime'
<1>1. PICK m \in net :
         /\ m.type = "append" /\ m.peer = n /\ ~Stale(n, m) /\ m.live
         /\ \/ ~Fits(n, m) /\ log' = [log EXCEPT ![n] = Corrected(n, m)]
            \/ Fits(n, m) /\ log' = [log EXCEPT ![n] = Corrected(n, m) \o m.entries]
         /\ \/ net' = net \ {m}
            \/ \E t, ok : net' = Answered(m, AppendAnswer(m, t, ok))
  BY DEF RejectMismatch, AcceptAppend, PanicInAppend, Undisturbed
<1>2. lock[n] = "free"
  BY DEF RejectMismatch, AcceptAppend, PanicInAppend
<1>3. \A p \in Node \ {n} : log'[p] = log[p]
  BY <1>1 DEF Known, TypeOK
<1>4. ZeroTerms(log'[n])
  <2>1. \/ log'[n] = Corrected(n, m) /\ ~Fits(n, m)
        \/ log'[n] = Corrected(n, m) \o m.entries /\ Fits(n, m)
    BY <1>1 DEF Known, TypeOK
  <2>2. ZeroTerms(log[n])
    BY DEF OnTime
  <2>3. ~Fits(n, m) => Corrected(n, m) = log[n]
    BY <1>1, AppendFrom
  <2>4. Fits(n, m) => ZeroTerms(Corrected(n, m) \o m.entries)
    BY <1>1, AllAppended DEF Joined
  <2> QED
    BY <2>1, <2>2, <2>3, <2>4
<1>5. \A a \in net' : a \in net \/ a.type \in {"voted", "appended"}
  BY <1>1, AnswersCalm
<1>6. \A a \in net' : a.live /\ a \in net => a.caller # n
  BY <1>2, FreeIsSilent
<1> QED
  BY <1>3, <1>4, <1>5, <1>6, CalmStep DEF Known

(* What a crash inside HandleAppendEntries leaves of the log.              *)
LEMMA Stored ==
    ASSUME Known, OnTime, NEW n \in Node, NEW m \in net,
           m.type = "append", m.peer = n, m.live,
           NEW s \in {log[n], Corrected(n, m)} \cup
                     {Corrected(n, m) \o SubSeq(m.entries, 1, k) :
                        k \in IF Fits(n, m) THEN 0..Len(m.entries) ELSE {}}
    PROVE  \/ s = log[n]
           \/ /\ m.prev <= Len(log[n])
              /\ Len(s) \in m.prev..Len(log[m.caller])
              /\ Joined(s, n, m.caller, m.prev)
<1>1. /\ m.entries \in Seq(Entry) /\ Len(m.entries) \in Nat /\ m.prev \in Nat
      /\ m.prev + Len(m.entries) = Len(log[m.caller])
      /\ Fits(n, m) <=> m.prev <= Len(log[n])
      /\ ~Fits(n, m) => Corrected(n, m) = log[n]
  BY AppendFrom, LenProperties DEF AppendRequest
<1>2. CASE ~Fits(n, m)
  BY <1>1, <1>2
<1>3. CASE Fits(n, m)
  <2>1. ASSUME NEW k \in 0..Len(m.entries), s = Corrected(n, m) \o SubSeq(m.entries, 1, k)
        PROVE  Len(s) \in m.prev..Len(log[m.caller]) /\ Joined(s, n, m.caller, m.prev)
    <3>1. m.prev + k \in m.prev..(m.prev + Len(m.entries))
      BY <1>1
    <3> QED
      BY <1>1, <1>3, <2>1, <3>1, AppendLeaves
  <2>2. ASSUME s = Corrected(n, m)
        PROVE  Len(s) \in m.prev..Len(log[m.caller]) /\ Joined(s, n, m.caller, m.prev)
    <3>1. m.prev \in m.prev..Len(log[m.caller]) /\ 0 \in 0..Len(m.entries)
      BY <1>1
    <3> QED
      BY <1>3, <2>2, <3>1, AppendLeaves
  <2> QED
    BY <1>1, <1>3, <2>1, <2>2
<1> QED
  BY <1>2, <1>3

\* The node has the operations that it had.
Keeps(p) ==
    /\ Len(log'[p]) = Len(log[p])
    /\ \A i \in 1..Len(log[p]) : log'[p][i].val = log[p][i].val

(* A process that starts again has the log that the disk held, without the *)
(* channels; nothing it sent before is answered.                           *)
LEMMA FailureLeaves ==
    ASSUME Known, OnTime, Undisturbed', NEW n \in Node, Failure(n)
    PROVE  /\ \A m \in net' : m \in net \/ Leftover(m, n)
           /\ \A m \in net' : m.live => m.caller # n
           /\ \A p \in Node \ {n} : log'[p] = log[p]
           /\ ZeroTerms(log'[n])
           /\ \/ Keeps(n)
              \/ \E m \in net :
                   /\ m.type = "append" /\ m.peer = n /\ ~Stale(n, m) /\ m.live
                   /\ currentTerm' = [currentTerm EXCEPT ![n] = m.term]
                   /\ m.prev <= Len(log[n])
                   /\ Len(log'[n]) \in m.prev..Len(log[m.caller])
                   /\ Joined(log'[n], n, m.caller, m.prev)
<1>1. log[n] \in Seq(Entry) /\ ZeroTerms(log[n]) /\ TypeOK
  BY LogLength DEF Known, OnTime
<1>2. CASE log' = [log EXCEPT ![n] = Sent(@)]
  <2>1. log'[n] = Sent(log[n]) /\ \A p \in Node \ {n} : log'[p] = log[p]
    BY <1>1, <1>2 DEF TypeOK
  <2>2. ZeroTerms(log'[n]) /\ Keeps(n)
    BY <1>1, <2>1, ZeroSent, SentLength, SentVal DEF Keeps
  <2>3. /\ \A m \in net' : m \in net \/ Leftover(m, n)
        /\ \A m \in net' : m.live => m.caller # n
    <3>1. CASE Crash(n)
      <4>1. PICK kept \in SUBSET Pending(n) : CloseCalls(n, Abandon(kept))
        BY <3>1 DEF Crash
      <4>2. currentTerm' = currentTerm /\ currentTerm[n] \in Nat
        BY <1>1, <3>1 DEF Crash, TypeOK
      <4>3. \A r \in kept : r \in Request /\ r.caller = n /\ (r.type = "vote" => r.term <= currentTerm'[n])
        BY <1>1, <4>2, PendingTerm DEF Known
      <4>4. \A m \in net' : m \in net \ Calls(n) \/ Leftover(m, n)
        BY <1>1, <4>1, <4>3, ClosedRound
      <4> QED
        BY <4>4 DEF Calls, Leftover
    <3>2. CASE CrashInVote(n) \/ CrashInAppend(n)
      <4>1. lock[n] = "free" /\ net' \subseteq net
        BY <3>2 DEF CrashInVote, CrashInAppend
      <4> QED
        BY <4>1, FreeIsSilent
    <3> QED
      BY <3>1, <3>2 DEF Failure
  <2> QED
    BY <2>1, <2>2, <2>3
<1>3. CASE CrashInAppend(n)
  <2>1. PICK m \in net :
           /\ m.type = "append" /\ m.peer = n /\ ~Stale(n, m) /\ m.live
           /\ currentTerm' = [currentTerm EXCEPT ![n] = m.term]
           /\ \E stored \in {log[n], Corrected(n, m)} \cup
                   {Corrected(n, m) \o SubSeq(m.entries, 1, k) :
                      k \in IF Fits(n, m) THEN 0..Len(m.entries) ELSE {}} :
                log' = [log EXCEPT ![n] = Sent(stored)]
           /\ net' = net \ {m}
    BY <1>3 DEF CrashInAppend, Undisturbed
  <2>2. PICK s \in {log[n], Corrected(n, m)} \cup
                   {Corrected(n, m) \o SubSeq(m.entries, 1, k) :
                      k \in IF Fits(n, m) THEN 0..Len(m.entries) ELSE {}} :
           log' = [log EXCEPT ![n] = Sent(s)]
    BY <2>1
  <2>3. CASE s = log[n]
    BY <1>2, <2>2, <2>3
  <2>4. CASE s # log[n]
    <3>1. /\ m.prev <= Len(log[n]) /\ Len(s) \in m.prev..Len(log[m.caller])
          /\ Joined(s, n, m.caller, m.prev)
      BY <2>1, <2>4, Stored
    <3>2. log'[n] = Sent(s) /\ \A p \in Node \ {n} : log'[p] = log[p]
      BY <1>1, <2>2 DEF TypeOK
    <3>3. s \in Seq(Entry) /\ ZeroTerms(s)
      BY <3>1 DEF Joined
    <3>4. /\ log'[n] \in Seq(Entry) /\ ZeroTerms(log'[n]) /\ Len(log'[n]) = Len(s)
          /\ \A i \in 1..Len(s) : log'[n][i].val = s[i].val
      BY <3>2, <3>3, SentType, ZeroSent, SentLength, SentVal
    <3>5. Joined(log'[n], n, m.caller, m.prev)
      BY <3>1, <3>4 DEF Joined
    <3>6. net' \subseteq net /\ \A a \in net' : a.live => a.caller # n
      BY <1>3, <2>1, FreeIsSilent DEF CrashInAppend
    <3> QED
      BY <2>1, <3>1, <3>2, <3>4, <3>5, <3>6
  <2> QED
    BY <2>3, <2>4
<1> QED
  BY <1>2, <1>3 DEF Failure, Crash, CrashInVote

LEMMA FailureCalm ==
    ASSUME Known, OnTime, Undisturbed', NEW n \in Node, Failure(n)
    PROVE  OnTime'
<1>1. /\ \A m \in net' : m \in net \/ Leftover(m, n)
      /\ \A m \in net' : m.live => m.caller # n
      /\ \A p \in Node \ {n} : log'[p] = log[p]
      /\ ZeroTerms(log'[n])
  BY FailureLeaves
<1>2. \A m \in net' : m.live => m \in net
  BY <1>1 DEF Leftover
<1> QED
  BY <1>1, <1>2, CalmStep DEF Known

LEMMA OnTimeNext ==
    ASSUME Known, OnTime, Undisturbed', [Next]_vars
    PROVE  OnTime'
<1> USE DEF Known
<1>1. CASE UNCHANGED vars
  BY <1>1, CalmTake DEF vars, diskVars
<1>2. ASSUME NEW n \in Node, Election(n) PROVE OnTime'
  <2>1. CASE TimerFires(n) \/ CheckAlreadyLeader(n) \/ CountVote(n)
    BY <2>1, CalmTake DEF TimerFires, CheckAlreadyLeader, CountVote, diskVars
  <2>2. CASE HandleRequestVote(n)
    <3>1. PICK m \in net : HandleRequestVote(n)!2!(m)
      BY <2>2 DEF HandleRequestVote
    <3> DEFINE grant == /\ m.term >= currentTerm[n]
                        /\ Voted(n, m) = Nil
                        /\ UpToDate(n, m)
    <3>2. net' = Answered(m, VoteAnswer(m, currentTerm'[n], grant))
      BY <3>1
    <3> HIDE DEF grant
    <3>3. UNCHANGED log /\ ZeroTerms(log[n])
      BY <2>2 DEF HandleRequestVote, OnTime
    <3> QED
      BY <3>2, <3>3, AnswersCalm, CalmStep
  <2> QED
    BY <1>2, <2>1, <2>2, ElectionStartsCalm, RoundsEndCalm DEF Election
<1>3. ASSUME NEW n \in Node, Replication(n) PROVE OnTime'
  <2>1. CASE RejectStaleAppend(n)
    <3>1. PICK m \in net : net' = Answered(m, AppendAnswer(m, currentTerm[n], FALSE))
      BY <2>1 DEF RejectStaleAppend
    <3>2. UNCHANGED log /\ ZeroTerms(log[n])
      BY <2>1 DEF RejectStaleAppend, diskVars, OnTime
    <3> QED
      BY <3>1, <3>2, AnswersCalm, CalmStep
  <2>2. CASE HandleAppendAnswer(n)
    BY <2>2, CalmTake DEF HandleAppendAnswer, diskVars
  <2> QED
    BY <1>3, <2>1, <2>2, FollowCalm, BroadcastStartsCalm, CommitCalm, RoundsEndCalm
    DEF Replication
<1>4. ASSUME NEW n \in Node, NEW v \in Value, CheckLeader(n, v) PROVE OnTime'
  BY <1>4, CalmTake DEF CheckLeader, diskVars
<1>5. ASSUME NEW n \in Node, NEW v \in Value, ApplyRequest(n, v) PROVE OnTime'
  <2>1. log' = [log EXCEPT ![n] = Append(@, NewEntry(v))] /\ net' = net /\ lock[n] = "free"
    BY <1>5 DEF ApplyRequest
  <2>2. log[n] \in Seq(Entry) /\ Len(log[n]) \in Nat /\ ZeroTerms(log[n])
    BY LogLength DEF OnTime
  <2>3. NewEntry(v) \in Entry /\ NewEntry(v).term = 0
    BY DEF NewEntry, Entry
  <2>4. ZeroTerms(Append(log[n], NewEntry(v)))
    BY <2>2, <2>3, AppendProperties DEF ZeroTerms
  <2>5. log'[n] = Append(log[n], NewEntry(v)) /\ \A p \in Node \ {n} : log'[p] = log[p]
    BY <2>1 DEF TypeOK
  <2>6. \A m \in net' : m \in net /\ (m.live => m.caller # n)
    BY <2>1, FreeIsSilent
  <2> QED
    BY <2>4, <2>5, <2>6, CalmStep
<1> QED
  BY <1>1, <1>2, <1>3, <1>4, <1>5, FailureCalm DEF Next, IdleTick, Client

-----------------------------------------------------------------------------
(* What a step does to terms, lengths, leaders, votes and counts: all that *)
(* the rest of the argument knows of it.                                   *)

\* A request for a vote whose election is over.
Outlived(m) == m.type = "vote" /\ ~m.live

\* A leader leads the term it won; a candidate is ahead of all its wins, and
\* of the requests that are left of its elections.
LeadersWon ==
    /\ \A p \in Node : /\ leading[p] => <<currentTerm[p], p>> \in wins
                       /\ timer[p] = "campaign" => ~leading[p]
                       /\ lock[p] = "vote" => timer[p] = "campaign"
    /\ \A w \in wins : /\ w[1] <= currentTerm[w[2]]
                       /\ lock[w[2]] = "vote" => w[1] < currentTerm[w[2]]
    /\ \A v \in votes : v[2] <= currentTerm[v[3]]
    /\ \A m \in net : Outlived(m) => m.term <= currentTerm[m.caller]
                                    /\ (lock[m.caller] = "vote" => m.term < currentTerm[m.caller])

Good == Known /\ OnTime /\ LeadersWon

\* q has answered n that it appended, or that its log is shorter.
Appended(a, q, n) == a.type = "appended" /\ a.caller = n /\ a.peer = q
Answers(q, n) == \E a \in net : Appended(a, q, n) /\ a.ok
Refuses(q, n) == \E a \in net : Appended(a, q, n) /\ ~a.ok /\ a.term <= currentTerm[n]
\* n waits for q to handle its request.
Asks(n, q) == \E m \in net : m.type = "append" /\ m.live /\ m.caller = n /\ m.peer = q

\* p is left alone, but for its mutex's other fields and what it applies.
Rests(p) ==
    /\ currentTerm'[p] = currentTerm[p] /\ log'[p] = log[p] /\ lock'[p] = lock[p]
    /\ leading'[p] = leading[p] /\ timer'[p] = timer[p]
    /\ matchIndex'[p] = matchIndex[p] /\ nextIndex'[p] = nextIndex[p]

\* A client's operation is appended between two rounds.
Grows(p) ==
    /\ lock[p] = "free"
    /\ \E v \in checked[p] : v \notin checked'[p] /\ log'[p][Len(log[p]) + 1].val = v
    /\ Len(log'[p]) = Len(log[p]) + 1
    /\ \A i \in 1..Len(log[p]) : log'[p][i].val = log[p][i].val

\* p follows l: its log up to where l asks it to append stays, and some of
\* what l has from there on comes next, all of it unless p crashes.
TakesOver(p, l) ==
    /\ l # p /\ leading[l] /\ Asks(l, p) /\ Rests(l)
    /\ currentTerm[l] >= currentTerm[p] /\ currentTerm'[p] = currentTerm[l]
    /\ ~leading'[p] /\ lock'[p] # "vote"
    /\ nextIndex[l][p] - 1 <= Len(log[p])
    /\ Len(log'[p]) \in (nextIndex[l][p] - 1)..Len(log[l])
    /\ Joined(log'[p], p, l, nextIndex[l][p] - 1)

\* An election of p begins: in its term nobody but p has voted for p.
Campaigns(p) ==
    /\ currentTerm'[p] > currentTerm[p]
    /\ \A v \in votes' : v[2] = currentTerm'[p] /\ v[3] = p => v[1] = p

Won(p) ==
    /\ lock[p] = "vote" /\ Majority(yes[p])
    /\ <<currentTerm[p], p>> \in wins'

\* What leader p counts for q is what it was, or starts with its victory, or
\* is what an answer of q says.
SameCount(p, q) ==
    leading[p] /\ matchIndex'[p][q] = matchIndex[p][q] /\ nextIndex'[p][q] = nextIndex[p][q]
FirstCount(p, q) ==
    Won(p) /\ matchIndex'[p][q] = 0 /\ nextIndex'[p][q] = Len(log[p]) + 1
NewCount(p, q) ==
    \E a \in net \ net' :
        /\ Appended(a, q, p) /\ a.term <= currentTerm[p] /\ leading[p]
        /\ \/ a.ok /\ matchIndex'[p][q] = Len(log[p]) /\ nextIndex'[p][q] = Len(log[p]) + 1
           \/ /\ ~a.ok /\ matchIndex'[p][q] = matchIndex[p][q]
              /\ nextIndex'[p][q] = nextIndex[p][q] - 1
Counts(p, q) == SameCount(p, q) \/ FirstCount(p, q) \/ NewCount(p, q)

Moves(p) ==
    /\ Keeps(p) \/ Grows(p) \/ \E l \in Node : TakesOver(p, l)
    /\ leading'[p] => /\ currentTerm'[p] = currentTerm[p]
                      /\ leading[p] \/ Won(p)
                      /\ timer'[p] # "campaign"
                      /\ \A q \in Node \ {p} : Counts(p, q)
    /\ lock'[p] = "vote" => /\ Keeps(p)
                            /\ timer'[p] = "campaign"
                            /\ \/ lock[p] = "vote" /\ currentTerm'[p] = currentTerm[p]
                               \/ Campaigns(p)

\* A new vote that the candidate still waits for is its own or that of a log
\* that is not longer.
NewVote(v) ==
    /\ v[2] <= currentTerm'[v[3]]
    /\ lock'[v[3]] = "vote" /\ v[2] = currentTerm'[v[3]]
          => v[1] = v[3] \/ Len(log[v[1]]) <= Len(log[v[3]])

\* The election that asked for a vote is over.
GivenUp(m) == m.term <= currentTerm'[m.caller] /\ lock'[m.caller] # "vote"

\* Who answers that it appended has the leader's term and length now; who
\* refuses is of a newer term, or its log ends before what it was asked for.
NewAnswer(a) ==
    TakesOver(a.peer, a.caller) /\ Len(log'[a.peer]) = Len(log[a.caller])
NewRefusal(a) ==
    /\ a.peer # a.caller /\ leading[a.caller] /\ lock[a.caller] # "vote"
    /\ Asks(a.caller, a.peer) /\ Rests(a.caller)
    /\ \/ a.term > currentTerm[a.caller]
       \/ /\ currentTerm[a.caller] >= currentTerm[a.peer]
          /\ currentTerm'[a.peer] = currentTerm[a.caller]
          /\ Keeps(a.peer) /\ Len(log[a.peer]) < nextIndex[a.caller][a.peer] - 1
Comes(a) == IF a.ok THEN NewAnswer(a) ELSE NewRefusal(a)

StepFacts ==
    /\ \A p \in Node : Sticks(p) /\ Moves(p)
    /\ \A v \in votes' : v \in votes \/ NewVote(v)
    /\ wins \subseteq wins'
    /\ \A w \in wins' : \/ w \in wins
                        \/ w[1] = currentTerm'[w[2]] /\ lock'[w[2]] # "vote"
    /\ \A a \in net' : a.type = "appended" => a \in net \/ Comes(a)
    /\ \A m \in net' : Outlived(m) => m \in net \/ GivenUp(m)

LEMMA RestMoves ==
    ASSUME Good, NEW p \in Node, Rests(p) PROVE Moves(p)
<1>1. Keeps(p)
  BY DEF Rests, Keeps
<1>2. leading'[p] => leading[p] /\ currentTerm'[p] = currentTerm[p] /\ timer'[p] # "campaign"
  BY DEF Good, LeadersWon, Rests
<1>3. lock'[p] = "vote" => /\ lock[p] = "vote" /\ currentTerm'[p] = currentTerm[p]
                           /\ timer'[p] = "campaign"
  BY DEF Good, LeadersWon, Rests
<1>4. leading'[p] => \A q \in Node \ {p} : Counts(p, q)
  BY <1>2 DEF Rests, Counts, SameCount
<1> QED
  BY <1>1, <1>2, <1>3, <1>4 DEF Moves

(* Late requests for votes are those of an election that ends.             *)
LEMMA OutlivedCome ==
    ASSUME Known, OnTime, Undisturbed', [Next]_vars
    PROVE  \A m \in net' : Outlived(m) => m \in net \/ GivenUp(m)
<1> SUFFICES ASSUME NEW m \in net', Outlived(m), m \notin net PROVE GivenUp(m)
  OBVIOUS
<1>1. TypeOK /\ ElectionInv
  BY DEF Known
<1>2. ASSUME NEW n \in Node, Leftover(m, n), lock'[n] = "free" PROVE GivenUp(m)
  BY <1>2 DEF Leftover, GivenUp, Outlived
<1>3. ASSUME NEW k \in net, NEW a, net' = Answered(k, a), a.type \in {"voted", "appended"}
      PROVE  FALSE
  BY <1>3 DEF Answered, Outlived
<1>4. ~m.live /\ m.type = "vote"
  BY DEF Outlived
<1>5. \A k, t, ok : /\ VoteAnswer(k, t, ok).type = "voted"
                    /\ AppendAnswer(k, t, ok).type = "appended"
  BY DEF VoteAnswer, AppendAnswer
<1>6. CASE UNCHANGED vars
  BY <1>6 DEF vars
<1>7. ASSUME NEW n \in Node, Election(n) PROVE GivenUp(m)
  <2>1. CASE TimerFires(n) \/ CheckAlreadyLeader(n) \/ CountVote(n)
    BY <2>1 DEF TimerFires, CheckAlreadyLeader, CountVote
  <2>2. CASE StartElection(n)
    BY <1>4, <2>2 DEF StartElection
  <2>3. CASE StepDown(n) \/ LoseElection(n) \/ WinElection(n)
    BY <1>2, <2>3, RoundsEndCalm
  <2>4. CASE HandleRequestVote(n)
    <3>1. PICK k \in net : HandleRequestVote(n)!2!(k)
      BY <2>4 DEF HandleRequestVote
    <3>2. \E ok : net' = Answered(k, VoteAnswer(k, currentTerm'[n], ok))
      BY <3>1
    <3> QED
      BY <1>3, <1>5, <3>2
  <2> QED
    BY <1>7, <2>1, <2>2, <2>3, <2>4 DEF Election
<1>8. ASSUME NEW n \in Node, Replication(n) PROVE GivenUp(m)
  <2>1. CASE RejectStaleAppend(n) \/ RejectMismatch(n) \/ AcceptAppend(n) \/ PanicInAppend(n)
    <3>1. PICK k \in net : \/ \E t, ok : net' = Answered(k, AppendAnswer(k, t, ok))
                           \/ net' = net \ {k}
      BY <2>1 DEF RejectStaleAppend, RejectMismatch, AcceptAppend, PanicInAppend
    <3> QED
      BY <1>3, <1>5, <3>1
  <2>2. CASE StartBroadcast(n)
    BY <1>4, <2>2 DEF StartBroadcast
  <2>3. CASE CalcCommit(n)
    <3>1. PICK idx \in {matchIndex[n][p] : p \in Node} :
             \/ \E late \in SUBSET Pending(n) :
                   net' = (net \ late) \cup {[r EXCEPT !.commit = idx] : r \in late}
             \/ net' = net
      BY <2>3 DEF CalcCommit, commitVars
    <3>2. PICK r \in Pending(n) : m = [r EXCEPT !.commit = idx]
      BY <3>1
    <3>3. r.live /\ (r \in VoteRequest \/ r \in AppendRequest)
      BY <1>1, PendingRequests DEF Pending, Calls, Request
    <3>4. m.live = r.live
      BY <3>2, <3>3 DEF VoteRequest, AppendRequest
    <3> QED
      BY <1>4, <3>3, <3>4
  <2>4. CASE HandleAppendAnswer(n)
    BY <2>4 DEF HandleAppendAnswer
  <2>5. CASE EndBroadcast(n)
    BY <1>2, <2>5, RoundsEndCalm
  <2> QED
    BY <1>8, <2>1, <2>2, <2>3, <2>4, <2>5 DEF Replication
<1>9. ASSUME NEW n \in Node, Client(n) PROVE GivenUp(m)
  BY <1>9 DEF Client, CheckLeader, ApplyRequest
<1>10. ASSUME NEW n \in Node, Failure(n) PROVE GivenUp(m)
  <2>1. lock'[n] = "free"
    BY <1>1, <1>10 DEF Failure, Crash, CrashInVote, CrashInAppend, Reboot, Unlock, TypeOK
  <2> QED
    BY <1>2, <1>10, <2>1, FailureLeaves
<1> QED
  BY <1>6, <1>7, <1>8, <1>9, <1>10 DEF Next, IdleTick

(* A step of one node: what is left to say is how that node moves.         *)
LEMMA OneMoves ==
    ASSUME Good, Undisturbed', [Next]_vars, NEW n \in Node, \A p \in Node \ {n} : Rests(p), Moves(n),
           \A v \in votes' : v \in votes \/ NewVote(v),
           \/ wins' = wins
           \/ wins' = wins \cup {<<currentTerm'[n], n>>} /\ lock'[n] # "vote",
           \A a \in net' : a.type = "appended" => a \in net \/ Comes(a)
    PROVE  StepFacts
<1>1. \A p \in Node : Sticks(p)
  BY PStateNext DEF Good, Known
<1>2. \A p \in Node : Moves(p)
  BY RestMoves
<1>3. \A m \in net' : Outlived(m) => m \in net \/ GivenUp(m)
  BY OutlivedCome DEF Good
<1> QED
  BY <1>1, <1>2, <1>3 DEF StepFacts

(* ... and nothing is to say of one that keeps term, log, leaderState and  *)
(* votes, and begins no election.                                          *)
LEMMA QuietMoves ==
    ASSUME Good, Undisturbed', [Next]_vars, NEW n \in Node, \A p \in Node \ {n} : Rests(p),
           UNCHANGED <<currentTerm, log, leading, votes, wins>>,
           lock'[n] = "vote" => lock[n] = "vote" /\ timer'[n] = timer[n],
           timer'[n] = "campaign" => ~leading[n],
           matchIndex'[n] = matchIndex[n], nextIndex'[n] = nextIndex[n],
           \A a \in net' : a.type = "appended" => a \in net \/ Comes(a)
    PROVE  StepFacts
<1>1. Keeps(n)
  BY DEF Keeps
<1>2. leading'[n] => leading[n] /\ currentTerm'[n] = currentTerm[n] /\ timer'[n] # "campaign"
  OBVIOUS
<1>3. lock'[n] = "vote" => /\ lock[n] = "vote" /\ currentTerm'[n] = currentTerm[n]
                           /\ timer'[n] = "campaign"
  BY DEF Good, LeadersWon
<1>4. leading'[n] => \A q \in Node \ {n} : Counts(n, q)
  BY <1>2 DEF Counts, SameCount
<1>5. Moves(n)
  BY <1>1, <1>2, <1>3, <1>4 DEF Moves
<1> QED
  BY <1>5, OneMoves

LEMMA QuietFacts ==
    ASSUME Good, Undisturbed', [Next]_vars, NEW n \in Node,
           \/ TimerFires(n) \/ CheckAlreadyLeader(n) \/ CountVote(n)
           \/ LoseElection(n) \/ RejectStaleAppend(n) \/ StartBroadcast(n)
           \/ CalcCommit(n) \/ EndBroadcast(n) \/ \E v \in Value : CheckLeader(n, v)
    PROVE  StepFacts
<1> USE DEF Rests, diskVars, leaderVars, roundVars, timerVars, history
<1>1. TypeOK /\ (timer[n] = "campaign" => ~leading[n])
  BY DEF Good, Known, LeadersWon
<1>2. CASE TimerFires(n)
  <2>1. \A p \in Node \ {n} : Rests(p)
    BY <1>1, <1>2 DEF TimerFires, TypeOK
  <2>2. timer'[n] = "campaign" => ~leading[n]
    BY <1>1, <1>2 DEF TimerFires, TypeOK
  <2>3. lock'[n] = "vote" => lock[n] = "vote" /\ timer'[n] = timer[n]
    BY <1>2 DEF TimerFires, Good, LeadersWon
  <2> QED
    BY <1>2, <2>1, <2>2, <2>3, QuietMoves DEF TimerFires
<1>3. CASE CheckAlreadyLeader(n)
  <2>1. \A p \in Node \ {n} : Rests(p)
    BY <1>1, <1>3 DEF CheckAlreadyLeader, TypeOK
  <2>2. timer'[n] = "campaign" => ~leading[n]
    BY <1>1, <1>3 DEF CheckAlreadyLeader, TypeOK
  <2> QED
    BY <1>3, <2>1, <2>2, QuietMoves DEF CheckAlreadyLeader
<1>4. CASE CountVote(n)
  BY <1>1, <1>4, QuietMoves DEF CountVote
<1>5. CASE LoseElection(n)
  <2>1. \A a \in net' : a.type = "appended" => a \in net
    BY <1>5, RoundsEndCalm DEF Good, Leftover
  <2>2. \A p \in Node \ {n} : Rests(p)
    BY <1>1, <1>5 DEF LoseElection, Unlock, TypeOK
  <2>3. lock'[n] = "free" /\ timer'[n] = "armed"
    BY <1>1, <1>5 DEF LoseElection, Unlock, TypeOK
  <2> QED
    BY <1>5, <2>1, <2>2, <2>3, QuietMoves DEF LoseElection
<1>6. CASE RejectStaleAppend(n)
  <2>1. PICK m \in net : /\ m.type = "append" /\ m.peer = n /\ Stale(n, m)
                         /\ net' = Answered(m, AppendAnswer(m, currentTerm[n], FALSE))
    BY <1>6 DEF RejectStaleAppend
  <2>2. LET a == AppendAnswer(m, currentTerm[n], FALSE)
        IN  ~a.ok /\ a.caller = m.caller /\ a.peer = n /\ a.term = currentTerm[n]
    BY <2>1 DEF AppendAnswer, VoteAnswer
  <2>3. m.live => /\ m.caller \in Node \ {n} /\ leading[m.caller] /\ lock[m.caller] # "vote"
                  /\ m.term = currentTerm[m.caller] /\ m.term < currentTerm[n]
                  /\ Asks(m.caller, n)
    BY <2>1, AppendFrom DEF Good, Stale, Asks
  <2>4. Rests(m.caller)
    BY <1>6 DEF RejectStaleAppend
  <2>5. m.live => Comes(AppendAnswer(m, currentTerm[n], FALSE))
    <3>1. m.term \in Nat /\ currentTerm[n] \in Nat
      BY <1>1, <2>1, MessageParts DEF TypeOK
    <3> QED
      BY <2>2, <2>3, <2>4, <3>1 DEF Comes, NewRefusal
  <2>6. \A a \in net' : a.type = "appended" => a \in net \/ Comes(a)
    BY <2>1, <2>5 DEF Answered
  <2> QED
    BY <1>1, <1>6, <2>6, QuietMoves DEF RejectStaleAppend
<1>7. CASE StartBroadcast(n)
  <2>1. \A a \in net' \ net : a.type = "append"
    BY <1>7 DEF StartBroadcast
  <2>2. \A p \in Node \ {n} : Rests(p)
    BY <1>1, <1>7 DEF StartBroadcast, TypeOK
  <2>3. lock'[n] = "append"
    BY <1>1, <1>7 DEF StartBroadcast, TypeOK
  <2> QED
    BY <1>1, <1>7, <2>1, <2>2, <2>3, QuietMoves DEF StartBroadcast
<1>8. CASE CalcCommit(n)
  <2>1. PICK idx \in {matchIndex[n][m] : m \in Node} :
           \/ \E late \in SUBSET Pending(n) :
                 net' = (net \ late) \cup {[m EXCEPT !.commit = idx] : m \in late}
           \/ net' = net
    BY <1>8 DEF CalcCommit, commitVars
  <2>2. \A a \in net' : a.type = "appended" => a \in net
    <3>1. \A m \in Pending(n) : /\ m \in Request
                                /\ m.type \in {"vote", "append"}
      BY <1>1, PendingRequests DEF Pending
    <3>2. \A m \in Pending(n) : [m EXCEPT !.commit = idx].type # "appended"
      BY <3>1 DEF Request, VoteRequest, AppendRequest
    <3>3. ASSUME NEW a \in net', a \notin net
          PROVE  a.type # "appended"
      <4>1. PICK m \in Pending(n) : a = [m EXCEPT !.commit = idx]
        BY <2>1, <3>3
      <4> QED
        BY <3>2, <4>1
    <3> QED
      BY <3>3
  <2>3. \A p \in Node \ {n} : Rests(p)
    BY <1>1, <1>8 DEF CalcCommit, TypeOK
  <2>4. lock'[n] = "wait"
    BY <1>1, <1>8 DEF CalcCommit, TypeOK
  <2> QED
    BY <1>1, <1>8, <2>2, <2>3, <2>4, QuietMoves DEF CalcCommit
<1>9. CASE EndBroadcast(n)
  <2>1. \A a \in net' : a.type = "appended" => a \in net
    BY <1>9, RoundsEndCalm DEF Good, Leftover
  <2>2. \A p \in Node \ {n} : Rests(p)
    BY <1>1, <1>9 DEF EndBroadcast, Unlock, TypeOK
  <2>3. lock'[n] = "free"
    BY <1>1, <1>9 DEF EndBroadcast, Unlock, TypeOK
  <2> QED
    BY <1>1, <1>9, <2>1, <2>2, <2>3, QuietMoves DEF EndBroadcast
<1>10. CASE \E v \in Value : CheckLeader(n, v)
  BY <1>1, <1>10, QuietMoves DEF CheckLeader
<1> QED
  BY <1>2, <1>3, <1>4, <1>5, <1>6, <1>7, <1>8, <1>9, <1>10

LEMMA WinFacts ==
    ASSUME Good, Undisturbed', [Next]_vars, NEW n \in Node, WinElection(n)
    PROVE  StepFacts
<1>1. TypeOK
  BY DEF Good, Known
<1>2. \A a \in net' : a.type = "appended" => a \in net
  BY RoundsEndCalm DEF Good, Leftover
<1>3. \A p \in Node \ {n} : Rests(p)
  BY <1>1 DEF WinElection, Unlock, Rests, diskVars, TypeOK
<1>4. /\ UNCHANGED <<currentTerm, log, votes>> /\ lock[n] = "vote" /\ Majority(yes[n])
      /\ wins' = wins \cup {<<currentTerm[n], n>>}
      /\ lock'[n] = "free" /\ timer'[n] = "armed"
      /\ \A q \in Node \ {n} : matchIndex'[n][q] = 0 /\ nextIndex'[n][q] = Len(log[n]) + 1
  BY <1>1 DEF WinElection, Unlock, diskVars, TypeOK
<1>5. Won(n) /\ \A q \in Node \ {n} : Counts(n, q)
  BY <1>4 DEF Won, Counts, FirstCount
<1>6. Moves(n)
  BY <1>4, <1>5 DEF Moves, Keeps
<1> QED
  BY <1>2, <1>3, <1>4, <1>6, OneMoves

LEMMA StepDownFacts ==
    ASSUME Good, Undisturbed', [Next]_vars, NEW n \in Node, StepDown(n)
    PROVE  StepFacts
<1>1. TypeOK
  BY DEF Good, Known
<1>2. \A a \in net' : a.type = "appended" => a \in net
  BY RoundsEndCalm DEF Good, Leftover
<1>3. \A p \in Node \ {n} : Rests(p)
  BY <1>1 DEF StepDown, Unlock, Rests, TypeOK
<1>4. /\ UNCHANGED <<log, leading, votes, wins>> /\ lock'[n] = "free" /\ lock[n] = "vote"
  BY <1>1 DEF StepDown, Undecided, Unlock, history, TypeOK
<1>6. ~leading'[n]
  BY <1>4 DEF Good, LeadersWon
<1>7. Moves(n)
  BY <1>4, <1>6 DEF Moves, Keeps
<1> QED
  BY <1>2, <1>3, <1>4, <1>7, OneMoves

LEMMA CampaignFacts ==
    ASSUME Good, Undisturbed', [Next]_vars, NEW n \in Node, StartElection(n)
    PROVE  StepFacts
<1>1. TypeOK /\ currentTerm[n] \in Nat
  BY DEF Good, Known, TypeOK
<1>2. \A p \in Node \ {n} : Rests(p)
  BY <1>1 DEF StartElection, leaderVars, timerVars, Rests, TypeOK
<1>3. /\ UNCHANGED <<log, leading, timer, wins>> /\ timer[n] = "campaign"
      /\ currentTerm'[n] = currentTerm[n] + 1
      /\ votes' = votes \cup {<<n, currentTerm[n] + 1, n>>}
  BY <1>1 DEF StartElection, leaderVars, timerVars, TypeOK
<1>5. ~leading'[n]
  BY <1>3 DEF Good, LeadersWon
<1>6. Campaigns(n)
  <2>1. \A v \in votes : v[3] = n => v[2] <= currentTerm[n] /\ v[2] \in Nat
    BY DEF Good, Known, TypeOK, LeadersWon
  <2>2. \A v \in votes : v[3] = n => v[2] # currentTerm[n] + 1
    BY <1>1, <2>1
  <2> QED
    BY <1>1, <1>3, <2>2 DEF Campaigns
<1>7. Moves(n)
  BY <1>3, <1>5, <1>6 DEF Moves, Keeps
<1>8. \A v \in votes' : v \in votes \/ NewVote(v)
  <2>1. NewVote(<<n, currentTerm[n] + 1, n>>)
    BY <1>1, <1>3 DEF NewVote
  <2> QED
    BY <1>3, <2>1
<1>9. \A a \in net' : a.type = "appended" => a \in net
  BY DEF StartElection
<1> QED
  BY <1>2, <1>3, <1>7, <1>8, <1>9, OneMoves

LEMMA VoteFacts ==
    ASSUME Good, Undisturbed', [Next]_vars, NEW n \in Node, HandleRequestVote(n)
    PROVE  StepFacts
<1>1. TypeOK /\ currentTerm[n] \in Nat
  BY DEF Good, Known, TypeOK
<1>2. PICK m \in net : HandleRequestVote(n)!2!(m)
  BY DEF HandleRequestVote
<1> DEFINE grant == /\ m.term >= currentTerm[n]
                    /\ Voted(n, m) = Nil
                    /\ UpToDate(n, m)
<1>3. /\ m.type = "vote" /\ m.peer = n
      /\ currentTerm' = [currentTerm EXCEPT ![n] = Larger(@, m.term)]
      /\ IF m.term > currentTerm[n] THEN DropLeaderState(n)
                                    ELSE UNCHANGED <<leading, nextIndex, matchIndex>>
      /\ votes' = IF grant THEN votes \cup {<<n, m.term, m.caller>>} ELSE votes
      /\ net' = Answered(m, VoteAnswer(m, currentTerm'[n], grant))
  BY <1>2
<1>4. /\ m.term \in Nat /\ m.caller \in Node
      /\ m.live => m.lastTerm = 0 /\ m.lastIdx = Len(log[m.caller])
  BY <1>1, <1>3, MessageParts DEF Good, OnTime, Punctual
<1>5. lock[n] = "free" /\ UNCHANGED <<log, lock, timer, wins>>
  BY DEF HandleRequestVote, roundVars, timerVars
<1>6. \A p \in Node \ {n} : Rests(p)
  BY <1>1, <1>3, <1>5 DEF Rests, DropLeaderState, TypeOK
<1>7. Len(log[n]) \in Nat /\ Len(log[m.caller]) \in Nat
  BY <1>1, <1>4, LogLength
<1>8. Moves(n)
  <2>1. CASE m.term > currentTerm[n]
    BY <1>1, <1>3, <1>5, <1>7, <2>1 DEF DropLeaderState, Moves, Keeps, TypeOK
  <2>2. CASE ~(m.term > currentTerm[n])
    <3>1. /\ currentTerm'[n] = currentTerm[n] /\ leading'[n] = leading[n]
          /\ matchIndex'[n] = matchIndex[n] /\ nextIndex'[n] = nextIndex[n]
          /\ timer'[n] = timer[n]
      BY <1>1, <1>3, <1>4, <1>5, <2>2 DEF Larger, TypeOK
    <3>2. Rests(n)
      BY <1>5, <3>1 DEF Rests
    <3> QED
      BY <3>2, RestMoves
  <2> QED
    BY <2>1, <2>2
<1>9. grant => NewVote(<<n, m.term, m.caller>>)
  <2>1. LastTerm(n) = 0
    BY <1>7, ZeroTermAt DEF LastTerm, Good, OnTime
  <2>2. m.live /\ UpToDate(n, m) => Len(log[n]) <= Len(log[m.caller])
    BY <1>4, <1>7, <2>1 DEF UpToDate
  <2>3. m.term <= currentTerm'[m.caller]
    <3>1. CASE m.live
      <4>1. m.term = currentTerm[m.caller] /\ lock[m.caller] = "vote"
        BY <1>3, <3>1 DEF Good, Known, ElectionInv, AsksInRound
      <4>2. m.caller # n
        BY <1>5, <4>1
      <4> QED
        BY <1>1, <1>4, <1>6, <4>1, <4>2 DEF Rests, TypeOK
    <3>2. CASE ~m.live
      <4>1. m.term <= currentTerm[m.caller]
        BY <1>3, <3>2 DEF Outlived, Good, LeadersWon
      <4>2. currentTerm'[m.caller] = currentTerm[m.caller] \/ m.caller = n
        BY <1>4, <1>6 DEF Rests
      <4>3. m.term <= currentTerm'[n]
        BY <1>1, <1>3, <1>4 DEF Larger, TypeOK
      <4> QED
        BY <4>1, <4>2, <4>3
    <3> QED
      BY <3>1, <3>2
  <2>4. lock'[m.caller] = "vote" /\ m.term = currentTerm'[m.caller] => m.live
    <3> SUFFICES ASSUME lock[m.caller] = "vote", ~m.live PROVE m.term # currentTerm'[m.caller]
      BY <1>5
    <3>1. Outlived(m) => m.term < currentTerm[m.caller]
      BY <1>3 DEF Good, LeadersWon
    <3>2. m.caller \in Node \ {n} /\ Outlived(m)
      BY <1>3, <1>4, <1>5 DEF Outlived
    <3>3. currentTerm'[m.caller] = currentTerm[m.caller]
      BY <1>6, <3>2 DEF Rests
    <3>4. currentTerm[m.caller] \in Nat
      BY <1>1, <1>4 DEF TypeOK
    <3> QED
      BY <1>4, <3>1, <3>2, <3>3, <3>4
  <2> QED
    BY <1>4, <2>2, <2>3, <2>4 DEF NewVote
<1>10. \A a \in net' : a.type = "appended" => a \in net
  <2>1. VoteAnswer(m, currentTerm'[n], grant).type = "voted"
    BY DEF VoteAnswer
  <2> HIDE DEF grant
  <2> QED
    BY <1>3, <2>1 DEF Answered
<1> HIDE DEF grant
<1>11. \A v \in votes' : v \in votes \/ NewVote(v)
  BY <1>3, <1>9
<1> QED
  BY <1>5, <1>6, <1>8, <1>10, <1>11, OneMoves

LEMMA ApplyFacts ==
    ASSUME Good, Undisturbed', [Next]_vars, NEW n \in Node, NEW v \in Value,
           ApplyRequest(n, v)
    PROVE  StepFacts
<1>1. TypeOK
  BY DEF Good, Known
<1>2. \A p \in Node \ {n} : Rests(p)
  BY <1>1 DEF ApplyRequest, leaderVars, roundVars, timerVars, Rests, TypeOK
<1>3. /\ UNCHANGED <<currentTerm, leading, matchIndex, nextIndex, timer, lock, net>>
      /\ UNCHANGED <<votes, wins>>
      /\ lock[n] = "free" /\ v \in checked[n] /\ v \notin checked'[n]
      /\ log'[n] = Append(log[n], NewEntry(v))
  BY <1>1 DEF ApplyRequest, leaderVars, roundVars, timerVars, history, TypeOK
<1>4. Grows(n)
  <2>1. log[n] \in Seq(Entry) /\ Len(log[n]) \in Nat /\ NewEntry(v) \in Entry
    BY <1>1, LogLength DEF NewEntry, Entry
  <2>2. /\ Len(log'[n]) = Len(log[n]) + 1
        /\ \A i \in 1..Len(log[n]) : log'[n][i] = log[n][i]
        /\ log'[n][Len(log[n]) + 1] = NewEntry(v)
    BY <1>3, <2>1, AppendProperties
  <2>3. NewEntry(v).val = v
    BY DEF NewEntry
  <2> QED
    BY <1>3, <2>2, <2>3 DEF Grows
<1>5. leading'[n] => leading[n] /\ timer'[n] # "campaign"
  BY <1>3 DEF Good, LeadersWon
<1>6. leading'[n] => \A q \in Node \ {n} : Counts(n, q)
  BY <1>3 DEF Counts, SameCount
<1>7. Moves(n)
  BY <1>3, <1>4, <1>5, <1>6 DEF Moves
<1> QED
  BY <1>2, <1>3, <1>7, OneMoves

(* Who appends a request has all that its leader has.                      *)
LEMMA TakesAll ==
    ASSUME Good, NEW n \in Node, NEW m \in net, lock[n] = "free",
           m.type = "append", m.peer = n, m.live, ~Stale(n, m), Fits(n, m),
           FollowLeader(n, m), log' = [log EXCEPT ![n] = Corrected(n, m) \o m.entries],
           UNCHANGED <<lock, timer>>
    PROVE  TakesOver(n, m.caller) /\ Len(log'[n]) = Len(log[m.caller])
<1>1. TypeOK
  BY DEF Good, Known
<1>2. /\ m.caller \in Node \ {n} /\ leading[m.caller]
      /\ m.term = currentTerm[m.caller] /\ currentTerm[m.caller] >= currentTerm[n]
      /\ m.prev \in Nat /\ nextIndex[m.caller][n] = m.prev + 1
      /\ m.prev + Len(m.entries) = Len(log[m.caller]) /\ m.entries \in Seq(Entry)
      /\ m.prev <= Len(log[n])
  <2>1. m \in AppendRequest => m.entries \in Seq(Entry)
    BY DEF AppendRequest
  <2> QED
    BY <2>1, AppendFrom DEF Good
<1>3. Rests(m.caller)
  BY <1>1, <1>2 DEF FollowLeader, DropLeaderState, Rests, TypeOK
<1>4. currentTerm'[n] = currentTerm[m.caller] /\ ~leading'[n] /\ Asks(m.caller, n)
  BY <1>1, <1>2 DEF FollowLeader, DropLeaderState, Asks, TypeOK
<1>5. log'[n] = Corrected(n, m) \o m.entries
  BY <1>1 DEF TypeOK
<1>6. Joined(log'[n], n, m.caller, m.prev) /\ Len(log'[n]) = Len(log[m.caller])
  BY <1>5, AllAppended DEF Good
<1>7. nextIndex[m.caller][n] - 1 = m.prev /\ Len(log'[n]) \in m.prev..Len(log[m.caller])
  <2>1. Len(log[m.caller]) \in Nat /\ Len(m.entries) \in Nat
    BY <1>1, <1>2, LogLength, LenProperties
  <2>2. Len(log[m.caller]) \in m.prev..Len(log[m.caller])
    BY <1>2, <2>1
  <2> QED
    BY <1>2, <1>6, <2>2
<1> QED
  BY <1>2, <1>3, <1>4, <1>6, <1>7 DEF TakesOver

LEMMA FollowFacts ==
    ASSUME Good, Undisturbed', [Next]_vars, NEW n \in Node,
           RejectMismatch(n) \/ AcceptAppend(n) \/ PanicInAppend(n)
    PROVE  StepFacts
<1>1. TypeOK /\ currentTerm[n] \in Nat
  BY DEF Good, Known, TypeOK
<1>2. PICK m \in net :
         /\ m.type = "append" /\ m.peer = n /\ ~Stale(n, m) /\ FollowLeader(n, m)
         /\ m.live
         /\ \/ /\ ~Fits(n, m) /\ log' = [log EXCEPT ![n] = Corrected(n, m)]
               /\ net' = Answered(m, AppendAnswer(m, m.term, FALSE))
            \/ /\ Fits(n, m) /\ log' = [log EXCEPT ![n] = Corrected(n, m) \o m.entries]
               /\ \/ net' = Answered(m, AppendAnswer(m, m.term, TRUE))
                  \/ net' = net \ {m}
  BY DEF RejectMismatch, AcceptAppend, PanicInAppend, Undisturbed
<1>3. lock[n] = "free" /\ UNCHANGED <<lock, timer, votes, wins>>
  BY DEF RejectMismatch, AcceptAppend, PanicInAppend, roundVars, history
<1>4. /\ currentTerm' = [currentTerm EXCEPT ![n] = m.term]
      /\ DropLeaderState(n)
  BY <1>2 DEF FollowLeader
<1>5. \A p \in Node \ {n} : Rests(p)
  BY <1>1, <1>2, <1>3, <1>4 DEF DropLeaderState, Rests, TypeOK
<1>6. /\ m.caller \in Node \ {n} /\ leading[m.caller] /\ lock[m.caller] # "vote"
      /\ m.term = currentTerm[m.caller] /\ currentTerm[m.caller] >= currentTerm[n]
      /\ m.prev \in Nat /\ nextIndex[m.caller][n] = m.prev + 1
      /\ Fits(n, m) <=> m.prev <= Len(log[n])
      /\ ~Fits(n, m) => Corrected(n, m) = log[n]
  BY <1>2, AppendFrom DEF Good
<1>7. currentTerm'[n] = currentTerm[m.caller] /\ ~leading'[n] /\ Asks(m.caller, n)
  BY <1>1, <1>2, <1>4, <1>6 DEF DropLeaderState, Asks, TypeOK
<1>8. Len(log[n]) \in Nat
  BY <1>1, LogLength
<1>9. Rests(m.caller)
  BY <1>5, <1>6
<1>10. CASE ~Fits(n, m)
  <2>1. Keeps(n)
    BY <1>1, <1>2, <1>6, <1>10 DEF TypeOK, Keeps
  <2>2. Moves(n)
    BY <1>3, <1>7, <2>1 DEF Moves
  <2>3. LET a == AppendAnswer(m, m.term, FALSE)
        IN  ~a.ok /\ a.peer = n /\ a.caller = m.caller
    BY <1>2 DEF AppendAnswer, VoteAnswer
  <2>4. Len(log[n]) < nextIndex[m.caller][n] - 1
    BY <1>6, <1>8, <1>10
  <2>5. Comes(AppendAnswer(m, m.term, FALSE))
    BY <1>6, <1>7, <1>9, <2>1, <2>3, <2>4 DEF Comes, NewRefusal
  <2>6. \A a \in net' : a.type = "appended" => a \in net \/ Comes(a)
    BY <1>2, <1>10, <2>5 DEF Answered
  <2> QED
    BY <1>3, <1>5, <2>2, <2>6, OneMoves
<1>11. CASE Fits(n, m)
  <2>1. TakesOver(n, m.caller) /\ Len(log'[n]) = Len(log[m.caller])
    BY <1>2, <1>3, <1>11, TakesAll
  <2>2. Moves(n)
    BY <1>3, <1>6, <1>7, <2>1 DEF Moves
  <2>3. LET a == AppendAnswer(m, m.term, TRUE)
        IN  a.ok /\ a.peer = n /\ a.caller = m.caller
    BY <1>2 DEF AppendAnswer, VoteAnswer
  <2>4. Comes(AppendAnswer(m, m.term, TRUE))
    BY <2>1, <2>3 DEF Comes, NewAnswer
  <2>5. \A a \in net' : a.type = "appended" => a \in net \/ Comes(a)
    BY <1>2, <1>11, <2>4 DEF Answered
  <2> QED
    BY <1>3, <1>5, <2>2, <2>5, OneMoves
<1> QED
  BY <1>10, <1>11

LEMMA FailureFacts ==
    ASSUME Good, Undisturbed', [Next]_vars, NEW n \in Node, Failure(n)
    PROVE  StepFacts
<1>1. TypeOK
  BY DEF Good, Known
<1>2. Reboot(n) /\ UNCHANGED <<votes, wins>>
  BY DEF Failure, Crash, CrashInVote, CrashInAppend, Reboot, history
<1>3. /\ \A a \in net' : a.type = "appended" => a \in net
      /\ \A p \in Node \ {n} : log'[p] = log[p]
      /\ \/ Keeps(n)
         \/ \E m \in net :
              /\ m.type = "append" /\ m.peer = n /\ ~Stale(n, m) /\ m.live
              /\ currentTerm' = [currentTerm EXCEPT ![n] = m.term]
              /\ m.prev <= Len(log[n])
              /\ Len(log'[n]) \in m.prev..Len(log[m.caller])
              /\ Joined(log'[n], n, m.caller, m.prev)
  BY FailureLeaves DEF Good, Leftover
<1>4. \A p \in Node \ {n} : currentTerm'[p] = currentTerm[p]
  BY <1>1 DEF Failure, Crash, CrashInVote, CrashInAppend, TypeOK
<1>5. \A p \in Node \ {n} : Rests(p)
  BY <1>1, <1>2, <1>3, <1>4 DEF Reboot, DropLeaderState, Unlock, Rests, TypeOK
<1>6. ~leading'[n] /\ lock'[n] = "free"
  BY <1>1, <1>2 DEF Reboot, DropLeaderState, Unlock, TypeOK
<1>7. ASSUME ~Keeps(n) PROVE \E l \in Node : TakesOver(n, l)
  <2>1. PICK m \in net :
           /\ m.type = "append" /\ m.peer = n /\ ~Stale(n, m) /\ m.live
           /\ currentTerm' = [currentTerm EXCEPT ![n] = m.term]
           /\ m.prev <= Len(log[n])
           /\ Len(log'[n]) \in m.prev..Len(log[m.caller])
           /\ Joined(log'[n], n, m.caller, m.prev)
    BY <1>3, <1>7
  <2>2. /\ m.caller \in Node \ {n} /\ leading[m.caller] /\ m.prev \in Nat
        /\ m.term = currentTerm[m.caller] /\ currentTerm[m.caller] >= currentTerm[n]
        /\ nextIndex[m.caller][n] = m.prev + 1
    BY <2>1, AppendFrom DEF Good
  <2>3. nextIndex[m.caller][n] - 1 = m.prev
    BY <2>2
  <2>4. currentTerm'[n] = currentTerm[m.caller] /\ Asks(m.caller, n) /\ Rests(m.caller)
    BY <1>1, <1>5, <2>1, <2>2 DEF TypeOK, Asks
  <2>5. TakesOver(n, m.caller)
    BY <1>6, <2>1, <2>2, <2>3, <2>4 DEF TakesOver
  <2> QED
    BY <2>2, <2>5
<1>8. Moves(n)
  BY <1>6, <1>7 DEF Moves
<1> QED
  BY <1>2, <1>3, <1>5, <1>8, OneMoves

LEMMA AnswerFacts ==
    ASSUME Good, Undisturbed', [Next]_vars, NEW n \in Node, HandleAppendAnswer(n)
    PROVE  StepFacts
<1>1. TypeOK
  BY DEF Good, Known
<1>2. PICK m \in Calls(n) : HandleAppendAnswer(n)!2!(m)
  BY DEF HandleAppendAnswer
<1>3. /\ UNCHANGED <<currentTerm, log, leading, lock, timer, votes, wins>>
      /\ lock[n] \in {"append", "wait"}
  BY DEF HandleAppendAnswer, diskVars, roundVars, timerVars, history
<1>4. leading[n] /\ timer[n] # "campaign"
  BY <1>3 DEF Good, Known, LeadershipFlags, LeadersWon
<1>5. /\ m \in net \ net' /\ m.caller = n /\ m.peer \in Node /\ m.type = "appended"
      /\ m.term \in Nat /\ currentTerm[n] \in Nat /\ net' \subseteq net
  BY <1>1, <1>2, MessageParts DEF Calls, TypeOK
<1>6. CASE m.term > currentTerm[n]
  <2>1. UNCHANGED <<nextIndex, matchIndex>>
    BY <1>2, <1>6
  <2>2. \A p \in Node : Rests(p)
    BY <1>3, <2>1 DEF Rests
  <2> QED
    BY <1>3, <1>5, <2>2, RestMoves, OneMoves
<1>7. CASE ~(m.term > currentTerm[n])
  <2>1. /\ nextIndex' = [nextIndex EXCEPT ![n][m.peer] =
              IF m.ok THEN Len(log[n]) + 1 ELSE IF @ = 0 THEN MaxUint ELSE @ - 1]
        /\ matchIndex' = [matchIndex EXCEPT ![n][m.peer] = IF m.ok THEN Covered(n) ELSE @]
    BY <1>2, <1>7
  <2>2. \A p \in Node \ {n} : Rests(p)
    BY <1>1, <1>3, <2>1 DEF Rests, TypeOK
  <2>3. \A q \in Node \ {m.peer} : SameCount(n, q)
    BY <1>1, <1>4, <1>5, <2>1 DEF SameCount, TypeOK
  <2>4. NewCount(n, m.peer)
    <3>1. CASE m.ok
      <4>1. matchIndex'[n][m.peer] = Len(log[n]) /\ nextIndex'[n][m.peer] = Len(log[n]) + 1
        BY <1>1, <1>5, <2>1, <3>1 DEF TypeOK, Covered
      <4> QED
        BY <1>4, <1>5, <1>7, <3>1, <4>1 DEF NewCount, Appended
    <3>2. CASE ~m.ok
      <4>1. m.live /\ ~m.ok
        BY <1>2, <3>2 DEF Calls
      <4>2. nextIndex[n][m.peer] >= 2
        BY <1>5, <1>7, <4>1 DEF Good, Known, BroadcastInv, InRound, OfItsRound, MayStepBack
      <4>3. nextIndex[n][m.peer] # 0
        BY <4>2
      <4>4. /\ matchIndex'[n][m.peer] = matchIndex[n][m.peer]
            /\ nextIndex'[n][m.peer] = nextIndex[n][m.peer] - 1
        BY <1>1, <1>5, <2>1, <3>2, <4>3 DEF TypeOK
      <4> QED
        BY <1>4, <1>5, <1>7, <3>2, <4>4 DEF NewCount, Appended
    <3> QED
      BY <3>1, <3>2
  <2>5. Moves(n)
    BY <1>3, <1>4, <2>3, <2>4 DEF Moves, Counts, Keeps
  <2> QED
    BY <1>3, <1>5, <2>2, <2>5, OneMoves
<1> QED
  BY <1>6, <1>7

LEMMA StepFactsHold ==
    ASSUME Good, Undisturbed', [Next]_vars PROVE StepFacts
<1>1. CASE UNCHANGED vars
  <2>1. \A p \in Node : Rests(p)
    BY <1>1 DEF vars, diskVars, leaderVars, roundVars, timerVars, Rests
  <2>2. UNCHANGED <<votes, wins, net>>
    BY <1>1 DEF vars, history
  <2>3. \A p \in Node : Sticks(p) /\ Moves(p)
    BY <2>1, RestMoves, PStateNext DEF Good, Known
  <2>4. \A m \in net' : Outlived(m) => m \in net \/ GivenUp(m)
    BY <2>2
  <2> QED
    BY <2>2, <2>3, <2>4 DEF StepFacts
<1>2. ASSUME NEW n \in Node, Election(n) PROVE StepFacts
  BY <1>2, QuietFacts, CampaignFacts, StepDownFacts, WinFacts, VoteFacts DEF Election
<1>3. ASSUME NEW n \in Node, Replication(n) PROVE StepFacts
  BY <1>3, QuietFacts, FollowFacts, AnswerFacts DEF Replication
<1>4. ASSUME NEW n \in Node, Client(n) PROVE StepFacts
  BY <1>4, QuietFacts, ApplyFacts DEF Client
<1>5. TypeOK
  BY DEF Good, Known
<1> QED
  BY <1>1, <1>2, <1>3, <1>4, <1>5, FailureFacts DEF Next, IdleTick

-----------------------------------------------------------------------------
(* From one step to the next.                                              *)

LEMMA LeadersWonNext ==
    ASSUME Good, TypeOK', StepFacts PROVE LeadersWon'
<1>1. TypeOK
  BY DEF Good, Known
<1>2. \A p \in Node : /\ currentTerm[p] \in Nat /\ currentTerm'[p] \in Nat
                      /\ currentTerm'[p] >= currentTerm[p]
  BY <1>1 DEF StepFacts, Sticks, TypeOK
<1>3. ASSUME NEW p \in Node
      PROVE  /\ leading'[p] => <<currentTerm'[p], p>> \in wins'
             /\ timer'[p] = "campaign" => ~leading'[p]
             /\ lock'[p] = "vote" => timer'[p] = "campaign"
  <2>1. Moves(p)
    BY DEF StepFacts
  <2> QED
    BY <2>1 DEF Moves, Won, Good, LeadersWon, StepFacts
<1>4. ASSUME NEW w \in wins'
      PROVE  /\ w[1] <= currentTerm'[w[2]]
             /\ lock'[w[2]] = "vote" => w[1] < currentTerm'[w[2]]
  <2>1. w[1] \in Nat /\ w[2] \in Node
    BY DEF TypeOK
  <2>2. CASE w \in wins
    <3>1. /\ w[1] <= currentTerm[w[2]]
          /\ lock[w[2]] = "vote" => w[1] < currentTerm[w[2]]
      BY <2>2 DEF Good, LeadersWon
    <3>2. Moves(w[2])
      BY <2>1 DEF StepFacts
    <3> QED
      BY <1>2, <2>1, <3>1, <3>2 DEF Moves, Campaigns
  <2>3. CASE w \notin wins
    BY <1>2, <2>1, <2>3 DEF StepFacts
  <2> QED
    BY <2>2, <2>3
<1>5. ASSUME NEW v \in votes' PROVE v[2] <= currentTerm'[v[3]]
  <2>1. v[2] \in Nat /\ v[3] \in Node
    BY DEF TypeOK
  <2>2. CASE v \in votes
    <3>1. v[2] <= currentTerm[v[3]]
      BY <2>2 DEF Good, LeadersWon
    <3> QED
      BY <1>2, <2>1, <3>1
  <2>3. CASE v \notin votes
    BY <2>3 DEF StepFacts, NewVote
  <2> QED
    BY <2>2, <2>3
<1>6. ASSUME NEW m \in net', Outlived(m)
      PROVE  /\ m.term <= currentTerm'[m.caller]
             /\ lock'[m.caller] = "vote" => m.term < currentTerm'[m.caller]
  <2>1. m.term \in Nat /\ m.caller \in Node
    BY DEF TypeOK, Message, Request, VoteRequest, AppendRequest, Answer
  <2>2. CASE m \in net
    <3>1. /\ m.term <= currentTerm[m.caller]
          /\ lock[m.caller] = "vote" => m.term < currentTerm[m.caller]
      BY <1>6, <2>2 DEF Good, LeadersWon
    <3>2. Moves(m.caller)
      BY <2>1 DEF StepFacts
    <3> QED
      BY <1>2, <2>1, <3>1, <3>2 DEF Moves, Campaigns
  <2>3. CASE m \notin net
    BY <1>6, <2>3 DEF StepFacts, GivenUp
  <2> QED
    BY <2>2, <2>3
<1> QED
  BY <1>3, <1>4, <1>5, <1>6 DEF LeadersWon, Outlived

LEMMA Numbers ==
    ASSUME TypeOK, TypeOK', StepFacts, NEW p \in Node
    PROVE  /\ currentTerm[p] \in Nat /\ currentTerm'[p] \in Nat
           /\ Len(log[p]) \in Nat /\ Len(log'[p]) \in Nat
           /\ currentTerm'[p] >= currentTerm[p] /\ Moves(p)
           /\ \A q \in Node : /\ nextIndex[p][q] \in Nat /\ nextIndex'[p][q] \in Nat
                              /\ matchIndex[p][q] \in Nat /\ matchIndex'[p][q] \in Nat
<1>1. log[p] \in Seq(Entry) /\ log'[p] \in Seq(Entry)
  BY DEF TypeOK
<1>2. Len(log[p]) \in Nat /\ Len(log'[p]) \in Nat
  BY <1>1, LenProperties
<1> QED
  BY <1>2 DEF TypeOK, StepFacts, Sticks

(* Of a peer a leader waits for its request to be handled, or for the      *)
(* answer, and only while it holds the mutex of a broadcast.               *)
LEMMA OneAtATime ==
    ASSUME Good, NEW n \in Node, NEW q \in Node
    PROVE  /\ \A a \in net : Appended(a, q, n) =>
                 /\ ~Asks(n, q) /\ leading[n] /\ lock[n] \in {"append", "wait"}
                 /\ \A b \in net : Appended(b, q, n) => a = b
<1>1. ASSUME NEW a \in net, Appended(a, q, n)
      PROVE  InRound(a) /\ leading[n] /\ lock[n] \in {"append", "wait"}
  <2>1. a.live
    BY <1>1, AnswersLive DEF Good, Known, Appended
  <2> QED
    BY <1>1, <2>1 DEF Appended, InRound, Good, Known, BroadcastInv, OfItsRound, LeadershipFlags
<1>2. \A m \in net : m.type = "append" /\ m.live => InRound(m)
  BY DEF InRound
<1> QED
  BY <1>1, <1>2 DEF Appended, Asks, Good, Known, BroadcastInv, OnePerPeer

(* A refusal on its way was there before, or comes from a follower whose   *)
(* log is too short.                                                       *)
LEMMA RefusalsCome ==
    ASSUME Good, TypeOK', StepFacts, NEW p \in Node, NEW q \in Node \ {p},
           leading'[p], Refuses(q, p)'
    PROVE  /\ SameCount(p, q)
           /\ \/ Refuses(q, p)
              \/ /\ currentTerm[p] >= currentTerm[q] /\ currentTerm'[q] = currentTerm[p]
                 /\ Keeps(q) /\ Len(log[q]) < nextIndex[p][q] - 1
<1>1. currentTerm'[p] = currentTerm[p] /\ Counts(p, q)
  BY DEF StepFacts, Moves
<1>2. PICK a \in net' : Appended(a, q, p) /\ ~a.ok /\ a.term <= currentTerm[p]
  BY <1>1 DEF Refuses, Appended
<1>3. CASE a \in net
  <2>1. /\ leading[p] /\ lock[p] # "vote"
        /\ \A b \in net : Appended(b, q, p) => a = b
    BY <1>2, <1>3, OneAtATime
  <2>2. ~FirstCount(p, q) /\ ~NewCount(p, q)
    BY <2>1 DEF FirstCount, Won, NewCount
  <2> QED
    BY <1>1, <1>2, <1>3, <2>2 DEF Counts, Refuses
<1>4. CASE a \notin net
  <2>1. NewRefusal(a)
    BY <1>2, <1>4 DEF StepFacts, Comes, Appended
  <2>2. currentTerm[p] \in Nat /\ a.term \in Nat
    BY DEF Good, Known, TypeOK, Message, Request, VoteRequest, AppendRequest, Answer
  <2> QED
    BY <1>2, <2>1, <2>2 DEF NewRefusal, Appended, Rests, SameCount
<1> QED
  BY <1>3, <1>4

(* A refusal that is counted was the only answer.                          *)
LEMMA CountedOnce ==
    ASSUME Good, StepFacts, NEW p \in Node, NEW q \in Node \ {p}, NewCount(p, q), leading'[p]
    PROVE  ~Refuses(q, p)'
<1>1. PICK a \in net \ net' : Appended(a, q, p)
  BY DEF NewCount
<1>2. CASE Refuses(q, p)'
  <2>1. PICK b \in net' : Appended(b, q, p)
    BY <1>2 DEF Refuses, Appended
  <2>2. b \notin net
    BY <1>1, <2>1, OneAtATime
  <2>3. Asks(p, q)
    BY <2>1, <2>2 DEF StepFacts, Comes, NewAnswer, NewRefusal, TakesOver, Appended
  <2> QED
    BY <1>1, <2>3, OneAtATime
<1> QED
  BY <1>2

LEMMA FirstRefusal ==
    ASSUME Good, StepFacts, NEW p \in Node, NEW q \in Node \ {p}, FirstCount(p, q), leading'[p]
    PROVE  ~Refuses(q, p)'
<1>1. CASE Refuses(q, p)'
  <2>1. PICK b \in net' : Appended(b, q, p)
    BY <1>1 DEF Refuses, Appended
  <2>2. b \notin net
    BY <2>1, OneAtATime DEF FirstCount, Won
  <2>3. Asks(p, q) /\ leading[p]
    BY <2>1, <2>2 DEF StepFacts, Comes, NewAnswer, NewRefusal, TakesOver, Appended
  <2>4. timer[p] = "campaign"
    BY DEF FirstCount, Won, Good, LeadersWon
  <2> QED
    BY <2>3, <2>4 DEF Good, LeadersWon
<1> QED
  BY <1>1

(* n may count q as having its log up to c: its array says so, or an       *)
(* answer on its way will.                                                 *)
Acked(n, q, c) ==
    /\ c <= Len(log[n])
    /\ q = n \/ matchIndex[n][q] >= c \/ Answers(q, n)

(* What a leader may count after a step it could count before, or it has   *)
(* just become true.                                                       *)
LEMMA AcksCome ==
    ASSUME Good, TypeOK', StepFacts, NEW n \in Node, NEW q \in Node,
           NEW c \in Nat \ {0}, leading'[n], Acked(n, q, c)'
    PROVE  \/ leading[n] /\ Acked(n, q, c)
           \/ currentTerm'[q] = currentTerm'[n] /\ c <= Len(log'[q])
<1>1. TypeOK
  BY DEF Good, Known
<1>2. CASE q = n
  BY <1>2 DEF Acked
<1>3. CASE q # n /\ matchIndex'[n][q] >= c
  <2>1. Counts(n, q)
    BY <1>3 DEF StepFacts, Moves
  <2>2. CASE leading[n] /\ matchIndex'[n][q] = matchIndex[n][q]
    <3>1. matchIndex[n][q] <= Len(log[n])
      BY <1>3, <2>2 DEF Good, Known, BroadcastInv, InRange
    <3>2. Len(log[n]) \in Nat /\ matchIndex[n][q] \in Nat
      BY <1>1, LogLength DEF TypeOK
    <3>3. c <= Len(log[n])
      BY <1>3, <2>2, <3>1, <3>2
    <3> QED
      BY <1>3, <2>2, <3>3 DEF Acked
  <2>3. CASE leading[n] /\ Answers(q, n) /\ matchIndex'[n][q] = Len(log[n])
    BY <1>3, <2>3 DEF Acked
  <2>4. matchIndex'[n][q] # 0
    BY <1>3
  <2>5. \/ leading[n] /\ matchIndex'[n][q] = matchIndex[n][q]
        \/ leading[n] /\ Answers(q, n) /\ matchIndex'[n][q] = Len(log[n])
    BY <2>1, <2>4 DEF Counts, SameCount, FirstCount, NewCount, Answers
  <2> QED
    BY <2>2, <2>3, <2>5
<1>4. CASE q # n /\ Answers(q, n)'
  <2>1. PICK a \in net' : Appended(a, q, n) /\ a.ok
    BY <1>4 DEF Answers, Appended
  <2>2. CASE a \in net
    <3>1. lock[n] \in {"append", "wait"} /\ leading[n]
      BY <2>1, <2>2, OneAtATime
    <3>2. Len(log'[n]) = Len(log[n])
      BY <3>1 DEF StepFacts, Moves, Grows, TakesOver, Keeps
    <3> QED
      BY <2>1, <2>2, <3>1, <3>2 DEF Acked, Answers
  <2>3. CASE a \notin net
    <3>1. NewAnswer(a)
      BY <2>1, <2>3 DEF StepFacts, Comes, Appended
    <3> QED
      BY <2>1, <3>1 DEF NewAnswer, TakesOver, Rests, Acked, Appended
  <2> QED
    BY <2>2, <2>3
<1> QED
  BY <1>2, <1>3, <1>4 DEF Acked

(* At most one node leads in a term.                                       *)
LEMMA OneLeads ==
    ASSUME TypeOK, ElectionInv, LeadersWon, NEW p \in Node, NEW q \in Node,
           leading[p], <<currentTerm[p], q>> \in wins
    PROVE  p = q
<1>1. <<currentTerm[p], p>> \in wins
  BY DEF LeadersWon
<1> QED
  BY <1>1, OneWinPerTerm DEF ElectionSafety

(* Whoever a leader counts has its term or a newer one, and in its term    *)
(* the length it is counted for.                                           *)
Honest ==
    \A n, q \in Node : \A c \in Nat \ {0} : leading[n] /\ Acked(n, q, c) =>
        /\ currentTerm[q] >= currentTerm[n]
        /\ currentTerm[q] = currentTerm[n] => c <= Len(log[q])

\* What a leader counts for a peer is below where it asks it to append, also
\* when it has stepped back for a refusal on its way.
Paired ==
    \A n, q \in Node : leading[n] /\ q # n =>
        /\ matchIndex[n][q] < nextIndex[n][q]
        /\ Refuses(q, n) => matchIndex[n][q] < nextIndex[n][q] - 1

LEMMA PairedNext ==
    ASSUME Good, TypeOK', StepFacts, Honest, Paired PROVE Paired'
<1> SUFFICES ASSUME NEW p \in Node, NEW q \in Node \ {p}, leading'[p]
             PROVE  /\ matchIndex'[p][q] < nextIndex'[p][q]
                    /\ Refuses(q, p)' => matchIndex'[p][q] < nextIndex'[p][q] - 1
  BY DEF Paired
<1>1. TypeOK
  BY DEF Good, Known
<1>2. /\ nextIndex[p][q] \in Nat /\ nextIndex'[p][q] \in Nat
      /\ matchIndex[p][q] \in Nat /\ matchIndex'[p][q] \in Nat
      /\ Len(log[p]) \in Nat /\ Len(log[q]) \in Nat
      /\ currentTerm[p] \in Nat /\ currentTerm[q] \in Nat
      /\ currentTerm'[q] >= currentTerm[q] /\ currentTerm'[p] = currentTerm[p]
  BY <1>1, Numbers DEF StepFacts, Moves
<1>3. Counts(p, q)
  BY DEF StepFacts, Moves
<1>4. CASE SameCount(p, q)
  <2>1. /\ leading[p] /\ matchIndex'[p][q] = matchIndex[p][q]
        /\ nextIndex'[p][q] = nextIndex[p][q]
    BY <1>4 DEF SameCount
  <2>2. ASSUME /\ currentTerm[p] >= currentTerm[q] /\ currentTerm'[q] = currentTerm[p]
               /\ Len(log[q]) < nextIndex[p][q] - 1
        PROVE  matchIndex[p][q] < nextIndex[p][q] - 1
    <3>1. CASE matchIndex[p][q] = 0
      BY <1>2, <2>2, <3>1
    <3>2. CASE matchIndex[p][q] # 0
      <4>1. PICK c \in Nat \ {0} : c = matchIndex[p][q]
        BY <1>2, <3>2
      <4>2. Acked(p, q, c)
        BY <1>2, <2>1, <4>1 DEF Acked, Good, Known, BroadcastInv, InRange
      <4>3. /\ currentTerm[q] >= currentTerm[p]
            /\ currentTerm[q] = currentTerm[p] => c <= Len(log[q])
        BY <2>1, <4>2 DEF Honest
      <4> QED
        BY <1>2, <2>2, <4>1, <4>3
    <3> QED
      BY <3>1, <3>2
  <2>3. matchIndex[p][q] < nextIndex[p][q]
    BY <2>1 DEF Paired
  <2>4. Refuses(q, p) => matchIndex[p][q] < nextIndex[p][q] - 1
    BY <2>1 DEF Paired
  <2> QED
    BY <2>1, <2>2, <2>3, <2>4, RefusalsCome
<1>5. CASE FirstCount(p, q)
  <2>1. matchIndex'[p][q] = 0 /\ nextIndex'[p][q] = Len(log[p]) + 1
    BY <1>5 DEF FirstCount
  <2> QED
    BY <1>2, <1>5, <2>1, FirstRefusal
<1>6. CASE NewCount(p, q)
  <2>1. PICK a \in net \ net' :
           /\ Appended(a, q, p) /\ a.term <= currentTerm[p] /\ leading[p]
           /\ \/ a.ok /\ matchIndex'[p][q] = Len(log[p]) /\ nextIndex'[p][q] = Len(log[p]) + 1
              \/ /\ ~a.ok /\ matchIndex'[p][q] = matchIndex[p][q]
                 /\ nextIndex'[p][q] = nextIndex[p][q] - 1
    BY <1>6 DEF NewCount
  <2>2. ~a.ok => matchIndex[p][q] < nextIndex[p][q] - 1
    BY <2>1 DEF Paired, Refuses
  <2>3. matchIndex'[p][q] < nextIndex'[p][q]
    BY <1>2, <2>1, <2>2
  <2> QED
    BY <1>6, <2>3, CountedOnce
<1> QED
  BY <1>3, <1>4, <1>5, <1>6 DEF Counts

(* Who takes over from a leader keeps what that leader counts for it.      *)
LEMMA CountedKept ==
    ASSUME Good, Paired, NEW q \in Node, NEW l \in Node, TakesOver(q, l),
           NEW c \in Nat, Acked(l, q, c)
    PROVE  c < nextIndex[l][q]
<1>1. ~Answers(q, l)
  BY OneAtATime DEF TakesOver, Answers
<1>2. /\ matchIndex[l][q] >= c /\ matchIndex[l][q] < nextIndex[l][q]
      /\ matchIndex[l][q] \in Nat /\ nextIndex[l][q] \in Nat
  BY <1>1 DEF Acked, TakesOver, Paired, Good, Known, TypeOK
<1> QED
  BY <1>2

LEMMA HonestNext ==
    ASSUME Good, TypeOK', StepFacts, Honest, Paired PROVE Honest'
<1> SUFFICES ASSUME NEW n \in Node, NEW q \in Node, NEW c \in Nat \ {0},
                    leading'[n], Acked(n, q, c)'
             PROVE  /\ currentTerm'[q] >= currentTerm'[n]
                    /\ currentTerm'[q] = currentTerm'[n] => c <= Len(log'[q])
  BY DEF Honest
<1>1. TypeOK
  BY DEF Good, Known
<1>2. currentTerm'[n] = currentTerm[n] /\ currentTerm'[q] >= currentTerm[q]
  BY DEF StepFacts, Moves, Sticks
<1>3. /\ currentTerm[n] \in Nat /\ currentTerm'[n] \in Nat
      /\ currentTerm[q] \in Nat /\ currentTerm'[q] \in Nat
      /\ Len(log[q]) \in Nat /\ Len(log'[q]) \in Nat
  BY <1>1, Numbers
<1>4. CASE currentTerm'[q] = currentTerm'[n] /\ c <= Len(log'[q])
  BY <1>3, <1>4
<1>5. CASE leading[n] /\ Acked(n, q, c)
  <2>1. /\ currentTerm[q] >= currentTerm[n]
        /\ currentTerm[q] = currentTerm[n] => c <= Len(log[q])
    BY <1>5 DEF Honest
  <2>2. currentTerm'[q] >= currentTerm'[n]
    BY <1>2, <1>3, <2>1
  <2>3. ASSUME currentTerm'[q] = currentTerm'[n] PROVE c <= Len(log'[q])
    <3>1. currentTerm[q] = currentTerm[n] /\ c <= Len(log[q])
      BY <1>2, <1>3, <2>1, <2>3
    <3>2. Moves(q)
      BY DEF StepFacts
    <3>3. ASSUME NEW l \in Node, TakesOver(q, l) PROVE c <= Len(log'[q])
      <4>1. /\ leading[l] /\ currentTerm'[q] = currentTerm[l]
            /\ Len(log'[q]) \in (nextIndex[l][q] - 1)..Len(log[l])
        BY <3>3 DEF TakesOver
      <4>2. <<currentTerm[n], l>> \in wins
        BY <1>2, <2>3, <4>1 DEF Good, LeadersWon
      <4>3. n = l
        BY <1>1, <1>5, <4>2, OneLeads DEF Good, Known
      <4>4. c < nextIndex[l][q] /\ nextIndex[l][q] \in Nat
        BY <1>1, <1>5, <3>3, <4>3, CountedKept DEF TypeOK
      <4> QED
        BY <1>3, <4>1, <4>4
    <3>4. CASE Keeps(q) \/ Grows(q)
      BY <1>3, <3>1, <3>4 DEF Grows, Keeps
    <3> QED
      BY <3>2, <3>3, <3>4 DEF Moves
  <2> QED
    BY <2>2, <2>3
<1> QED
  BY <1>4, <1>5, AcksCome

-----------------------------------------------------------------------------
(* What a leader can commit stays: nobody shorter leads from then on.      *)

\* Nor does leader p ask q to append where it would lose what is before c.
Reach(p, q, c) ==
    /\ c < nextIndex[p][q]
    /\ Refuses(q, p) => c < nextIndex[p][q] - 1

\* The nodes of A have reached c in term t, and so has whoever leads in t or
\* later, and whoever stands for election after t with a vote from A.
Firm(A, c, t) ==
    /\ \A q \in A : currentTerm[q] >= t /\ c <= Len(log[q])
    /\ \A p \in Node : leading[p] /\ currentTerm[p] >= t => c <= Len(log[p])
    /\ \A p \in Node : leading[p] /\ currentTerm[p] > t =>
          \A q \in Node \ {p} : q \in A \/ currentTerm[q] <= t => Reach(p, q, c)
    /\ \A p \in Node : lock[p] = "vote" /\ currentTerm[p] > t =>
          \A q \in A : <<q, currentTerm[p], p>> \in votes => c <= Len(log[p])

(* A vote is not of a newer term than its voter.                           *)
LEMMA VoterCaughtUp ==
    ASSUME ElectionInv, NEW q, NEW t, NEW p, <<q, t, p>> \in votes
    PROVE  t <= currentTerm[q]
BY DEF ElectionInv, VotesOnDisk

LEMMA FirmStep ==
    ASSUME Good, TypeOK', ElectionInv', StepFacts,
           NEW A \in SUBSET Node, NEW B \in SUBSET Node, NEW c \in Nat, NEW t \in Nat,
           Firm(A, c, t),
           \A q \in B : q \in A \/ (currentTerm'[q] = t /\ c <= Len(log'[q])),
           \A p \in Node : Won(p) /\ currentTerm[p] >= t => c <= Len(log[p]),
           \A q \in A, l \in Node :
              TakesOver(q, l) /\ currentTerm[l] = t => c < nextIndex[l][q]
    PROVE  Firm(B, c, t)'
<1>1. TypeOK
  BY DEF Good, Known
<1>2. ASSUME NEW q \in B PROVE currentTerm'[q] >= t /\ c <= Len(log'[q])
  <2>1. CASE q \in A
    <3>1. currentTerm[q] >= t /\ c <= Len(log[q])
      BY <2>1 DEF Firm
    <3>2. ASSUME NEW l \in Node, TakesOver(q, l) PROVE c <= Len(log'[q])
      <4>1. /\ leading[l] /\ currentTerm[l] >= currentTerm[q] /\ q \in Node \ {l}
            /\ Len(log'[q]) \in (nextIndex[l][q] - 1)..Len(log[l])
        BY <3>2 DEF TakesOver
      <4>2. currentTerm[l] >= t /\ nextIndex[l][q] \in Nat
        BY <1>1, <3>1, <4>1, Numbers
      <4>3. c < nextIndex[l][q]
        <5>1. CASE currentTerm[l] = t
          BY <2>1, <3>2, <5>1
        <5>2. CASE currentTerm[l] > t
          BY <2>1, <4>1, <5>2 DEF Firm, Reach
        <5> QED
          BY <1>1, <4>2, <5>1, <5>2, Numbers
      <4> QED
        BY <1>1, <4>1, <4>2, <4>3, Numbers
    <3>3. CASE Keeps(q) \/ Grows(q)
      BY <1>1, <3>1, <3>3, Numbers DEF Grows, Keeps
    <3>4. Moves(q) /\ currentTerm'[q] >= t
      BY <1>1, <3>1, Numbers
    <3> QED
      BY <3>2, <3>3, <3>4 DEF Moves
  <2>2. CASE currentTerm'[q] = t /\ c <= Len(log'[q])
    BY <2>2
  <2> QED
    BY <2>1, <2>2
<1>3. ASSUME NEW p \in Node, leading'[p], currentTerm'[p] >= t
      PROVE  c <= Len(log'[p])
  <2>1. Moves(p)
    BY DEF StepFacts
  <2>2. currentTerm[p] >= t /\ (leading[p] \/ Won(p))
    BY <1>3, <2>1 DEF Moves
  <2>3. c <= Len(log[p])
    BY <2>2 DEF Firm
  <2>4. Len(log'[p]) = Len(log[p]) \/ Len(log'[p]) = Len(log[p]) + 1
    BY <1>3, <2>1 DEF Moves, Keeps, Grows, TakesOver
  <2> QED
    BY <1>1, <2>3, <2>4, Numbers
<1>4. ASSUME NEW p \in Node, NEW q \in B, lock'[p] = "vote", currentTerm'[p] > t,
             <<q, currentTerm'[p], p>> \in votes'
      PROVE  c <= Len(log'[p])
  <2>1. Moves(p) /\ Len(log'[p]) = Len(log[p])
    BY <1>4 DEF StepFacts, Moves, Keeps
  <2>2. CASE q = p
    BY <1>2, <2>2
  <2>3. CASE q # p
    <3>1. lock[p] = "vote" /\ currentTerm'[p] = currentTerm[p]
      BY <1>4, <2>1, <2>3 DEF Moves, Campaigns
    <3>2. currentTerm'[p] <= currentTerm'[q]
      BY <1>4 DEF ElectionInv, VotesOnDisk
    <3>3. q \in A
      BY <1>1, <1>4, <3>2, Numbers
    <3>4. CASE <<q, currentTerm'[p], p>> \in votes
      BY <1>4, <2>1, <3>1, <3>3, <3>4 DEF Firm
    <3>5. CASE NewVote(<<q, currentTerm'[p], p>>)
      <4>1. Len(log[q]) <= Len(log[p]) /\ c <= Len(log[q])
        BY <1>4, <2>3, <3>3, <3>5 DEF NewVote, Firm
      <4> QED
        BY <1>1, <2>1, <4>1, Numbers
    <3> QED
      BY <1>4, <3>4, <3>5 DEF StepFacts
  <2> QED
    BY <2>2, <2>3
<1>5. ASSUME NEW p \in Node, NEW q \in Node \ {p}, leading'[p], currentTerm'[p] > t,
             q \in B \/ currentTerm'[q] <= t
      PROVE  Reach(p, q, c)'
  <2>1. /\ currentTerm[p] > t /\ Counts(p, q) /\ (leading[p] \/ Won(p))
        /\ currentTerm'[p] = currentTerm[p]
    BY <1>5 DEF StepFacts, Moves
  <2>2. q \in A \/ currentTerm[q] <= t
    BY <1>1, <1>5, Numbers
  <2>3. c <= Len(log[p])
    BY <1>1, <2>1, Numbers DEF Firm
  <2>4. leading[p] => Reach(p, q, c)
    BY <2>1, <2>2 DEF Firm
  <2>5. CASE SameCount(p, q)
    <3>1. c < nextIndex'[p][q]
      BY <2>4, <2>5 DEF SameCount, Reach
    <3>2. ASSUME Refuses(q, p)' PROVE c < nextIndex'[p][q] - 1
      <4>1. CASE Refuses(q, p)
        BY <2>4, <2>5, <4>1 DEF SameCount, Reach
      <4>2. CASE /\ currentTerm'[q] = currentTerm[p]
                 /\ Keeps(q) /\ Len(log[q]) < nextIndex[p][q] - 1
        <5>1. q \in A
          BY <1>1, <1>5, <2>1, <4>2, Numbers
        <5>2. c <= Len(log[q])
          BY <5>1 DEF Firm
        <5> QED
          BY <1>1, <2>5, <4>2, <5>2, Numbers DEF SameCount
      <4> QED
        BY <1>5, <3>2, <4>1, <4>2, RefusalsCome
    <3> QED
      BY <3>1, <3>2 DEF Reach
  <2>6. CASE FirstCount(p, q)
    <3>1. c < nextIndex'[p][q]
      BY <1>1, <2>3, <2>6, Numbers DEF FirstCount
    <3> QED
      BY <1>5, <2>6, <3>1, FirstRefusal DEF Reach
  <2>7. CASE NewCount(p, q)
    <3>1. PICK a \in net \ net' :
             /\ Appended(a, q, p) /\ a.term <= currentTerm[p] /\ leading[p]
             /\ \/ a.ok /\ nextIndex'[p][q] = Len(log[p]) + 1
                \/ ~a.ok /\ nextIndex'[p][q] = nextIndex[p][q] - 1
      BY <2>7 DEF NewCount
    <3>2. ~a.ok => c < nextIndex[p][q] - 1
      BY <2>4, <3>1 DEF Reach, Refuses
    <3>3. c < nextIndex'[p][q]
      BY <1>1, <2>3, <3>1, <3>2, Numbers
    <3> QED
      BY <1>5, <2>7, <3>3, CountedOnce DEF Reach
  <2> QED
    BY <2>1, <2>5, <2>6, <2>7 DEF Counts
<1> QED
  BY <1>2, <1>3, <1>4, <1>5 DEF Firm

(* A node that wins after t has a vote from A, unless all it has are from  *)
(* nodes that never got past t.                                            *)
LEMMA WinnerLong ==
    ASSUME Good, NEW A \in SUBSET Node, NEW S \in SUBSET Node, Majority(A \cup S),
           NEW c \in Nat, NEW t \in Nat, Firm(A, c, t),
           \A q \in S : currentTerm[q] <= t,
           NEW p \in Node, Won(p), currentTerm[p] > t
    PROVE  c <= Len(log[p])
<1>1. TypeOK /\ ElectionInv
  BY DEF Good, Known
<1>2. /\ yes[p] \in SUBSET Node /\ A \cup S \in SUBSET Node
      /\ Majority(yes[p]) /\ lock[p] = "vote"
  BY <1>1 DEF TypeOK, Won
<1>3. PICK r \in yes[p] \cap (A \cup S) : TRUE
  BY <1>2, MajoritiesMeet
<1>4. <<r, currentTerm[p], p>> \in votes
  BY <1>1, <1>3 DEF ElectionInv, CountedAreVotes
<1>5. currentTerm[p] <= currentTerm[r]
  BY <1>1, <1>4, VoterCaughtUp
<1>6. r \notin S
  BY <1>1, <1>2, <1>3, <1>5 DEF TypeOK
<1> QED
  BY <1>2, <1>3, <1>4, <1>6 DEF Firm

(* As long as nobody of a majority is past the leader's term, there is no  *)
(* other leader and no candidate to look out for.                          *)
LEMMA CaughtUp ==
    ASSUME TypeOK', ElectionInv', ElectionSafety', LeadersWon', Honest',
           NEW n \in Node, NEW A \in SUBSET Node, NEW S \in SUBSET Node,
           NEW c \in Nat \ {0}, NEW t \in Nat,
           leading'[n], currentTerm'[n] = t, c <= Len(log'[n]), Majority(A \cup S),
           \A q \in A : Acked(n, q, c)', \A q \in A \cup S : currentTerm'[q] <= t
    PROVE  Firm(A, c, t)'
<1>1. \A q \in Node : currentTerm'[q] \in Nat
  BY DEF TypeOK
<1>2. ASSUME NEW q \in A PROVE currentTerm'[q] >= t /\ c <= Len(log'[q])
  <2>1. currentTerm'[q] >= t /\ (currentTerm'[q] = t => c <= Len(log'[q]))
    BY DEF Honest
  <2>2. currentTerm'[q] <= t /\ currentTerm'[q] \in Nat
    BY <1>1
  <2> QED
    BY <2>1, <2>2
<1>3. ASSUME NEW p \in Node, leading'[p], currentTerm'[p] >= t
      PROVE  c <= Len(log'[p]) /\ currentTerm'[p] = t
  <2>1. <<currentTerm'[p], p>> \in wins' /\ <<t, n>> \in wins'
    BY <1>3 DEF LeadersWon
  <2>2. PICK P \in SUBSET Node :
           Majority(P) /\ \A q \in P : <<q, currentTerm'[p], p>> \in votes'
    BY <2>1 DEF ElectionInv, WinsHaveMajority, Majority
  <2>3. PICK r \in P \cap (A \cup S) : TRUE
    BY <2>2, MajoritiesMeet
  <2>4. currentTerm'[p] <= currentTerm'[r] /\ currentTerm'[r] <= t
    BY <2>2, <2>3 DEF ElectionInv, VotesOnDisk
  <2>5. currentTerm'[p] = t
    BY <1>1, <1>3, <2>3, <2>4
  <2>6. p = n
    BY <2>1, <2>5 DEF ElectionSafety
  <2> QED
    BY <2>5, <2>6
<1>4. ASSUME NEW p \in Node, NEW q \in A, currentTerm'[p] > t,
             <<q, currentTerm'[p], p>> \in votes'
      PROVE  FALSE
  <2>1. currentTerm'[p] <= currentTerm'[q] /\ currentTerm'[q] <= t
    BY <1>4 DEF ElectionInv, VotesOnDisk
  <2> QED
    BY <1>1, <1>4, <2>1
<1>5. \A p \in Node : leading'[p] => ~(currentTerm'[p] > t)
  BY <1>1, <1>3
<1> QED
  BY <1>2, <1>3, <1>4, <1>5 DEF Firm

(* Nodes that a leader counts are firm as soon as they are a majority with *)
(* others that are not past its term.                                      *)
Counted(n, A, S, c, t) ==
    /\ leading[n] /\ currentTerm[n] = t /\ c <= Len(log[n])
    /\ Majority(A \cup S)
    /\ \A q \in A : Acked(n, q, c)
    /\ \A q \in S : currentTerm[q] <= t
Choosable ==
    \A n \in Node : \A A, S \in SUBSET Node : \A c \in Nat \ {0} : \A t \in Nat :
        Counted(n, A, S, c, t) => Firm(A, c, t)

LEMMA ChoosableNext ==
    ASSUME Good, TypeOK', ElectionInv', ElectionSafety', LeadersWon', Honest',
           StepFacts, Paired, Choosable
    PROVE  Choosable'
<1> SUFFICES ASSUME NEW n \in Node, NEW A \in SUBSET Node, NEW S \in SUBSET Node,
                    NEW c \in Nat \ {0}, NEW t \in Nat,
                    leading'[n], currentTerm'[n] = t, c <= Len(log'[n]),
                    Majority(A \cup S), \A q \in A : Acked(n, q, c)',
                    \A q \in S : currentTerm'[q] <= t
             PROVE  Firm(A, c, t)'
  BY DEF Choosable, Counted, Majority
<1>1. TypeOK
  BY DEF Good, Known
<1>2. currentTerm[n] = t
  BY DEF StepFacts, Moves
<1>3. \A q \in A : \/ leading[n] /\ Acked(n, q, c)
                   \/ currentTerm'[q] = t /\ c <= Len(log'[q])
  BY AcksCome
<1>4. CASE leading[n] /\ c <= Len(log[n])
  <2>1. PICK A0 \in SUBSET A : \A q \in A : q \in A0 <=> Acked(n, q, c)
    <3>1. {q \in A : Acked(n, q, c)} \in SUBSET A
      OBVIOUS
    <3> QED
      BY <3>1
  <2>2. PICK S0 \in SUBSET Node : S0 = S \cup (A \ A0)
    OBVIOUS
  <2>3. A0 \cup S0 = A \cup S
    BY <2>1, <2>2
  <2>4. \A q \in A : q \in A0 \/ (currentTerm'[q] = t /\ c <= Len(log'[q]))
    BY <1>3, <2>1
  <2>5. \A q \in S0 : currentTerm[q] <= t
    <3> SUFFICES ASSUME NEW q \in S0 PROVE currentTerm[q] <= t
      OBVIOUS
    <3>1. q \in Node /\ currentTerm'[q] <= t
      BY <2>2, <2>4
    <3> QED
      BY <1>1, <3>1, Numbers
  <2>6. Firm(A0, c, t)
    BY <1>2, <1>4, <2>1, <2>3, <2>5 DEF Choosable, Counted
  <2>7. ASSUME NEW p \in Node, Won(p), currentTerm[p] >= t PROVE c <= Len(log[p])
    <3>1. CASE currentTerm[p] = t
      <4>1. <<t, p>> \in wins' /\ <<t, n>> \in wins'
        BY <1>2, <1>4, <2>7, <3>1 DEF Won, Good, LeadersWon, StepFacts
      <4>2. p = n
        BY <4>1 DEF ElectionSafety
      <4> QED
        BY <1>4, <4>2
    <3>2. CASE currentTerm[p] > t
      BY <2>3, <2>5, <2>6, <2>7, <3>2, WinnerLong
    <3> QED
      BY <1>1, <2>7, <3>1, <3>2, Numbers
  <2>8. ASSUME NEW q \in A0, NEW l \in Node, TakesOver(q, l), currentTerm[l] = t
        PROVE  c < nextIndex[l][q]
    <3>1. leading[l] /\ <<currentTerm[l], n>> \in wins
      BY <1>2, <1>4, <2>8 DEF TakesOver, Good, LeadersWon
    <3>2. l = n
      BY <1>1, <3>1, OneLeads DEF Good, Known
    <3> QED
      BY <2>1, <2>8, <3>2, CountedKept
  <2> QED
    BY <2>4, <2>6, <2>7, <2>8, FirmStep
<1>5. CASE ~(leading[n] /\ c <= Len(log[n]))
  <2>1. \A q \in A : currentTerm'[q] = t
    BY <1>3, <1>5 DEF Acked
  <2>2. \A q \in A \cup S : currentTerm'[q] <= t
    BY <2>1
  <2> QED
    BY <2>2, CaughtUp
<1> QED
  BY <1>4, <1>5

-----------------------------------------------------------------------------
(* Every commit index was chosen by a leader, and is firm since then.      *)

Settled(c, t) ==
    /\ \E w \in wins : w[1] = t
    /\ \E A \in SUBSET Node :
          /\ Majority(A) /\ Firm(A, c, t)
          /\ \A l \in Node : leading[l] /\ currentTerm[l] = t =>
                \A q \in A \ {l} : c <= matchIndex[l][q]

\* A node has c as its commit index, or is being sent it.
HasCommit(c) ==
    \/ \E p \in Node : commitIndex[p] = c
    \/ \E m \in net : m.type = "append" /\ m.live /\ m.commit = c

CommitsSettled ==
    \A c \in Nat \ {0} : HasCommit(c) => \E t \in Nat : Settled(c, t)

LEMMA SettledStep ==
    ASSUME Good, TypeOK', ElectionInv', ElectionSafety', StepFacts, Paired,
           NEW c \in Nat, NEW t \in Nat, Settled(c, t)
    PROVE  Settled(c, t)'
<1>1. PICK w \in wins : w[1] = t
  BY DEF Settled
<1>2. PICK A \in SUBSET Node :
         /\ Majority(A) /\ Firm(A, c, t)
         /\ \A l \in Node : leading[l] /\ currentTerm[l] = t =>
               \A q \in A \ {l} : c <= matchIndex[l][q]
  BY DEF Settled
<1>3. TypeOK
  BY DEF Good, Known
<1>4. ASSUME NEW p \in Node, Won(p), currentTerm[p] >= t
      PROVE  c <= Len(log[p]) /\ currentTerm[p] # t
  <2>1. currentTerm[p] # t
    <3> SUFFICES ASSUME currentTerm[p] = t PROVE FALSE
      OBVIOUS
    <3>1. w[2] = p
      BY <1>1, <1>4 DEF Won, StepFacts, ElectionSafety
    <3>2. w[1] < currentTerm[p]
      BY <1>4, <3>1 DEF Won, Good, LeadersWon
    <3> QED
      BY <1>1, <3>2
  <2>2. currentTerm[p] > t
    BY <1>3, <1>4, <2>1, Numbers
  <2>3. PICK S \in SUBSET Node : S = {}
    OBVIOUS
  <2>4. Majority(A \cup S) /\ \A q \in S : currentTerm[q] <= t
    <3>1. A \cup S = A
      BY <2>3
    <3> QED
      BY <1>2, <2>3, <3>1
  <2> QED
    BY <1>2, <1>4, <2>1, <2>2, <2>4, WinnerLong
<1>5. ASSUME NEW q \in A, NEW l \in Node, TakesOver(q, l), currentTerm[l] = t
      PROVE  c < nextIndex[l][q]
  <2>1. leading[l] /\ q \in A \ {l} /\ q \in Node
    BY <1>5 DEF TakesOver
  <2>2. c <= matchIndex[l][q] /\ matchIndex[l][q] < nextIndex[l][q]
    BY <1>2, <1>5, <2>1 DEF Paired
  <2> QED
    BY <1>3, <2>1, <2>2, Numbers
<1>6. Firm(A, c, t)'
  BY <1>2, <1>4, <1>5, FirmStep
<1>7. ASSUME NEW l \in Node, leading'[l], currentTerm'[l] = t, NEW q \in A \ {l}
      PROVE  c <= matchIndex'[l][q]
  <2>1. currentTerm[l] = t /\ Counts(l, q)
    BY <1>7 DEF StepFacts, Moves
  <2>2. ~Won(l)
    BY <1>4, <2>1
  <2>3. leading[l] => c <= matchIndex[l][q] /\ c <= Len(log[l])
    BY <1>2, <2>1 DEF Firm
  <2>4. leading[l] /\ matchIndex'[l][q] \in {matchIndex[l][q], Len(log[l])}
    BY <2>1, <2>2 DEF Counts, SameCount, FirstCount, NewCount
  <2> QED
    BY <2>3, <2>4
<1>8. w \in wins'
  BY DEF StepFacts
<1> QED
  BY <1>1, <1>2, <1>6, <1>7, <1>8 DEF Settled, Majority

\* calcCommitIndex of a leader gives c.
Chosen(c) ==
    \E n, m \in Node : /\ leading[n] /\ matchIndex[n][m] = c
                       /\ IsCommitIndex(matchIndex[n], c)

LEMMA ChosenSettled ==
    ASSUME Cardinality(Node) > 1, Good, Choosable, NEW c \in Nat \ {0}, Chosen(c)
    PROVE  \E t \in Nat : Settled(c, t)
<1>1. TypeOK /\ NextIndexInRange
  BY DEF Good, Known, BroadcastInv, InRange, NextIndexInRange
<1>2. PICK n \in Node, m \in Node : /\ leading[n] /\ matchIndex[n][m] = c
                                    /\ IsCommitIndex(matchIndex[n], c)
  BY DEF Chosen
<1>3. c <= Len(log[n])
  BY <1>1, <1>2, CommitInsideLog
<1>4. PICK A \in SUBSET Node : A = {p \in Node : matchIndex[n][p] >= c}
  OBVIOUS
<1>5. Majority(A \cup {})
  <2>1. A \cup {} = A
    OBVIOUS
  <2> QED
    BY <1>2, <1>4, <2>1 DEF IsCommitIndex
<1>6. \A q \in A : Acked(n, q, c)
  BY <1>3, <1>4 DEF Acked
<1>7. PICK t \in Nat : t = currentTerm[n]
  BY <1>1 DEF TypeOK
<1>8. Firm(A, c, t)
  <2>1. Counted(n, A, {}, c, t)
    BY <1>2, <1>3, <1>5, <1>6, <1>7 DEF Counted
  <2> QED
    BY <2>1 DEF Choosable
<1>9. <<t, n>> \in wins /\ <<t, n>>[1] = t
  BY <1>2, <1>7 DEF Good, LeadersWon
<1>10. Majority(A)
  <2>1. A \cup {} = A
    OBVIOUS
  <2> QED
    BY <1>5, <2>1
<1>11. ASSUME NEW l \in Node, leading[l], currentTerm[l] = t, NEW q \in A \ {l}
       PROVE  c <= matchIndex[l][q]
  <2>1. l = n
    BY <1>1, <1>9, <1>11, OneLeads DEF Good, Known
  <2> QED
    BY <1>1, <1>4, <2>1 DEF TypeOK
<1> QED
  BY <1>8, <1>9, <1>10, <1>11 DEF Settled

\* The commit index of p stays, is lost in a restart, is one that a leader
\* has sent, or is the one that p has chosen.
Commits(p) ==
    \/ commitIndex'[p] \in {commitIndex[p], 0}
    \/ \E m \in net : /\ m.type = "append" /\ m.live /\ m.commit = commitIndex'[p]
                      /\ m.term = currentTerm'[p]
    \/ /\ CalcCommit(p) /\ leading[p]
       /\ \E m \in Node : matchIndex[p][m] = commitIndex'[p]
       /\ IsCommitIndex(matchIndex[p], commitIndex'[p])

\* What a request says of commits was on its way, or is its leader's.
SaysCommitted(a) ==
    \/ \E m \in net : /\ m.type = "append" /\ m.live
                      /\ m.commit = a.commit /\ m.term = a.term
    \/ \E p \in Node : leading[p] /\ currentTerm'[p] = a.term /\ commitIndex'[p] = a.commit

CommitFacts ==
    /\ \A p \in Node : Commits(p)
    /\ \A a \in net' : a.type = "append" /\ a.live => SaysCommitted(a)

(* Most steps commit nothing and send no commit index.                     *)
LEMMA SameCommits ==
    ASSUME UNCHANGED commitIndex, \A m \in net' : m.type = "append" /\ m.live => m \in net
    PROVE  CommitFacts
BY DEF CommitFacts, Commits, SaysCommitted

LEMMA AcceptCommits ==
    ASSUME Good, Undisturbed', NEW n \in Node, AcceptAppend(n) PROVE CommitFacts
<1>1. PICK m \in net :
         /\ m.type = "append" /\ m.live
         /\ commitIndex' = [commitIndex EXCEPT ![n] = Larger(commitIndex[n], m.commit)]
         /\ currentTerm' = [currentTerm EXCEPT ![n] = m.term]
         /\ net' = Answered(m, AppendAnswer(m, m.term, TRUE))
  BY DEF AcceptAppend, CommitChanges, FollowLeader, Undisturbed
<1>2. AppendAnswer(m, m.term, TRUE).type = "appended"
  BY DEF AppendAnswer, VoteAnswer
<1>3. \A a \in net' : a.type = "append" => a \in net
  BY <1>1, <1>2 DEF Answered
<1>4. ASSUME NEW p \in Node
      PROVE  \/ commitIndex'[p] = commitIndex[p]
             \/ commitIndex'[p] = m.commit /\ currentTerm'[p] = m.term
  BY <1>1 DEF Good, Known, TypeOK, Larger
<1> QED
  BY <1>1, <1>3, <1>4 DEF CommitFacts, Commits, SaysCommitted

LEMMA CalcCommits ==
    ASSUME Good, NEW n \in Node, CalcCommit(n) PROVE CommitFacts
<1>1. TypeOK /\ leading[n] /\ currentTerm' = currentTerm
  BY DEF Good, Known, LeadershipFlags, CalcCommit, diskVars
<1>2. PICK idx \in {matchIndex[n][k] : k \in Node} :
         /\ IsCommitIndex(matchIndex[n], idx)
         /\ \/ UNCHANGED <<commitIndex, net>>
            \/ /\ commitIndex' = [commitIndex EXCEPT ![n] = idx]
               /\ \E late \in SUBSET Pending(n) :
                    net' = (net \ late) \cup {[m EXCEPT !.commit = idx] : m \in late}
  BY DEF CalcCommit, CommitChanges, commitVars
<1>3. CASE UNCHANGED <<commitIndex, net>>
  BY <1>3, SameCommits
<1>4. ASSUME NEW late \in SUBSET Pending(n),
             commitIndex' = [commitIndex EXCEPT ![n] = idx],
             net' = (net \ late) \cup {[m EXCEPT !.commit = idx] : m \in late}
      PROVE  CommitFacts
  <2>1. \A p \in Node : commitIndex'[p] = IF p = n THEN idx ELSE commitIndex[p]
    BY <1>1, <1>4 DEF TypeOK
  <2>2. \A p \in Node : Commits(p)
    BY <1>1, <1>2, <2>1 DEF Commits
  <2>3. ASSUME NEW a \in net', a.type = "append", a \notin net PROVE SaysCommitted(a)
    <3>1. PICK m \in late : a = [m EXCEPT !.commit = idx]
      BY <1>4, <2>3
    <3>2. m \in net /\ m.caller = n /\ m.live /\ (m \in VoteRequest \/ m \in AppendRequest)
      BY <1>1, PendingRequests DEF Request, Pending, Calls
    <3>3. m \in AppendRequest
      BY <2>3, <3>1, <3>2 DEF VoteRequest
    <3>4. a.commit = idx /\ a.term = m.term /\ m.type = "append"
      BY <3>1, <3>3 DEF AppendRequest
    <3>5. m.term = currentTerm[n]
      BY <3>2, <3>4 DEF Good, Known, BroadcastInv, InRound, OfItsRound, BuiltFromLog
    <3> QED
      BY <1>1, <2>1, <3>4, <3>5 DEF SaysCommitted
  <2>4. \A a \in net' : a.type = "append" /\ a.live => SaysCommitted(a)
    BY <2>3 DEF SaysCommitted
  <2> QED
    BY <2>2, <2>4 DEF CommitFacts
<1> QED
  BY <1>2, <1>3, <1>4

LEMMA BroadcastCommits ==
    ASSUME Good, NEW n \in Node, StartBroadcast(n) PROVE CommitFacts
<1>1. leading[n] /\ UNCHANGED <<currentTerm, commitIndex>>
  BY DEF StartBroadcast, diskVars, commitVars, Good, Known, LeadershipFlags
<1>2. \A a \in net' : a \in net \/ (a.commit = commitIndex[n] /\ a.term = currentTerm[n])
  BY DEF StartBroadcast
<1> QED
  BY <1>1, <1>2 DEF CommitFacts, Commits, SaysCommitted

(* A node that starts again has committed nothing.                         *)
LEMMA FailureCommits ==
    ASSUME Good, Undisturbed', NEW n \in Node, Failure(n) PROVE CommitFacts
<1>1. \A m \in net' : m.live => m \in net
  BY FailureLeaves DEF Good, Leftover
<1>2. commitIndex' = [commitIndex EXCEPT ![n] = 0]
  BY DEF Failure, Crash, CrashInVote, CrashInAppend, Reboot
<1>3. \A p \in Node : commitIndex'[p] \in {commitIndex[p], 0}
  BY <1>2 DEF Good, Known, TypeOK
<1> QED
  BY <1>1, <1>3 DEF CommitFacts, Commits, SaysCommitted

LEMMA CommitFactsHold ==
    ASSUME Good, Undisturbed', [Next]_vars PROVE CommitFacts
<1> USE DEF commitVars
<1>1. TypeOK /\ ElectionInv /\ OnTime
  BY DEF Good, Known
<1>2. CASE UNCHANGED vars
  BY <1>2, SameCommits DEF vars
<1>3. ASSUME NEW n \in Node, Election(n) PROVE CommitFacts
  <2>1. CASE TimerFires(n) \/ CheckAlreadyLeader(n) \/ CountVote(n)
    BY <2>1, SameCommits DEF TimerFires, CheckAlreadyLeader, CountVote
  <2>2. CASE StartElection(n)
    BY <2>2, SameCommits DEF StartElection
  <2>3. CASE StepDown(n) \/ LoseElection(n) \/ WinElection(n)
    <3>1. \A m \in net' : m.live => m \in net
      BY <1>1, <2>3, RoundsEndCalm DEF Good, Leftover
    <3> QED
      BY <2>3, <3>1, SameCommits DEF StepDown, LoseElection, WinElection
  <2>4. CASE HandleRequestVote(n)
    <3>1. PICK m \in net : \E ok : net' = Answered(m, VoteAnswer(m, currentTerm'[n], ok))
      <4>1. PICK m \in net : HandleRequestVote(n)!2!(m)
        BY <2>4 DEF HandleRequestVote
      <4>2. \E ok : net' = Answered(m, VoteAnswer(m, currentTerm'[n], ok))
        BY <4>1
      <4> QED
        BY <4>2
    <3>2. \A t, ok : VoteAnswer(m, t, ok).type = "voted"
      BY DEF VoteAnswer
    <3>3. \A a \in net' : a.type = "append" => a \in net
      BY <3>1, <3>2 DEF Answered
    <3> QED
      BY <2>4, <3>3, SameCommits DEF HandleRequestVote
  <2> QED
    BY <1>3, <2>1, <2>2, <2>3, <2>4 DEF Election
<1>4. ASSUME NEW n \in Node, Replication(n) PROVE CommitFacts
  <2>1. CASE RejectStaleAppend(n) \/ RejectMismatch(n) \/ PanicInAppend(n)
    <3>1. PICK m \in net : \/ \E t : net' = Answered(m, AppendAnswer(m, t, FALSE))
                           \/ net' = net \ {m}
      BY <2>1 DEF RejectStaleAppend, RejectMismatch, PanicInAppend
    <3>2. \A t : AppendAnswer(m, t, FALSE).type = "appended"
      BY DEF AppendAnswer, VoteAnswer
    <3>3. \A a \in net' : a.type = "append" => a \in net
      BY <3>1, <3>2 DEF Answered
    <3> QED
      BY <2>1, <3>3, SameCommits DEF RejectStaleAppend, RejectMismatch, PanicInAppend
  <2>2. CASE HandleAppendAnswer(n)
    BY <2>2, SameCommits DEF HandleAppendAnswer
  <2>3. CASE EndBroadcast(n)
    <3>1. \A m \in net' : m.live => m \in net
      BY <1>1, <2>3, RoundsEndCalm DEF Good, Leftover
    <3> QED
      BY <2>3, <3>1, SameCommits DEF EndBroadcast
  <2> QED
    BY <1>4, <2>1, <2>2, <2>3, AcceptCommits, BroadcastCommits, CalcCommits DEF Replication
<1>5. ASSUME NEW n \in Node, Client(n) PROVE CommitFacts
  BY <1>5, SameCommits DEF Client, CheckLeader, ApplyRequest
<1> QED
  BY <1>1, <1>2, <1>3, <1>4, <1>5, FailureCommits DEF Next, IdleTick

LEMMA CommitsCome ==
    ASSUME CommitFacts, NEW c \in Nat \ {0}, HasCommit(c)'
    PROVE  HasCommit(c) \/ Chosen(c)
<1>1. ASSUME NEW p \in Node, commitIndex'[p] = c PROVE HasCommit(c) \/ Chosen(c)
  BY <1>1 DEF CommitFacts, Commits, HasCommit, Chosen
<1> QED
  BY <1>1 DEF CommitFacts, SaysCommitted, HasCommit

LEMMA CommitsSettledNext ==
    ASSUME Cardinality(Node) > 1, Undisturbed', Good, Paired, Choosable, CommitsSettled,
           [Next]_vars,
           TypeOK', ElectionInv', ElectionSafety', StepFacts
    PROVE  CommitsSettled'
<1> SUFFICES ASSUME NEW c \in Nat \ {0}, HasCommit(c)'
             PROVE  \E t \in Nat : Settled(c, t)'
  BY DEF CommitsSettled
<1>1. HasCommit(c) \/ Chosen(c)
  BY CommitFactsHold, CommitsCome
<1>2. PICK t \in Nat : Settled(c, t)
  BY <1>1, ChosenSettled DEF CommitsSettled
<1> QED
  BY <1>2, SettledStep

-----------------------------------------------------------------------------
(* The invariant, and what follows from it.                                *)

Lengths == OnTime /\ LeadersWon /\ Honest /\ Paired /\ Choosable /\ CommitsSettled

LEMMA LengthsInit == Init => Lengths
<1> SUFFICES ASSUME Init PROVE Lengths
  OBVIOUS
<1>1. OnTime
  BY DEF Init, OnTime, ZeroTerms
<1>2. LeadersWon
  BY DEF Init, LeadersWon
<1>3. Honest /\ Paired /\ Choosable
  BY DEF Init, Honest, Paired, Choosable, Counted
<1>4. CommitsSettled
  BY DEF Init, CommitsSettled, HasCommit
<1> QED
  BY <1>1, <1>2, <1>3, <1>4 DEF Lengths

LEMMA LengthsNext ==
    ASSUME Cardinality(Node) > 1, Undisturbed', Known, Known', ElectionSafety', Lengths, [Next]_vars
    PROVE  Lengths'
<1>1. Good
  BY DEF Good, Lengths
<1>2. TypeOK' /\ ElectionInv'
  BY DEF Known
<1>3. StepFacts
  BY <1>1, StepFactsHold
<1>4. OnTime'
  BY OnTimeNext DEF Lengths
<1>5. LeadersWon'
  BY <1>1, <1>2, <1>3, LeadersWonNext
<1>6. Honest' /\ Paired'
  BY <1>1, <1>2, <1>3, HonestNext, PairedNext DEF Lengths
<1>7. Choosable'
  BY <1>1, <1>2, <1>3, <1>5, <1>6, ChoosableNext DEF Lengths
<1>8. CommitsSettled'
  BY <1>1, <1>2, <1>3, CommitsSettledNext DEF Lengths
<1> QED
  BY <1>4, <1>5, <1>6, <1>7, <1>8 DEF Lengths

(* What has been disturbed stays so.                                       *)
LEMMA StaysUndisturbed ==
    ASSUME [Next]_vars, Undisturbed' PROVE Undisturbed
<1> SUFFICES ASSUME belated PROVE belated'
  BY DEF Undisturbed
<1> USE DEF history
<1>1. CASE UNCHANGED vars
  BY <1>1 DEF vars
<1>2. ASSUME NEW n \in Node, Election(n) PROVE belated'
  BY <1>2 DEF Election, TimerFires, CheckAlreadyLeader, StartElection, CountVote,
              StepDown, LoseElection, WinElection, HandleRequestVote
<1>3. ASSUME NEW n \in Node, Replication(n) PROVE belated'
  BY <1>3 DEF Replication, RejectStaleAppend, RejectMismatch, AcceptAppend,
              PanicInAppend, StartBroadcast, CalcCommit, HandleAppendAnswer, EndBroadcast
<1>4. ASSUME NEW n \in Node, Client(n) PROVE belated'
  BY <1>4 DEF Client, CheckLeader, ApplyRequest
<1>5. ASSUME NEW n \in Node, Failure(n) PROVE belated'
  BY <1>5 DEF Failure, Crash, CrashInVote, CrashInAppend
<1> QED
  BY <1>1, <1>2, <1>3, <1>4, <1>5 DEF Next, IdleTick

LEMMA LengthsHold ==
    ASSUME Cardinality(Node) > 1
    PROVE  Spec => [](Known /\ (Undisturbed => Lengths))
<1>1. Known /\ Known' /\ ElectionSafety' /\ (Undisturbed => Lengths) /\ [Next]_vars
         => (Undisturbed => Lengths)'
  BY StaysUndisturbed, LengthsNext
<1>2. TypeOK /\ ElectionInv /\ LeadershipFlags /\ BroadcastInv => Known
  BY DEF Known
<1>3. Init => (Undisturbed => Lengths)
  BY LengthsInit
<1> QED
  BY <1>1, <1>2, <1>3, TypeCorrect, ElectionInvariant, LeaderHasState,
     BroadcastInvariant, OneLeaderPerTerm, PTL DEF Spec

(* As long as no AppendEntries whose caller has given up on it is acted on, *)
(* a leader counts nothing as replicated that is not there, whoever        *)
(* restarts (raft.go:206-207): up to that step, and in every cluster of    *)
(* more than one node.                                                     *)
THEOREM LeaderCountsHonestly ==
    ASSUME Cardinality(Node) > 1
    PROVE  Spec => []MatchIndexHonest
<1>1. Known /\ (Undisturbed => Lengths) => MatchIndexHonest
  <2> SUFFICES ASSUME Known, Lengths, NEW n \in Node, NEW m \in Node,
                      n # m, leading[n], currentTerm[m] = currentTerm[n]
               PROVE  matchIndex[n][m] <= Len(log[m])
    BY DEF MatchIndexHonest
  <2>1. /\ matchIndex[n][m] \in Nat /\ Len(log[m]) \in Nat
        /\ matchIndex[n][m] <= Len(log[n])
    BY LogLength DEF Known, TypeOK, BroadcastInv, InRange
  <2>2. PICK c \in Nat : c = matchIndex[n][m]
    BY <2>1
  <2>3. CASE c = 0
    BY <2>1, <2>2, <2>3
  <2>4. CASE c # 0
    <3>1. Acked(n, m, c)
      BY <2>1, <2>2 DEF Acked
    <3> QED
      BY <2>2, <2>4, <3>1 DEF Lengths, Honest
  <2> QED
    BY <2>3, <2>4
<1> QED
  BY <1>1, LengthsHold, PTL

(* ... and the log of a leader of the newest term reaches every commit     *)
(* index, so that no follower is cut below what it has committed           *)
(* (log.go:175-178, raft.go:75-80).                                        *)
THEOREM LeaderReachesCommits ==
    ASSUME Cardinality(Node) > 1
    PROVE  Spec => []LeaderLongEnough
<1>1. Known /\ (Undisturbed => Lengths) => LeaderLongEnough
  <2> SUFFICES ASSUME Known, Lengths, NEW n \in Node, leading[n],
                      \A m \in Node : currentTerm[m] <= currentTerm[n],
                      NEW m \in Node
               PROVE  commitIndex[m] <= Len(log[n])
    BY DEF LeaderLongEnough
  <2>1. /\ commitIndex[m] \in Nat /\ Len(log[n]) \in Nat
        /\ \A p \in Node : currentTerm[p] \in Nat
        /\ \A w \in wins : w[1] \in Nat /\ w[2] \in Node
    BY LogLength DEF Known, TypeOK
  <2>2. PICK c \in Nat : c = commitIndex[m]
    BY <2>1
  <2>3. CASE c = 0
    BY <2>1, <2>2, <2>3
  <2>4. CASE c # 0
    <3>1. HasCommit(c)
      BY <2>2 DEF HasCommit
    <3>2. PICK t \in Nat : Settled(c, t)
      BY <2>4, <3>1 DEF Lengths, CommitsSettled
    <3>3. PICK w \in wins : w[1] = t
      BY <3>2 DEF Settled
    <3>4. w[1] <= currentTerm[w[2]] /\ currentTerm[w[2]] <= currentTerm[n]
      BY <2>1 DEF Lengths, LeadersWon
    <3>5. currentTerm[n] >= t
      BY <2>1, <3>3, <3>4
    <3> QED
      BY <2>2, <3>2, <3>5 DEF Settled, Firm
  <2> QED
    BY <2>3, <2>4
<1> QED
  BY <1>1, LengthsHold, PTL

=============================================================================

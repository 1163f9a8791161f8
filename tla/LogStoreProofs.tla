-------------------------- MODULE LogStoreProofs --------------------------
(***************************************************************************)
(* What a restart finds in log.json, for any entries, any number of them   *)
(* and of process ends, as long as no rewrite failed in silence: the       *)
(* entries in front of the first torn piece are the first ones of memory.  *)
(*                                                                         *)
(* FileFollowsMemory says this of a process that runs and is between two   *)
(* writes.  It is not inductive: the invariant also speaks of the file in  *)
(* the middle of an entry or of a cut, and of the file an ended process    *)
(* left.                                                                   *)
(***************************************************************************)
EXTENDS LogStore, TLAPS, SequenceTheorems, WellFoundedInduction

LogTypeOK ==
    /\ file \in Seq(Piece) /\ mem \in Seq(Value) /\ before \in Seq(Value)
    /\ phase \in {"idle", "data", "grow", "dump"} /\ entry \in Value
    /\ status \in {"up", "down", "failed"}
    /\ shortDumps \in Nat

\* The pieces of f up to i are entries.
WholeTo(f, i) == \A j \in 1..i : Readable(f[j])

\* What can be read of f are the first entries of s.
Behind(f, s) ==
    \A i \in 1..Len(f) : WholeTo(f, i) => i <= Len(s) /\ f[i].entry = s[i]

\* ... and all of them, when all of f can be read.
Follows(f, s) == Behind(f, s) /\ (WholeTo(f, Len(f)) => Len(f) = Len(s))

LogInv ==
    /\ phase # "idle" => status = "up"
    /\ phase = "data" => file # <<>> /\ ~Readable(file[Len(file)])
    /\ shortDumps = 0 =>
         /\ status = "up" /\ phase = "idle" => Follows(file, mem)
         /\ phase = "data" => Follows(Front(file), mem)
         /\ phase = "grow" => Follows(file, Append(mem, entry))
         /\ phase = "dump" => Follows(file, before)
         /\ status = "down" => Behind(file, before)

-----------------------------------------------------------------------------
(* Sequences.                                                              *)

LEMMA FrontOf ==
    ASSUME NEW S, NEW s \in Seq(S), s # <<>>
    PROVE  /\ Front(s) \in Seq(S) /\ Len(Front(s)) = Len(s) - 1 /\ Len(s) \in Nat \ {0}
           /\ \A i \in 1..Len(s) - 1 : Front(s)[i] = s[i]
<1>1. Len(s) \in Nat \ {0}
  BY EmptySeq
<1>2. \A i \in 1..Len(s) - 1 : s[i] \in S
  BY <1>1, ElementOfSeq
<1>3. Len(s) - 1 \in Int
  BY <1>1
<1> DEFINE k == Len(s) - 1
<1>4. /\ SubSeq(s, 1, k) \in Seq(S)
      /\ Len(SubSeq(s, 1, k)) = IF 1 <= k THEN k - 1 + 1 ELSE 0
      /\ \A i \in 1..k - 1 + 1 : SubSeq(s, 1, k)[i] = s[1 + i - 1]
  BY <1>2, <1>3, SubSeqProperties
<1>5. Front(s) = SubSeq(s, 1, k)
  BY DEF Front
<1>6. k - 1 + 1 = k /\ k \in Nat /\ \A i \in 1..k : 1 + i - 1 = i
  BY <1>1
<1>7. Len(Front(s)) = k
  BY <1>4, <1>5, <1>6
<1>8. \A i \in 1..k : Front(s)[i] = s[i]
  BY <1>4, <1>5, <1>6
<1> QED
  BY <1>1, <1>4, <1>5, <1>7, <1>8

LEMMA PrefixOf ==
    ASSUME NEW S, NEW s \in Seq(S), NEW n \in Nat, n <= Len(s)
    PROVE  /\ SubSeq(s, 1, n) \in Seq(S) /\ Len(SubSeq(s, 1, n)) = n
           /\ \A i \in 1..n : SubSeq(s, 1, n)[i] = s[i]
<1>1. Len(s) \in Nat
  BY LenProperties
<1>2. \A i \in 1..n : s[i] \in S
  BY <1>1, ElementOfSeq
<1>3. /\ SubSeq(s, 1, n) \in Seq(S)
      /\ Len(SubSeq(s, 1, n)) = IF 1 <= n THEN n - 1 + 1 ELSE 0
      /\ \A i \in 1..n - 1 + 1 : SubSeq(s, 1, n)[i] = s[1 + i - 1]
  BY <1>2, SubSeqProperties
<1>4. n - 1 + 1 = n /\ \A i \in 1..n : 1 + i - 1 = i
  OBVIOUS
<1> QED
  BY <1>3, <1>4

LEMMA FrontOfAppend ==
    ASSUME NEW S, NEW s \in Seq(S), NEW e \in S
    PROVE  Front(Append(s, e)) = s
<1> DEFINE t == Append(s, e)
<1>1. t \in Seq(S) /\ t # <<>> /\ Len(t) = Len(s) + 1 /\ Len(s) \in Nat
  BY AppendProperties, LenProperties
<1>2. \A i \in 1..Len(s) : t[i] = s[i]
  BY AppendProperties
<1> HIDE DEF t
<1>3. Front(t) \in Seq(S) /\ Len(Front(t)) = Len(s) /\ \A i \in 1..Len(s) : Front(t)[i] = t[i]
  BY <1>1, FrontOf
<1>4. Front(t) = s
  BY <1>1, <1>2, <1>3, SeqEqual
<1> QED
  BY <1>4 DEF t

(* Among the readable prefixes of the file there is a longest one.         *)
LEMMA Longest ==
    ASSUME NEW N \in Nat, NEW T \in SUBSET (0..N), T # {}
    PROVE  \E k \in T : \A j \in T : j <= k
<1> DEFINE U == {N - k : k \in T}
<1>1. U \in SUBSET Nat /\ U # {}
  OBVIOUS
<1>2. PICK x \in U : \A y \in U : ~(<<y, x>> \in OpToRel(<, Nat))
  <2> HIDE DEF U
  <2> QED BY <1>1, NatLessThanWellFounded, WFMin
<1>3. OpToRel(<, Nat) = {ss \in Nat \X Nat : ss[1] < ss[2]}
  BY DEF OpToRel
<1>4. \A y \in U : ~(<<y, x>> \in {ss \in Nat \X Nat : ss[1] < ss[2]})
  BY <1>2, <1>3, Zenon
<1>5. \A y \in U : x <= y
  <2>1. \A a, b \in Nat : a < b => <<a, b>> \in {ss \in Nat \X Nat : ss[1] < ss[2]}
    OBVIOUS
  <2> HIDE DEF U
  <2>2. \A y \in U : y \in Nat /\ x \in Nat /\ ~(y < x)
    BY <1>1, <1>2, <1>4, <2>1
  <2>3. \A a, b \in Nat : ~(a < b) => b <= a
    OBVIOUS
  <2> QED BY <2>2, <2>3
<1>6. PICK k \in T : x = N - k
  BY <1>2
<1>7. \A j \in T : x <= N - j
  BY <1>5
<1>8. \A j \in T : j <= k
  BY <1>6, <1>7
<1> QED
  BY <1>8

LEMMA ReadableMost ==
    ASSUME LogTypeOK
    PROVE  /\ NumReadable \in 0..Len(file) /\ Len(file) \in Nat
           /\ WholeTo(file, NumReadable)
           /\ \A i \in 1..Len(file) : WholeTo(file, i) => i <= NumReadable
<1>1. Len(file) \in Nat
  BY LenProperties DEF LogTypeOK
<1>2. ReadablePrefixes \in SUBSET (0..Len(file)) /\ 0 \in ReadablePrefixes
  BY <1>1 DEF ReadablePrefixes
<1>3. \E k \in ReadablePrefixes : \A j \in ReadablePrefixes : j <= k
  BY <1>1, <1>2, Longest
<1>4. NumReadable \in ReadablePrefixes /\ \A j \in ReadablePrefixes : j <= NumReadable
  BY <1>3 DEF NumReadable
<1> QED
  BY <1>1, <1>4 DEF ReadablePrefixes, WholeTo

-----------------------------------------------------------------------------
(* What one write does to the file.                                        *)

LEMMA TornBehind ==
    ASSUME NEW f \in Seq(Piece), NEW p \in Piece, ~Readable(p), NEW s, Behind(f, s)
    PROVE  Behind(Append(f, p), s)
<1> DEFINE g == Append(f, p)
<1>1. Len(g) = Len(f) + 1 /\ Len(f) \in Nat /\ g[Len(f) + 1] = p
  BY AppendProperties, LenProperties
<1>2. \A i \in 1..Len(f) : g[i] = f[i]
  BY AppendProperties
<1> HIDE DEF g
<1>3. ASSUME NEW i \in 1..Len(g), WholeTo(g, i) PROVE i <= Len(s) /\ g[i].entry = s[i]
  <2>1. i # Len(f) + 1
    BY <1>1, <1>3 DEF WholeTo
  <2>2. i \in 1..Len(f)
    BY <1>1, <2>1
  <2>3. WholeTo(f, i)
    BY <1>2, <1>3, <2>2 DEF WholeTo
  <2> QED
    BY <1>2, <2>2, <2>3 DEF Behind
<1>4. Behind(g, s)
  BY <1>3 DEF Behind
<1> QED
  BY <1>4 DEF g

LEMMA WholeFollows ==
    ASSUME NEW f \in Seq(Piece), NEW s \in Seq(Value), NEW e \in Value, Follows(f, s)
    PROVE  Follows(Append(f, Whole(e)), Append(s, e))
<1> DEFINE g == Append(f, Whole(e))
           t == Append(s, e)
<1>1. Whole(e) \in Piece /\ Whole(e).entry = e
  BY DEF Whole, Piece
<1>2. /\ Len(g) = Len(f) + 1 /\ Len(f) \in Nat /\ g[Len(f) + 1] = Whole(e)
      /\ \A i \in 1..Len(f) : g[i] = f[i]
  BY <1>1, AppendProperties, LenProperties
<1>3. /\ Len(t) = Len(s) + 1 /\ Len(s) \in Nat /\ t[Len(s) + 1] = e
      /\ \A i \in 1..Len(s) : t[i] = s[i]
  BY AppendProperties, LenProperties
<1> HIDE DEF g, t
<1>4. ASSUME WholeTo(g, Len(f) + 1) PROVE Len(f) = Len(s)
  <2>1. WholeTo(f, Len(f))
    BY <1>2, <1>4 DEF WholeTo
  <2> QED
    BY <2>1 DEF Follows
<1>5. ASSUME NEW i \in 1..Len(g), WholeTo(g, i) PROVE i <= Len(t) /\ g[i].entry = t[i]
  <2>1. CASE i = Len(f) + 1
    BY <1>1, <1>2, <1>3, <1>4, <1>5, <2>1
  <2>2. CASE i # Len(f) + 1
    <3>1. i \in 1..Len(f)
      BY <1>2, <2>2
    <3>2. WholeTo(f, i)
      BY <1>2, <1>5, <3>1 DEF WholeTo
    <3>3. i <= Len(s) /\ f[i].entry = s[i]
      BY <3>1, <3>2 DEF Follows, Behind
    <3> QED
      BY <1>2, <1>3, <3>1, <3>3
  <2> QED
    BY <2>1, <2>2
<1>6. Follows(g, t)
  BY <1>2, <1>3, <1>4, <1>5 DEF Follows, Behind
<1> QED
  BY <1>6 DEF g, t

LEMMA PiecesType ==
    ASSUME NEW s \in Seq(Value)
    PROVE  /\ Pieces(s) \in Seq(Piece) /\ Len(Pieces(s)) = Len(s)
           /\ \A i \in 1..Len(s) : Pieces(s)[i] = Whole(s[i])
<1>1. Len(s) \in Nat /\ DOMAIN s = 1..Len(s) /\ \A i \in 1..Len(s) : s[i] \in Value
  BY LenProperties, ElementOfSeq
<1>2. \A e \in Value : Whole(e) \in Piece
  BY DEF Whole, Piece
<1>3. Pieces(s) \in [1..Len(s) -> Piece]
  BY <1>1, <1>2 DEF Pieces
<1>4. Pieces(s) \in Seq(Piece)
  BY <1>1, <1>3, SeqDef
<1>5. Len(Pieces(s)) = Len(s)
  <2>1. DOMAIN Pieces(s) = 1..Len(s) /\ DOMAIN Pieces(s) = 1..Len(Pieces(s))
    BY <1>3, <1>4, LenProperties
  <2>2. Len(Pieces(s)) \in Nat
    BY <1>4, LenProperties
  <2> QED
    BY <1>1, <2>1, <2>2
<1> QED
  BY <1>1, <1>4, <1>5 DEF Pieces

LEMMA PiecesFollow ==
    ASSUME NEW s \in Seq(Value) PROVE Follows(Pieces(s), s)
<1>1. Len(s) \in Nat
  BY LenProperties
<1>2. Len(Pieces(s)) = Len(s) /\ \A i \in 1..Len(s) : Pieces(s)[i] = Whole(s[i])
  BY PiecesType
<1>3. \A e \in Value : Whole(e).entry = e
  BY DEF Whole
<1>4. \A i \in 1..Len(s) : s[i] \in Value
  BY ElementOfSeq
<1> QED
  BY <1>1, <1>2, <1>3, <1>4 DEF Follows, Behind


-----------------------------------------------------------------------------
(* Steps.                                                                  *)

LEMMA LogTypeNext == LogTypeOK /\ LogInv /\ [Next]_vars => LogTypeOK'
<1> SUFFICES ASSUME LogTypeOK, LogInv, [Next]_vars PROVE LogTypeOK'
  OBVIOUS
<1>1. \A e \in Value : Whole(e) \in Piece /\ Torn(e) \subseteq Piece
  BY DEF Whole, Torn, Piece
<1>2. \A e \in Value : /\ [part |-> "length", entry |-> e] \in Piece
                       /\ [part |-> "someLength", entry |-> e] \in Piece
                       /\ [part |-> "someData", entry |-> e] \in Piece
  BY DEF Piece
<1>3. phase = "data" => Front(file) \in Seq(Piece)
  BY FrontOf DEF LogTypeOK, LogInv
<1>4. \A keep \in 0..MaxPieces : keep < Len(mem) => SubSeq(mem, 1, keep) \in Seq(Value)
  <2> SUFFICES ASSUME NEW keep \in 0..MaxPieces, keep < Len(mem)
               PROVE  SubSeq(mem, 1, keep) \in Seq(Value)
    OBVIOUS
  <2>1. keep \in Int /\ Len(mem) \in Nat
    BY LenProperties DEF LogTypeOK
  <2>2. \A i \in 1..keep : mem[i] \in Value
    BY <2>1, ElementOfSeq DEF LogTypeOK
  <2> QED
    BY <2>1, <2>2, SubSeqProperties
<1>5. CASE UNCHANGED vars
  BY <1>5 DEF vars, LogTypeOK
<1>6. ASSUME NEW e \in Value, WriteLength(e) PROVE LogTypeOK'
  BY <1>2, <1>6, AppendProperties DEF WriteLength, LogTypeOK
<1>7. CASE WriteData
  <2>1. file' \in Seq(Piece)
    BY <1>1, <1>3, <1>7, AppendProperties DEF WriteData, LogTypeOK
  <2> QED
    BY <1>7, <2>1 DEF WriteData, LogTypeOK
<1>8. CASE Grow
  <2>1. mem' \in Seq(Value)
    BY <1>8, AppendProperties DEF Grow, LogTypeOK
  <2> QED
    BY <1>8, <2>1 DEF Grow, LogTypeOK
<1>9. Held \in Seq(Value)
  BY AppendProperties DEF Held, LogTypeOK
<1>10. CASE WriteFails
  <2>1. file' \in Seq(Piece)
    <3>1. CASE phase = "idle"
      <4>1. PICK e \in Value : file' = Append(file, [part |-> "someLength", entry |-> e])
        BY <1>10, <3>1 DEF WriteFails
      <4> QED
        BY <1>2, <4>1, AppendProperties DEF LogTypeOK
    <3>2. CASE phase = "data"
      <4>1. file' = Append(Front(file), [part |-> "someData", entry |-> entry])
        BY <1>10, <3>2 DEF WriteFails
      <4> QED
        BY <1>2, <1>3, <3>2, <4>1, AppendProperties DEF LogTypeOK
    <3> QED
      BY <1>10, <3>1, <3>2 DEF WriteFails
  <2> QED
    BY <1>9, <1>10, <2>1, EmptySeq DEF WriteFails, ProcessEnds, LogTypeOK
<1>11. CASE Crash
  BY <1>9, <1>11, EmptySeq DEF Crash, ProcessEnds, LogTypeOK
<1>12. ASSUME NEW keep \in 0..MaxPieces, Cut(keep) PROVE LogTypeOK'
  <2>1. mem' = SubSeq(mem, 1, keep) /\ keep < Len(mem)
    BY <1>12 DEF Cut
  <2>2. mem' \in Seq(Value)
    BY <1>4, <2>1
  <2> QED
    BY <1>12, <2>2 DEF Cut, LogTypeOK
<1>13. CASE Dump
  <2>1. file' \in Seq(Piece)
    BY <1>13, PiecesType DEF Dump, Rewritten, LogTypeOK
  <2> QED
    BY <1>13, <2>1 DEF Dump, LogTypeOK
<1>14. CASE DumpShort
  <2>1. PICK k \in 0..(Len(mem) - 1) :
           \E tail \in {<<>>} \cup {<<t>> : t \in Torn(mem[k + 1])} :
             file' = Pieces(SubSeq(mem, 1, k)) \o tail
    BY <1>14 DEF DumpShort
  <2>2. PICK tail \in {<<>>} \cup {<<t>> : t \in Torn(mem[k + 1])} :
           file' = Pieces(SubSeq(mem, 1, k)) \o tail
    BY <2>1
  <2>3. Len(mem) \in Nat
    BY LenProperties DEF LogTypeOK
  <2>4. k \in Int /\ k + 1 \in 1..Len(mem) /\ \A i \in 1..k : i \in 1..Len(mem)
    BY <2>3
  <2>5. mem[k + 1] \in Value /\ \A i \in 1..k : mem[i] \in Value
    BY <2>4, ElementOfSeq DEF LogTypeOK
  <2>6. SubSeq(mem, 1, k) \in Seq(Value)
    BY <2>4, <2>5, SubSeqProperties
  <2>7. tail \in Seq(Piece)
    <3>1. \A t \in Torn(mem[k + 1]) : t \in Piece
      BY <1>1, <2>5
    <3>2. \A t \in Piece : <<t>> \in Seq(Piece)
      OBVIOUS
    <3>3. <<>> \in Seq(Piece)
      BY EmptySeq
    <3> QED
      BY <3>1, <3>2, <3>3
  <2>8. Pieces(SubSeq(mem, 1, k)) \in Seq(Piece)
    BY <2>6, PiecesType
  <2>9. file' \in Seq(Piece)
    BY <2>2, <2>7, <2>8, ConcatProperties
  <2>10. shortDumps' \in Nat
    BY <1>14 DEF DumpShort, LogTypeOK
  <2> QED
    BY <1>14, <2>9, <2>10 DEF DumpShort, LogTypeOK
<1>15. CASE Start
  <2>1. \A i \in 1..NumReadable : i \in 1..Len(file)
    BY ReadableMost
  <2>2. \A i \in 1..NumReadable : file[i].entry \in Value
    <3>1. \A i \in 1..Len(file) : file[i] \in Piece
      BY ElementOfSeq DEF LogTypeOK
    <3> QED
      BY <2>1, <3>1 DEF Piece
  <2>3. mem' \in [1..NumReadable -> Value] /\ NumReadable \in Nat
    BY <1>15, <2>2, ReadableMost DEF Start
  <2>4. mem' \in Seq(Value)
    BY <2>3, SeqDef
  <2> QED
    BY <1>15, <2>4 DEF Start, LogTypeOK
<1>16. CASE StartFails
  BY <1>16 DEF StartFails, LogTypeOK
<1> QED
  BY <1>5, <1>6, <1>7, <1>8, <1>10, <1>11, <1>12, <1>13, <1>14, <1>15, <1>16 DEF Next

(* The file in the middle of an entry or of a cut, when the process ends.  *)
LEMMA EndBehind ==
    ASSUME LogTypeOK, LogInv, shortDumps = 0, status = "up"
    PROVE  Behind(file, Held)
<1>1. CASE phase \in {"idle", "grow", "dump"}
  BY <1>1 DEF LogInv, Follows, Held
<1>2. CASE phase = "data"
  <2>1. file \in Seq(Piece) /\ file # <<>> /\ ~Readable(file[Len(file)])
    BY <1>2 DEF LogInv, LogTypeOK
  <2>2. /\ Len(file) \in Nat /\ Len(Front(file)) = Len(file) - 1
        /\ \A i \in 1..Len(file) - 1 : Front(file)[i] = file[i]
    BY <2>1, FrontOf
  <2>3. Behind(Front(file), mem)
    BY <1>2 DEF LogInv, Follows
  <2>4. ASSUME NEW i \in 1..Len(file), WholeTo(file, i)
        PROVE  i <= Len(mem) /\ file[i].entry = mem[i]
    <3>1. i # Len(file)
      BY <2>1, <2>4 DEF WholeTo
    <3>2. i \in 1..Len(Front(file)) /\ Front(file)[i] = file[i]
      BY <2>2, <3>1
    <3>3. WholeTo(Front(file), i)
      BY <2>2, <2>4, <3>2 DEF WholeTo
    <3> QED
      BY <2>3, <3>2, <3>3 DEF Behind
  <2> QED
    BY <1>2, <2>4 DEF Behind, Held
<1> QED
  BY <1>1, <1>2 DEF LogTypeOK

LEMMA EmptyOrNot == \A f \in Seq(Piece), p \in Piece :
    Append(f, p) # <<>> /\ Append(f, p)[Len(Append(f, p))] = p
<1> SUFFICES ASSUME NEW f \in Seq(Piece), NEW p \in Piece
             PROVE  Append(f, p) # <<>> /\ Append(f, p)[Len(Append(f, p))] = p
  OBVIOUS
<1> QED
  BY AppendProperties

LEMMA LogInvNext == LogTypeOK /\ LogInv /\ [Next]_vars => LogInv'
<1> SUFFICES ASSUME LogTypeOK, LogInv, [Next]_vars PROVE LogInv'
  OBVIOUS
<1>1. CASE UNCHANGED vars
  BY <1>1 DEF vars, LogInv
<1>2. ASSUME NEW e \in Value, WriteLength(e) PROVE LogInv'
  <2> DEFINE p == [part |-> "length", entry |-> e]
  <2>1. p \in Piece /\ ~Readable(p)
    BY DEF Piece, Readable
  <2>2. file' = Append(file, p) /\ file \in Seq(Piece)
    BY <1>2 DEF WriteLength, LogTypeOK
  <2> HIDE DEF p
  <2>3. file' # <<>> /\ ~Readable(file'[Len(file')])
    BY <2>1, <2>2, EmptyOrNot
  <2>4. Front(file') = file
    BY <2>1, <2>2, FrontOfAppend
  <2> QED
    BY <1>2, <2>3, <2>4 DEF WriteLength, LogInv
<1>3. CASE WriteData
  <2>1. status = "up" /\ phase = "data" /\ file # <<>>
    BY <1>3 DEF WriteData, LogInv
  <2>2. Front(file) \in Seq(Piece) /\ mem \in Seq(Value) /\ entry \in Value
    BY <2>1, FrontOf DEF LogTypeOK
  <2>3. shortDumps = 0 => Follows(file', Append(mem, entry))
    BY <1>3, <2>1, <2>2, WholeFollows DEF WriteData, LogInv
  <2> QED
    BY <1>3, <2>1, <2>3 DEF WriteData, LogInv
<1>4. CASE Grow
  BY <1>4 DEF Grow, LogInv
<1>5. CASE WriteFails
  <2>1. status = "up" /\ before' = Held /\ status' = "down" /\ phase' = "idle"
    BY <1>5 DEF WriteFails, ProcessEnds
  <2>2. shortDumps = 0 => Behind(file', Held)
    <3> SUFFICES ASSUME shortDumps = 0 PROVE Behind(file', Held)
      OBVIOUS
    <3>3. phase \in {"idle", "data"}
      BY <1>5 DEF WriteFails
    <3>1. CASE phase = "idle"
      <4>1. PICK e \in Value : file' = Append(file, [part |-> "someLength", entry |-> e])
        BY <1>5, <3>1 DEF WriteFails
      <4>2. [part |-> "someLength", entry |-> e] \in Piece
            /\ ~Readable([part |-> "someLength", entry |-> e])
        BY DEF Piece, Readable
      <4>3. Behind(file, Held) /\ file \in Seq(Piece)
        BY <2>1, EndBehind DEF LogTypeOK
      <4> QED
        BY <4>1, <4>2, <4>3, TornBehind
    <3>2. CASE phase = "data"
      <4>1. file' = Append(Front(file), [part |-> "someData", entry |-> entry])
        BY <1>5, <3>2 DEF WriteFails
      <4>2. [part |-> "someData", entry |-> entry] \in Piece
            /\ ~Readable([part |-> "someData", entry |-> entry])
        BY DEF Piece, Readable, LogTypeOK
      <4>3. Behind(Front(file), Held)
        BY <2>1, <3>2 DEF LogInv, Follows, Held
      <4>4. Front(file) \in Seq(Piece)
        BY <3>2, FrontOf DEF LogTypeOK, LogInv
      <4> QED
        BY <4>1, <4>2, <4>3, <4>4, TornBehind
    <3> QED
      BY <3>1, <3>2, <3>3
  <2> QED
    BY <1>5, <2>1, <2>2 DEF WriteFails, LogInv
<1>6. CASE Crash
  <2>1. status = "up" /\ before' = Held /\ status' = "down" /\ phase' = "idle" /\ file' = file
    BY <1>6 DEF Crash, ProcessEnds
  <2> QED
    BY <1>6, <2>1, EndBehind DEF Crash, LogInv
<1>7. ASSUME NEW keep \in 0..MaxPieces, Cut(keep) PROVE LogInv'
  BY <1>7 DEF Cut, LogInv
<1>8. CASE Dump
  <2>1. file' = Pieces(mem) /\ mem' = mem /\ phase' = "idle" /\ status' = "up"
    BY <1>8 DEF Dump, Rewritten, LogInv
  <2>2. Follows(file', mem')
    BY <2>1, PiecesFollow DEF LogTypeOK
  <2> QED
    BY <2>1, <2>2 DEF LogInv
<1>9. CASE DumpShort
  <2>1. phase' = "idle" /\ shortDumps' # 0
    BY <1>9 DEF DumpShort, LogTypeOK
  <2> QED
    BY <2>1 DEF LogInv
<1>10. CASE Start
  <2>1. /\ file' = file /\ status' = "up" /\ phase' = phase /\ status = "down"
        /\ mem' = [i \in 1..NumReadable |-> file[i].entry]
    BY <1>10 DEF Start
  <2>2. phase = "idle"
    BY <2>1 DEF LogInv, LogTypeOK
  <2>3. Len(mem') = NumReadable
    <3>1. mem' \in Seq(Value)
      BY LogTypeNext DEF LogTypeOK
    <3>2. DOMAIN mem' = 1..NumReadable /\ NumReadable \in Nat
      BY <2>1, ReadableMost
    <3>3. DOMAIN mem' = 1..Len(mem') /\ Len(mem') \in Nat
      BY <3>1, LenProperties
    <3> QED
      BY <3>2, <3>3
  <2>4. \A i \in 1..Len(file) : WholeTo(file, i) => i <= NumReadable /\ file[i].entry = mem'[i]
    BY <2>1, ReadableMost
  <2>5. WholeTo(file, Len(file)) => Len(file) = NumReadable
    BY ReadableMost
  <2>6. Follows(file, mem')
    BY <2>3, <2>4, <2>5 DEF Follows, Behind
  <2> QED
    BY <2>1, <2>2, <2>6 DEF LogInv
<1>11. CASE StartFails
  BY <1>11 DEF StartFails, LogInv
<1> QED
  BY <1>1, <1>2, <1>3, <1>4, <1>5, <1>6, <1>7, <1>8, <1>9, <1>10, <1>11 DEF Next

LEMMA LogInvariant == Spec => [](LogTypeOK /\ LogInv)
<1>1. Init => LogTypeOK /\ LogInv
  <2> SUFFICES ASSUME Init PROVE LogTypeOK /\ LogInv
    OBVIOUS
  <2>1. LogTypeOK
    BY EmptySeq DEF Init, LogTypeOK
  <2>2. Len(<<>>) = 0
    OBVIOUS
  <2> QED
    BY <2>1, <2>2 DEF Init, LogInv, Follows, Behind
<1> QED
  BY <1>1, LogTypeNext, LogInvNext, PTL DEF Spec

(* Between appends and cuts, what a restart would read is what memory      *)
(* holds, up to the first torn piece (log.go:141-187).                     *)
THEOREM FileFollows == Spec => []FileFollowsMemory
<1>1. LogTypeOK /\ LogInv => FileFollowsMemory
  <2> SUFFICES ASSUME LogTypeOK, LogInv, status = "up", phase = "idle", shortDumps = 0
               PROVE  /\ \A i \in 1..NumReadable : i <= Len(mem) /\ file[i].entry = mem[i]
                      /\ Rest = <<>> => file = Pieces(mem)
    BY DEF FileFollowsMemory
  <2>1. Follows(file, mem)
    BY DEF LogInv
  <2>2. /\ NumReadable \in 0..Len(file) /\ Len(file) \in Nat
        /\ WholeTo(file, NumReadable)
    BY ReadableMost
  <2>3. ASSUME NEW i \in 1..NumReadable PROVE i <= Len(mem) /\ file[i].entry = mem[i]
    <3>1. i \in 1..Len(file) /\ WholeTo(file, i)
      BY <2>2 DEF WholeTo
    <3> QED
      BY <2>1, <3>1 DEF Follows, Behind
  <2>4. ASSUME Rest = <<>> PROVE file = Pieces(mem)
    <3>1. \A i \in NumReadable + 1 .. Len(file) : file[i] \in Piece
      BY <2>2, ElementOfSeq DEF LogTypeOK
    <3>2. Len(Rest) = IF NumReadable + 1 <= Len(file)
                        THEN Len(file) - (NumReadable + 1) + 1 ELSE 0
      BY <2>2, <3>1, SubSeqProperties DEF Rest
    <3>3. Len(Rest) = 0
      BY <2>4
    <3>4. NumReadable = Len(file)
      BY <2>2, <3>2, <3>3
    <3>5. Len(file) = Len(mem)
      BY <2>1, <2>2, <3>4 DEF Follows
    <3>6. \A i \in 1..Len(file) : file[i] = Whole(mem[i])
      <4>1. \A i \in 1..Len(file) : file[i] \in Piece
        BY ElementOfSeq DEF LogTypeOK
      <4>2. \A i \in 1..Len(file) : file[i].part = "whole" /\ file[i].entry = mem[i]
        BY <2>2, <2>3, <3>4 DEF WholeTo, Readable
      <4>3. \A q \in Piece : q = [part |-> q.part, entry |-> q.entry]
        BY DEF Piece
      <4> QED
        BY <4>1, <4>2, <4>3 DEF Whole
    <3>7. mem \in Seq(Value) /\ file \in Seq(Piece)
      BY DEF LogTypeOK
    <3>8. /\ Pieces(mem) \in Seq(Piece) /\ Len(Pieces(mem)) = Len(mem)
          /\ \A i \in 1..Len(mem) : Pieces(mem)[i] = Whole(mem[i])
      BY <3>7, PiecesType
    <3> QED
      BY <3>5, <3>6, <3>7, <3>8, SeqEqual
  <2> QED
    BY <2>3, <2>4
<1> QED
  BY <1>1, LogInvariant, PTL

(* A process that starts again has the first entries of the log the last   *)
(* one had, with the entry or the entries by which the file was ahead of   *)
(* memory, whatever that one was doing when it ended (log.go:82-117).      *)
THEOREM RestartHasPrefix == Spec => RestartIsPrefix
<1>1. LogTypeOK /\ LogInv /\ [Next]_vars
        => (status = "down" /\ status' = "up" /\ shortDumps = 0 => IsPrefix(mem', before))
  <2> SUFFICES ASSUME LogTypeOK, LogInv, [Next]_vars,
                      status = "down", status' = "up", shortDumps = 0
               PROVE  IsPrefix(mem', before)
    OBVIOUS
  <2>1. Start
    BY DEF Next, vars, WriteLength, WriteData, Grow, WriteFails, Crash, ProcessEnds, Cut, Dump,
           DumpShort, StartFails, LogInv
  <2>2. mem' = [i \in 1..NumReadable |-> file[i].entry]
    BY <2>1 DEF Start
  <2>3. Behind(file, before)
    BY DEF LogInv
  <2>4. /\ NumReadable \in 0..Len(file) /\ Len(file) \in Nat
        /\ WholeTo(file, NumReadable)
    BY ReadableMost
  <2>5. \A i \in 1..NumReadable : i <= Len(before) /\ mem'[i] = before[i]
    <3> SUFFICES ASSUME NEW i \in 1..NumReadable
                 PROVE  i <= Len(before) /\ mem'[i] = before[i]
      OBVIOUS
    <3>1. i \in 1..Len(file) /\ WholeTo(file, i)
      BY <2>4 DEF WholeTo
    <3> QED
      BY <2>2, <2>3, <3>1 DEF Behind
  <2>6. mem' \in Seq(Value) /\ before \in Seq(Value)
    BY LogTypeNext DEF LogTypeOK
  <2>7. Len(mem') = NumReadable /\ Len(before) \in Nat
    <3>1. DOMAIN mem' = 1..NumReadable
      BY <2>2
    <3>2. DOMAIN mem' = 1..Len(mem') /\ Len(mem') \in Nat /\ Len(before) \in Nat
      BY <2>6, LenProperties
    <3> QED
      BY <2>4, <3>1, <3>2
  <2>8. NumReadable <= Len(before)
    BY <2>4, <2>5, <2>7
  <2> DEFINE n == NumReadable
  <2>9. /\ SubSeq(mem', 1, n) \in Seq(Value) /\ Len(SubSeq(mem', 1, n)) = n
        /\ \A i \in 1..n : SubSeq(mem', 1, n)[i] = mem'[i]
    BY <2>4, <2>6, <2>7, PrefixOf
  <2>10. /\ SubSeq(before, 1, n) \in Seq(Value) /\ Len(SubSeq(before, 1, n)) = n
         /\ \A i \in 1..n : SubSeq(before, 1, n)[i] = before[i]
    BY <2>4, <2>6, <2>8, PrefixOf
  <2>11. SubSeq(mem', 1, n) = SubSeq(before, 1, n)
    BY <2>5, <2>9, <2>10, SeqEqual
  <2> QED
    BY <2>7, <2>8, <2>11 DEF IsPrefix
<1> QED
  BY <1>1, LogInvariant, PTL DEF Spec, RestartIsPrefix

=============================================================================

-------------------------- MODULE IntegratorProofs --------------------------
(***************************************************************************)
(* The integrator, for any hosts, workers, numbers of points and any       *)
(* maxUnupdated_: every invariant that TLC checks of Integrator.  All of   *)
(* them follow from one inductive invariant, IntegratorInv, which follows  *)
(* each open socket with its request.                                      *)
(*                                                                         *)
(* The two recursive functions of the model, Picked and PrepareRequests,   *)
(* come first: what they compute is proved by induction, with the least    *)
(* counterexample as the step.                                             *)
(***************************************************************************)
EXTENDS Integrator, FiniteSetTheorems, SequenceTheorems, WellFoundedInduction, TLAPS

-----------------------------------------------------------------------------
(* Numbers.  A set of natural numbers has a least element; every proof by  *)
(* induction below takes the least counterexample.                         *)

LEMMA LeastElement ==
    ASSUME NEW T \in SUBSET Nat, T # {}
    PROVE  \E m \in T : \A k \in T : m <= k
<1> DEFINE R == OpToRel(<, Nat)
<1>1. IsWellFoundedOn(R, Nat)
  BY NatLessThanWellFounded
<1>2. \A x, y \in Nat : y < x => <<y, x>> \in R
  BY DEF OpToRel
<1> HIDE DEF R
<1>3. PICK x \in T : \A y \in T : ~(<<y, x>> \in R)
  BY <1>1, WFMin
<1>4. \A y \in T : ~(y < x)
  BY <1>2, <1>3
<1> QED BY <1>4

\* An interval from 0 on is in every set that holds 0 and the successors.
LEMMA UpToAll ==
    ASSUME NEW n \in Nat, NEW T, 0 \in T,
           \A k \in 0..(n - 1) : k \in T => k + 1 \in T
    PROVE  \A k \in 0..n : k \in T
<1> DEFINE U == {k \in 0..n : k \notin T}
<1> SUFFICES ASSUME U # {} PROVE FALSE
  OBVIOUS
<1>1. U \in SUBSET Nat
  OBVIOUS
<1>2. PICK m \in U : \A k \in U : m <= k
  <2> HIDE DEF U
  <2> QED BY <1>1, LeastElement
<1>3. m # 0 /\ m - 1 \in 0..(n - 1) /\ m - 1 \notin U
  BY <1>2
<1> QED BY <1>2, <1>3

LEMMA MinIs ==
    ASSUME NEW T \in SUBSET Nat, T # {}
    PROVE  Min(T) \in T
BY LeastElement DEF Min

LEMMA ModShift ==
    ASSUME NEW a \in Nat, NEW b \in Nat \ {0}
    PROVE  (a + b) % b = a % b
<1> DEFINE q == a \div b
           Q == (a + b) \div b
           r == a % b
           R == (a + b) % b
<1>1. a = b * q + r /\ q \in Int /\ r \in Int /\ 0 <= r /\ r < b
  OBVIOUS
<1>2. a + b = b * Q + R /\ Q \in Int /\ R \in Int /\ 0 <= R /\ R < b
  OBVIOUS
<1> HIDE DEF q, Q, r, R
<1>3. PICK d \in Int : d = Q - q - 1
  BY <1>1, <1>2
<1>4. b * Q = b * q + b + b * d
  BY <1>1, <1>2, <1>3
<1>5. r - R = b * d
  BY <1>1, <1>2, <1>4
<1>6. \A x \in Int : x >= 1 => b * x >= b
  OBVIOUS
<1>7. \A x \in Int : x <= -1 => b * x <= -b
  OBVIOUS
<1>8. d = 0
  BY <1>1, <1>2, <1>3, <1>5, <1>6, <1>7
<1>9. r = R
  BY <1>1, <1>2, <1>5, <1>8
<1> QED BY <1>9 DEF r, R

\* Any n numbers in a row have all remainders of a division by n.
LEMMA RowCovers ==
    ASSUME NEW n \in Nat \ {0}, NEW r \in 0..(n - 1), NEW first \in Nat
    PROVE  \E j \in first..(first + n - 1) : j % n = r
<1> DEFINE T == {f \in Nat : \E j \in f..(f + n - 1) : j % n = r}
<1>1. 0 \in T
  <2>1. r % n = r
    OBVIOUS
  <2> QED BY <2>1
<1>2. \A k \in 0..(first - 1) : k \in T => k + 1 \in T
  <2> TAKE k \in 0..(first - 1)
  <2> HAVE k \in T
  <2>1. PICK j \in k..(k + n - 1) : j % n = r
    OBVIOUS
  <2>2. j \in Nat
    BY <2>1
  <2>3. (j + n) % n = r
    BY <2>1, <2>2, ModShift
  <2>4. \E i \in (k + 1)..(k + 1 + n - 1) : i % n = r
    <3>1. CASE j = k
      <4>1. j + n \in (k + 1)..(k + 1 + n - 1)
        BY <3>1
      <4> QED BY <2>3, <4>1
    <3>2. CASE j # k
      <4>1. j \in (k + 1)..(k + 1 + n - 1)
        BY <3>2
      <4> QED BY <2>1, <4>1
    <3> QED BY <3>1, <3>2
  <2>5. k + 1 \in Nat
    OBVIOUS
  <2> QED BY <2>4, <2>5, Zenon
<1> HIDE DEF T
<1>3. first \in T
  BY <1>1, <1>2, UpToAll
<1> QED BY <1>3 DEF T

-----------------------------------------------------------------------------
(* Picked: what stands at some places of a sequence.                       *)

\* The recursive function in Picked, for the first m places.
PickedTo(f, m, seq, S) ==
    f = [k \in 0..m |-> IF k = 0 THEN <<>>
                        ELSE IF k \in S THEN Append(f[k - 1], seq[k]) ELSE f[k - 1]]

LEMMA PickedStep ==
    ASSUME NEW m \in Nat, NEW seq, NEW S, NEW f, PickedTo(f, m, seq, S), NEW k \in 0..m
    PROVE  f[k] = IF k = 0 THEN <<>>
                  ELSE IF k \in S THEN Append(f[k - 1], seq[k]) ELSE f[k - 1]
<1> DEFINE r == [l \in 0..m |-> IF l = 0 THEN <<>>
                                ELSE IF l \in S THEN Append(f[l - 1], seq[l]) ELSE f[l - 1]]
<1>1. r[k] = IF k = 0 THEN <<>>
             ELSE IF k \in S THEN Append(f[k - 1], seq[k]) ELSE f[k - 1]
  OBVIOUS
<1>2. f = r
  BY DEF PickedTo
<1> HIDE DEF r
<1> QED BY <1>1, <1>2

LEMMA PickedExists ==
    ASSUME NEW n \in Nat, NEW seq, NEW S
    PROVE  \E f : PickedTo(f, n, seq, S)
<1> DEFINE T == {m \in 0..n : \E f : PickedTo(f, m, seq, S)}
<1>1. 0 \in T
  <2>1. PickedTo([k \in 0..0 |-> <<>>], 0, seq, S)
    BY DEF PickedTo
  <2> QED BY <2>1
<1>2. \A m \in 0..(n - 1) : m \in T => m + 1 \in T
  <2> TAKE m \in 0..(n - 1)
  <2> HAVE m \in T
  <2>1. PICK f : PickedTo(f, m, seq, S)
    OBVIOUS
  <2> DEFINE g == [k \in 0..(m + 1) |->
                     IF k <= m THEN f[k]
                     ELSE IF m + 1 \in S THEN Append(f[m], seq[m + 1]) ELSE f[m]]
             h == [k \in 0..(m + 1) |->
                     IF k = 0 THEN <<>>
                     ELSE IF k \in S THEN Append(g[k - 1], seq[k]) ELSE g[k - 1]]
  <2>2. \A k \in 0..(m + 1) : g[k] = h[k]
    <3> TAKE k \in 0..(m + 1)
    <3>1. CASE k = 0
      <4>1. f[k] = <<>>
        BY <2>1, <3>1, PickedStep
      <4> QED BY <3>1, <4>1
    <3>2. CASE k \in 1..m
      <4>1. f[k] = IF k \in S THEN Append(f[k - 1], seq[k]) ELSE f[k - 1]
        BY <2>1, <3>2, PickedStep
      <4>2. g[k - 1] = f[k - 1] /\ g[k] = f[k]
        BY <3>2
      <4> QED BY <3>2, <4>1, <4>2
    <3>3. CASE k = m + 1
      <4>1. g[k - 1] = f[m]
        BY <3>3
      <4> QED BY <3>3, <4>1
    <3> QED BY <3>1, <3>2, <3>3
  <2>3. g = h
    BY <2>2
  <2>4. PickedTo(g, m + 1, seq, S)
    BY <2>3 DEF PickedTo
  <2>5. m + 1 \in 0..n
    OBVIOUS
  <2> QED BY <2>4, <2>5, Zenon
<1> HIDE DEF T
<1>3. n \in T
  BY <1>1, <1>2, UpToAll
<1> QED BY <1>3 DEF T

\* b says for every place of p which place of seq it was picked from.
PicksFrom(p, b, seq, P) ==
    /\ b \in [DOMAIN p -> P]
    /\ \A j \in DOMAIN p : p[j] = seq[b[j]]
    /\ \A i, j \in DOMAIN p : b[i] = b[j] => i = j
    /\ \A k \in P : \E j \in DOMAIN p : b[j] = k

LEMMA PicksNone ==
    ASSUME NEW seq
    PROVE  PicksFrom(<<>>, <<>>, seq, {})
BY DEF PicksFrom

LEMMA PicksMore ==
    ASSUME NEW X, NEW seq, NEW p \in Seq(X), NEW P, NEW b, NEW k, seq[k] \in X,
           PicksFrom(p, b, seq, P), k \notin P
    PROVE  \E c : PicksFrom(Append(p, seq[k]), c, seq, P \cup {k})
<1> DEFINE q == Append(p, seq[k])
           c == [j \in 1..Len(p) + 1 |-> IF j <= Len(p) THEN b[j] ELSE k]
<1>1. Len(p) \in Nat /\ DOMAIN p = 1..Len(p)
  BY LenProperties
<1>2. /\ DOMAIN q = 1..Len(p) + 1 /\ q[Len(p) + 1] = seq[k]
      /\ \A j \in 1..Len(p) : q[j] = p[j]
  BY <1>1, AppendProperties, LenProperties
<1> HIDE DEF q
<1>3. \A j \in 1..Len(p) : b[j] \in P /\ b[j] # k /\ p[j] = seq[b[j]]
  BY <1>1 DEF PicksFrom
<1>4. c \in [DOMAIN q -> P \cup {k}]
  BY <1>1, <1>2, <1>3
<1>5. \A j \in DOMAIN q : q[j] = seq[c[j]]
  BY <1>1, <1>2, <1>3
<1>6. \A i, j \in DOMAIN q : c[i] = c[j] => i = j
  <2> TAKE i, j \in DOMAIN q
  <2> HAVE c[i] = c[j]
  <2>1. i \in 1..Len(p) + 1 /\ j \in 1..Len(p) + 1
    BY <1>2
  <2>2. CASE i \in 1..Len(p) /\ j \in 1..Len(p)
    <3>1. b[i] = b[j]
      BY <1>1, <2>2
    <3> QED BY <1>1, <2>2, <3>1 DEF PicksFrom
  <2>3. CASE i = Len(p) + 1 /\ j \in 1..Len(p)
    BY <1>1, <1>3, <2>3
  <2>4. CASE j = Len(p) + 1 /\ i \in 1..Len(p)
    BY <1>1, <1>3, <2>4
  <2>5. CASE i = Len(p) + 1 /\ j = Len(p) + 1
    BY <2>5
  <2> QED BY <1>1, <2>1, <2>2, <2>3, <2>4, <2>5
<1>7. \A l \in P \cup {k} : \E j \in DOMAIN q : c[j] = l
  <2> TAKE l \in P \cup {k}
  <2>1. CASE l \in P
    <3>1. PICK j \in DOMAIN p : b[j] = l
      BY <2>1 DEF PicksFrom
    <3>2. j \in DOMAIN q /\ c[j] = l
      BY <1>1, <1>2, <3>1
    <3> QED BY <3>2
  <2>2. CASE l = k
    <3>1. Len(p) + 1 \in DOMAIN q /\ c[Len(p) + 1] = k
      BY <1>1, <1>2
    <3> QED BY <2>2, <3>1
  <2> QED BY <2>1, <2>2
<1> HIDE DEF c
<1>8. PicksFrom(q, c, seq, P \cup {k})
  BY <1>4, <1>5, <1>6, <1>7 DEF PicksFrom
<1> QED BY <1>8 DEF q

\* Picked takes what is at the places of S, each once.
LEMMA PickedPlaces ==
    ASSUME NEW X, NEW seq \in Seq(X), NEW S \in SUBSET DOMAIN seq
    PROVE  /\ Picked(seq, S) \in Seq(X)
           /\ \E b : PicksFrom(Picked(seq, S), b, seq, S)
<1> DEFINE n == Len(seq)
           upTo == CHOOSE f : PickedTo(f, n, seq, S)
           T == {m \in 0..n : /\ upTo[m] \in Seq(X)
                              /\ \E b : PicksFrom(upTo[m], b, seq, S \cap (1..m))}
<1>1. n \in Nat /\ DOMAIN seq = 1..n /\ \A k \in 1..n : seq[k] \in X
  BY LenProperties, ElementOfSeq
<1>2. Picked(seq, S) = upTo[n]
  BY DEF Picked, PickedTo
<1>3. PickedTo(upTo, n, seq, S)
  BY <1>1, PickedExists
<1> HIDE DEF upTo, n
<1>4. 0 \in T
  <2>1. upTo[0] = <<>>
    BY <1>1, <1>3, PickedStep
  <2>2. S \cap (1..0) = {}
    OBVIOUS
  <2>3. \E b : PicksFrom(upTo[0], b, seq, S \cap (1..0))
    BY <2>1, <2>2, PicksNone
  <2>4. upTo[0] \in Seq(X) /\ 0 \in 0..n
    BY <1>1, <2>1, EmptySeq
  <2> QED BY <2>3, <2>4, Zenon
<1>5. \A m \in 0..(n - 1) : m \in T => m + 1 \in T
  <2> TAKE m \in 0..(n - 1)
  <2> HAVE m \in T
  <2>1. PICK b : PicksFrom(upTo[m], b, seq, S \cap (1..m))
    OBVIOUS
  <2>2. upTo[m + 1] = IF m + 1 \in S THEN Append(upTo[m], seq[m + 1]) ELSE upTo[m]
    <3>1. m + 1 \in 0..n /\ m + 1 # 0 /\ m + 1 - 1 = m
      BY <1>1
    <3> QED BY <1>1, <1>3, <3>1, PickedStep
  <2>3. CASE m + 1 \in S
    <3>1. S \cap (1..(m + 1)) = (S \cap (1..m)) \cup {m + 1}
      BY <1>1, <2>3
    <3>2. seq[m + 1] \in X /\ m + 1 \notin S \cap (1..m)
      BY <1>1
    <3>3. upTo[m] \in Seq(X)
      OBVIOUS
    <3> HIDE DEF T
    <3>4. upTo[m + 1] = Append(upTo[m], seq[m + 1])
      BY <2>2, <2>3
    <3>5. \E c : PicksFrom(Append(upTo[m], seq[m + 1]), c, seq, (S \cap (1..m)) \cup {m + 1})
      BY <2>1, <3>2, <3>3, PicksMore
    <3>6. \E c : PicksFrom(upTo[m + 1], c, seq, S \cap (1..(m + 1)))
      BY <3>1, <3>4, <3>5
    <3>7. upTo[m + 1] \in Seq(X)
      BY <2>2, <2>3, <3>2, <3>3, AppendProperties
    <3>8. m + 1 \in 0..n
      BY <1>1
    <3> QED BY <3>6, <3>7, <3>8, Zenon DEF T
  <2>4. CASE m + 1 \notin S
    <3>1. S \cap (1..(m + 1)) = S \cap (1..m)
      BY <1>1, <2>4
    <3>2. upTo[m + 1] = upTo[m] /\ m + 1 \in 0..n
      BY <1>1, <2>2, <2>4
    <3> QED BY <3>1, <3>2
  <2> QED BY <2>3, <2>4
<1>6. n \in T
  <2> HIDE DEF T
  <2> QED BY <1>1, <1>4, <1>5, UpToAll
<1>7. S \cap (1..n) = S
  BY <1>1
<1> QED BY <1>2, <1>6, <1>7

-----------------------------------------------------------------------------
(* PrepareRequests: what the requests hold.                                *)

TotalTo(f, m, seq) == f = [k \in 0..m |-> IF k = 0 THEN 0 ELSE f[k - 1] + seq[k]]

\* The sums of the first elements of seq.
Sums(f, m, seq) ==
    /\ f \in [0..m -> Nat]
    /\ f[0] = 0
    /\ \A k \in 1..m : f[k] = f[k - 1] + seq[k]

LEMMA SumsExist ==
    ASSUME NEW n \in Nat, NEW seq, \A k \in 1..n : seq[k] \in Nat
    PROVE  \E f : Sums(f, n, seq)
<1> DEFINE T == {m \in 0..n : \E f : Sums(f, m, seq)}
<1>1. 0 \in T
  <2>1. Sums([k \in 0..0 |-> 0], 0, seq)
    BY DEF Sums
  <2> QED BY <2>1
<1>2. \A m \in 0..(n - 1) : m \in T => m + 1 \in T
  <2> TAKE m \in 0..(n - 1)
  <2> HAVE m \in T
  <2>1. PICK f : Sums(f, m, seq)
    OBVIOUS
  <2> DEFINE g == [k \in 0..(m + 1) |-> IF k <= m THEN f[k] ELSE f[m] + seq[m + 1]]
  <2>2. m + 1 \in 1..n
    OBVIOUS
  <2>3. f[m] \in Nat /\ seq[m + 1] \in Nat /\ \A k \in 0..m : f[k] \in Nat
    BY <2>1, <2>2 DEF Sums
  <2>4. g \in [0..(m + 1) -> Nat]
    BY <2>3
  <2>5. g[0] = 0
    BY <2>1 DEF Sums
  <2>6. ASSUME NEW k \in 1..(m + 1)
        PROVE  g[k] = g[k - 1] + seq[k]
    <3>1. CASE k <= m
      <4>1. g[k] = f[k] /\ g[k - 1] = f[k - 1] /\ k \in 1..m
        BY <3>1
      <4> QED BY <2>1, <4>1 DEF Sums
    <3>2. CASE k = m + 1
      <4>1. g[k] = f[m] + seq[m + 1] /\ g[k - 1] = f[m]
        BY <3>2
      <4> QED BY <3>2, <4>1
    <3> QED BY <3>1, <3>2
  <2> HIDE DEF g
  <2>7. Sums(g, m + 1, seq)
    BY <2>4, <2>5, <2>6 DEF Sums
  <2>8. m + 1 \in 0..n
    OBVIOUS
  <2> QED BY <2>7, <2>8, Zenon
<1> HIDE DEF T
<1>3. \A k \in 0..n : k \in T
  BY <1>1, <1>2, UpToAll
<1>4. n \in T
  BY <1>3
<1> QED BY <1>4 DEF T

LEMMA SumsAreTotal ==
    ASSUME NEW n \in Nat, NEW seq, Len(seq) = n,
           NEW g, Sums(g, n, seq)
    PROVE  Total(seq) = g[n]
<1> DEFINE h == [k \in 0..n |-> IF k = 0 THEN 0 ELSE g[k - 1] + seq[k]]
           upTo == CHOOSE f : TotalTo(f, n, seq)
           T == {m \in 0..n : upTo[m] = g[m]}
<1>1. g = h
  <2>1. \A k \in 0..n : g[k] = h[k]
    BY DEF Sums
  <2>2. g = [k \in 0..n |-> g[k]]
    BY DEF Sums
  <2> QED BY <2>1, <2>2
<1>2. TotalTo(g, n, seq)
  BY <1>1 DEF TotalTo
<1>3. TotalTo(upTo, n, seq)
  BY <1>2
<1>4. Total(seq) = upTo[n]
  BY DEF Total, TotalTo
<1> HIDE DEF upTo, h
<1>5. ASSUME NEW k \in 0..n
      PROVE  upTo[k] = IF k = 0 THEN 0 ELSE upTo[k - 1] + seq[k]
  <2> DEFINE r == [l \in 0..n |-> IF l = 0 THEN 0 ELSE upTo[l - 1] + seq[l]]
  <2>1. r[k] = IF k = 0 THEN 0 ELSE upTo[k - 1] + seq[k]
    OBVIOUS
  <2>2. upTo = r
    BY <1>3 DEF TotalTo
  <2> HIDE DEF r
  <2> QED BY <2>1, <2>2
<1>6. 0 \in T
  <2>1. upTo[0] = 0 /\ g[0] = 0
    BY <1>5 DEF Sums
  <2> QED BY <2>1
<1>7. \A m \in 0..(n - 1) : m \in T => m + 1 \in T
  <2> TAKE m \in 0..(n - 1)
  <2> HAVE m \in T
  <2>1. m + 1 \in 1..n /\ m + 1 - 1 = m
    OBVIOUS
  <2>2. upTo[m + 1] = upTo[m] + seq[m + 1] /\ g[m + 1] = g[m] + seq[m + 1]
    BY <1>5, <2>1 DEF Sums
  <2> QED BY <2>1, <2>2
<1> HIDE DEF T
<1>8. \A m \in 0..n : m \in T
  BY <1>6, <1>7, UpToAll
<1>9. n \in T
  BY <1>8
<1> QED BY <1>4, <1>9 DEF T

LEMMA TotalOfOne ==
    ASSUME NEW a \in Nat
    PROVE  Total(<<a>>) = a
<1> DEFINE g == [k \in 0..1 |-> IF k = 0 THEN 0 ELSE a]
<1>1. Sums(g, 1, <<a>>)
  BY DEF Sums
<1>2. g[1] = a
  OBVIOUS
<1> HIDE DEF g
<1> QED BY <1>1, <1>2, SumsAreTotal

LEMMA TotalPrepended ==
    ASSUME NEW a \in Nat, NEW s \in Seq(Nat)
    PROVE  Total(<<a>> \o s) = a + Total(s)
<1> DEFINE n == Len(s)
           t == <<a>> \o s
<1>1. n \in Nat /\ \A k \in 1..n : s[k] \in Nat
  BY LenProperties, ElementOfSeq
<1>2. Len(t) = n + 1 /\ t[1] = a /\ \A k \in 1..n : t[k + 1] = s[k]
  <2>1. <<a>> \in Seq(Nat) /\ Len(<<a>>) = 1 /\ <<a>>[1] = a
    OBVIOUS
  <2>2. Len(t) = 1 + n /\ \A k \in 1..(1 + n) : t[k] = IF k <= 1 THEN <<a>>[k] ELSE s[k - 1]
    BY <2>1, ConcatProperties
  <2> HIDE DEF t
  <2> QED BY <1>1, <2>1, <2>2
<1>3. PICK f : Sums(f, n, s)
  BY <1>1, SumsExist
<1> DEFINE g == [k \in 0..(n + 1) |-> IF k = 0 THEN 0 ELSE a + f[k - 1]]
<1> HIDE DEF t
<1>4. Sums(g, n + 1, t)
  <2>1. \A k \in 0..n : f[k] \in Nat
    BY <1>3 DEF Sums
  <2>2. g \in [0..(n + 1) -> Nat] /\ g[0] = 0
    BY <1>1, <2>1
  <2>3. ASSUME NEW k \in 1..(n + 1)
        PROVE  g[k] = g[k - 1] + t[k]
    <3>1. CASE k = 1
      <4>1. f[0] = 0
        BY <1>3 DEF Sums
      <4>2. g[1] = a + f[0] /\ g[0] = 0
        BY <1>1
      <4> QED BY <1>2, <3>1, <4>1, <4>2
    <3>2. CASE k # 1
      <4>1. k - 1 \in 1..n /\ k - 1 - 1 \in 0..n
        BY <1>1, <3>2
      <4>2. f[k - 1] = f[k - 1 - 1] + s[k - 1]
        BY <1>3, <4>1 DEF Sums
      <4>3. t[k] = s[k - 1]
        BY <1>1, <1>2, <4>1
      <4>4. g[k] = a + f[k - 1] /\ g[k - 1] = a + f[k - 1 - 1]
        BY <1>1, <3>2
      <4>5. f[k - 1 - 1] \in Nat /\ s[k - 1] \in Nat
        BY <1>1, <2>1, <4>1
      <4> QED BY <4>2, <4>3, <4>4, <4>5
    <3> QED BY <3>1, <3>2
  <2> HIDE DEF g
  <2> QED BY <2>2, <2>3 DEF Sums
<1>5. g[n + 1] = a + f[n]
  BY <1>1
<1> HIDE DEF g
<1>6. Total(t) = g[n + 1]
  BY <1>1, <1>2, <1>4, SumsAreTotal
<1>7. Total(s) = f[n]
  BY <1>1, <1>3, SumsAreTotal
<1> QED BY <1>5, <1>6, <1>7 DEF t

CutTo(f, m, r) ==
    f = [k \in 0..m |-> IF k = 0 THEN <<>>
                        ELSE IF r + 1 < k THEN <<r>> \o f[k - r] ELSE <<k>>]

LEMMA CutStep ==
    ASSUME NEW m \in Nat, NEW r \in Nat \ {0}, NEW f, CutTo(f, m, r), NEW k \in 0..m
    PROVE  f[k] = IF k = 0 THEN <<>> ELSE IF r + 1 < k THEN <<r>> \o f[k - r] ELSE <<k>>
<1> DEFINE g == [l \in 0..m |-> IF l = 0 THEN <<>>
                                ELSE IF r + 1 < l THEN <<r>> \o f[l - r] ELSE <<l>>]
<1>1. g[k] = IF k = 0 THEN <<>> ELSE IF r + 1 < k THEN <<r>> \o f[k - r] ELSE <<k>>
  OBVIOUS
<1>2. f = g
  BY DEF CutTo
<1> HIDE DEF g
<1> QED BY <1>1, <1>2

LEMMA CutExists ==
    ASSUME NEW n \in Nat, NEW r \in Nat \ {0}
    PROVE  \E f : CutTo(f, n, r)
<1> DEFINE T == {m \in 0..n : \E f : CutTo(f, m, r)}
<1>1. 0 \in T
  <2>1. CutTo([k \in 0..0 |-> <<>>], 0, r)
    BY DEF CutTo
  <2> QED BY <2>1
<1>2. \A m \in 0..(n - 1) : m \in T => m + 1 \in T
  <2> TAKE m \in 0..(n - 1)
  <2> HAVE m \in T
  <2>1. PICK f : CutTo(f, m, r)
    OBVIOUS
  <2> DEFINE g == [k \in 0..(m + 1) |->
                     IF k <= m THEN f[k]
                     ELSE IF r + 1 < m + 1 THEN <<r>> \o f[m + 1 - r] ELSE <<m + 1>>]
             h == [k \in 0..(m + 1) |->
                     IF k = 0 THEN <<>>
                     ELSE IF r + 1 < k THEN <<r>> \o g[k - r] ELSE <<k>>]
  <2>2. \A k \in 0..(m + 1) : g[k] = h[k]
    <3> TAKE k \in 0..(m + 1)
    <3>1. CASE k \in 0..m
      <4>1. f[k] = IF k = 0 THEN <<>> ELSE IF r + 1 < k THEN <<r>> \o f[k - r] ELSE <<k>>
        BY <2>1, <3>1, CutStep
      <4>2. g[k] = f[k]
        BY <3>1
      <4>3. r + 1 < k => g[k - r] = f[k - r]
        BY <3>1
      <4>4. h[k] = IF k = 0 THEN <<>> ELSE IF r + 1 < k THEN <<r>> \o g[k - r] ELSE <<k>>
        OBVIOUS
      <4> HIDE DEF g, h
      <4> QED BY <4>1, <4>2, <4>3, <4>4
    <3>2. CASE k = m + 1
      <4>1. r + 1 < k => g[k - r] = f[m + 1 - r]
        BY <3>2
      <4>2. g[k] = IF r + 1 < m + 1 THEN <<r>> \o f[m + 1 - r] ELSE <<m + 1>>
        BY <3>2
      <4>3. h[k] = IF r + 1 < k THEN <<r>> \o g[k - r] ELSE <<k>>
        BY <3>2
      <4> HIDE DEF g, h
      <4> QED BY <3>2, <4>1, <4>2, <4>3
    <3> QED BY <3>1, <3>2
  <2>3. g = h
    BY <2>2
  <2>4. CutTo(g, m + 1, r)
    BY <2>3 DEF CutTo
  <2>5. m + 1 \in 0..n
    OBVIOUS
  <2> QED BY <2>4, <2>5, Zenon
<1> HIDE DEF T
<1>3. \A m \in 0..n : m \in T
  BY <1>1, <1>2, UpToAll
<1>4. n \in T
  BY <1>3
<1> QED BY <1>4 DEF T

\* The requests made of k points, none smaller than two, by steps of r.
Cut(s, k, r) ==
    /\ s \in Seq(Nat \ {0, 1})
    /\ s # <<>>
    /\ Total(s) = k
    /\ (Len(s) - 1) * r < k

LEMMA CutOnce ==
    ASSUME NEW k \in Nat \ {0, 1}, NEW r \in Nat
    PROVE  Cut(<<k>>, k, r)
<1>1. <<k>> \in Seq(Nat \ {0, 1}) /\ <<k>> # <<>> /\ Len(<<k>>) = 1
  OBVIOUS
<1>2. Total(<<k>>) = k
  BY TotalOfOne
<1>3. (1 - 1) * r < k
  OBVIOUS
<1> QED BY <1>1, <1>2, <1>3 DEF Cut

LEMMA CutMore ==
    ASSUME NEW k \in Nat, NEW r \in Nat \ {0, 1}, r + 1 < k,
           NEW s, Cut(s, k - r, r)
    PROVE  Cut(<<r>> \o s, k, r)
<1>1. s \in Seq(Nat \ {0, 1}) /\ Len(s) \in Nat /\ s \in Seq(Nat)
  BY LenProperties, SeqMonotonic DEF Cut
<1>2. <<r>> \in Seq(Nat \ {0, 1}) /\ Len(<<r>>) = 1
  OBVIOUS
<1>3. <<r>> \o s \in Seq(Nat \ {0, 1}) /\ Len(<<r>> \o s) = 1 + Len(s)
  BY <1>1, <1>2, ConcatProperties
<1>4. <<r>> \o s # <<>>
  BY <1>1, <1>3, EmptySeq
<1>5. Total(<<r>> \o s) = k
  BY <1>1, TotalPrepended DEF Cut
<1>6. (1 + Len(s) - 1) * r < k
  <2>1. (Len(s) - 1) * r < k - r
    BY DEF Cut
  <2>2. (1 + Len(s) - 1) * r = (Len(s) - 1) * r + r
    BY <1>1
  <2>3. (Len(s) - 1) * r \in Int
    BY <1>1
  <2> QED BY <2>1, <2>2, <2>3
<1> QED BY <1>3, <1>4, <1>5, <1>6 DEF Cut

LEMMA CutIsRight ==
    ASSUME NEW n \in Nat, NEW r \in Nat \ {0, 1}, NEW f, CutTo(f, n, r),
           NEW k \in 2..n
    PROVE  Cut(f[k], k, r)
<1> DEFINE T == {m \in 0..n : \A l \in 2..m : Cut(f[l], l, r)}
<1>1. 0 \in T
  OBVIOUS
<1>2. \A m \in 0..(n - 1) : m \in T => m + 1 \in T
  <2> TAKE m \in 0..(n - 1)
  <2> HAVE m \in T
  <2>1. ASSUME NEW l \in 2..(m + 1)
        PROVE  Cut(f[l], l, r)
    <3>1. CASE l \in 2..m
      BY <3>1
    <3>2. CASE l = m + 1
      <4>1. f[l] = IF r + 1 < l THEN <<r>> \o f[l - r] ELSE <<l>>
        BY <3>2, CutStep
      <4>2. CASE r + 1 < l
        <5>1. l - r \in 2..m
          BY <3>2, <4>2
        <5>2. Cut(f[l - r], l - r, r)
          BY <5>1
        <5>3. Cut(<<r>> \o f[l - r], l, r)
          BY <4>2, <5>2, CutMore
        <5> QED BY <4>1, <4>2, <5>3
      <4>3. CASE ~(r + 1 < l)
        <5>1. Cut(<<l>>, l, r)
          BY CutOnce
        <5> QED BY <4>1, <4>3, <5>1
      <4> QED BY <4>2, <4>3
    <3> QED BY <3>1, <3>2
  <2>2. m + 1 \in 0..n
    OBVIOUS
  <2> QED BY <2>1, <2>2, Zenon
<1> HIDE DEF T
<1>3. \A m \in 0..n : m \in T
  BY <1>1, <1>2, UpToAll
<1>4. n \in T /\ n \in 2..n /\ k \in 2..n
  BY <1>3
<1> QED BY <1>4 DEF T

LEMMA LargerOfTwo ==
    ASSUME NEW a \in Int, NEW b \in Int
    PROVE  Max({a, b}) \in {a, b} /\ Max({a, b}) >= a /\ Max({a, b}) >= b
<1>1. \E x \in {a, b} : \A y \in {a, b} : x >= y
  OBVIOUS
<1> QED BY <1>1 DEF Max

\* No point is lost, no request is for a single point, and there are no more
\* requests than workers.
LEMMA RequestsPrepared ==
    ASSUME NEW n \in Nat \ {0, 1}, NEW nodes \in Nat \ {0}
    PROVE  /\ PrepareRequests(n, nodes) \in Seq(Nat \ {0, 1})
           /\ PrepareRequests(n, nodes) # <<>>
           /\ Total(PrepareRequests(n, nodes)) = n
           /\ Len(PrepareRequests(n, nodes)) <= nodes
<1> DEFINE q == (n + nodes - 1) \div nodes
           r == Max({2, q})
           cut == CHOOSE f : CutTo(f, n, r)
           s == PrepareRequests(n, nodes)
<1>1. s = cut[n]
  BY DEF PrepareRequests, CutTo
<1>2. /\ q \in Int
      /\ n + nodes - 1 < nodes * q + nodes
  <2>1. n + nodes - 1 = nodes * q + ((n + nodes - 1) % nodes) /\ q \in Int
    OBVIOUS
  <2>2. (n + nodes - 1) % nodes \in 0..(nodes - 1)
    OBVIOUS
  <2> HIDE DEF q
  <2>3. nodes * q \in Int
    BY <2>1
  <2> QED BY <2>1, <2>2, <2>3
<1> HIDE DEF q
<1>3. r \in Nat \ {0, 1} /\ r >= q
  <2>1. r \in {2, q} /\ r >= 2 /\ r >= q
    BY <1>2, LargerOfTwo
  <2> HIDE DEF r
  <2> QED BY <1>2, <2>1
<1> HIDE DEF r
<1>4. nodes * q <= nodes * r
  <2>1. r - q \in Nat
    BY <1>2, <1>3
  <2>2. nodes * (r - q) >= 0
    BY <2>1
  <2>3. nodes * (r - q) = nodes * r - nodes * q
    BY <1>2, <1>3
  <2>4. nodes * r \in Int /\ nodes * q \in Int
    BY <1>2, <1>3
  <2> QED BY <2>2, <2>3, <2>4
<1>5. n <= nodes * r
  <2>1. nodes * r \in Int /\ nodes * q \in Int
    BY <1>2, <1>3
  <2> QED BY <1>2, <1>4, <2>1
<1>6. CutTo(cut, n, r)
  BY <1>3, CutExists
<1> HIDE DEF cut
<1>7. Cut(s, n, r)
  <2>1. n \in 2..n
    OBVIOUS
  <2>2. Cut(cut[n], n, r)
    BY <1>3, <1>6, <2>1, CutIsRight
  <2> QED BY <1>1, <2>2
<1> HIDE DEF s
<1>8. Len(s) <= nodes
  <2>1. Len(s) \in Nat /\ (Len(s) - 1) * r < n
    BY <1>7, LenProperties DEF Cut
  <2>2. (Len(s) - 1) * r < nodes * r
    <3>1. (Len(s) - 1) * r \in Int /\ nodes * r \in Int
      BY <1>3, <2>1
    <3> QED BY <1>5, <2>1, <3>1
  <2>3. SUFFICES ASSUME Len(s) - 1 >= nodes
                 PROVE  FALSE
    BY <2>1
  <2>4. PICK d \in Nat : Len(s) - 1 = nodes + d
    <3>1. Len(s) - 1 - nodes \in Nat /\ Len(s) - 1 = nodes + (Len(s) - 1 - nodes)
      BY <2>1, <2>3
    <3> QED BY <3>1
  <2>5. (Len(s) - 1) * r = nodes * r + d * r /\ d * r >= 0
    BY <1>3, <2>4
  <2>6. nodes * r \in Int /\ d * r \in Int
    BY <1>3
  <2> QED BY <2>2, <2>5, <2>6
<1> QED BY <1>7, <1>8 DEF s, Cut

-----------------------------------------------------------------------------
(* The inductive invariant.                                                *)

Socket == [fd : Nat \ {0}, req : Nat \ {0}, host : Host, wire : Wire, sent : BOOLEAN]

\* Sockets that wait, and results that are not handled yet.
Open == sockets \o results

TypeInv ==
    /\ heard \subseteq Host /\ up \subseteq Worker
    /\ addrsRef = Nil \/ addrsRef \in Seq(Host)
    /\ points \in Points
    /\ pc \in {"start", "assign", "send"} \cup Ends
    /\ currIdx \in Nat /\ numUpdates \in 0..MaxUnupdated
    /\ sizes \in Seq(Nat)
    /\ state \in [Request -> {"FD_NOT_ASSIGNED", "FD_ASSIGNED", "FINISHED"}]
    /\ response \in [Request -> Nat]
    /\ endpoint \in [Request -> Nat]
    /\ sockets \in Seq(Socket) /\ results \in Seq(Socket)

\* Before there are requests, and from then on.
ListInv ==
    /\ sizes = <<>> =>
         /\ pc \in {"start", "assert"}
         /\ pc = "assert" => points < 2 \/ addrsRef \in {Nil, <<>>}
         /\ sockets = <<>> /\ results = <<>> /\ alive = <<>>
    /\ sizes # <<>> =>
         /\ pc # "start"
         /\ addrsRef \in Seq(Host) \ {<<>>}
         /\ alive \in [DOMAIN addrsRef -> BOOLEAN]
         /\ \A i \in Request : endpoint[i] \in 0..Len(addrsRef)
         /\ pc = "send" => \A i \in Request : endpoint[i] # 0

\* What is true of every open socket: it carries a request that waits, to the
\* host of that request's endpoint, its descriptor leads back to the request,
\* and it ended without an answer only if that host did.
Carries(s) ==
    /\ s.req \in Request /\ state[s.req] = "FD_ASSIGNED"
    /\ endpoint[s.req] \in DOMAIN addrsRef /\ s.host = addrsRef[endpoint[s.req]]
    /\ s.fd \in DOMAIN fdIdxs /\ fdIdxs[s.fd] = s.req
    /\ s.wire = "reset" => s.host \notin up
    /\ s.wire = "closed" => s.host \in Worker \ up

OpenInv ==
    /\ \A s \in DOMAIN Open : Carries(Open[s])
    /\ \A s, t \in DOMAIN Open : Open[s].req = Open[t].req => s = t
    /\ \A i \in Request : state[i] = "FD_ASSIGNED" =>
         \E s \in DOMAIN Open : Open[s].req = i

WorkerGone == \E e \in DOMAIN addrsRef : addrsRef[e] \in Worker \ up

AnswersInv ==
    /\ \A s \in DOMAIN results : Ready(results[s])
    /\ \A i \in Request : response[i] \in {0, i}
    /\ \A i \in Request : state[i] = "FINISHED" /\ response[i] = 0 => WorkerGone
    /\ pc = "sum" => \A i \in Request : response[i] # 0
    /\ pc = "assert" /\ sizes # <<>> => WorkerGone

IntegratorInv ==
    /\ TypeInv
    /\ ListInv
    /\ RequestsHoldAllPoints
    /\ OpenInv
    /\ AnswersInv
    /\ GivesUpOnTheDead

LEMMA InvInit == Init => IntegratorInv
<1> SUFFICES ASSUME Init PROVE IntegratorInv
  OBVIOUS
<1> USE IntegratorAssumption
<1>1. TypeInv
  <2>1. Request = {}
    BY DEF Init, Request
  <2>2. state = <<>> /\ response = <<>> /\ endpoint = <<>>
    BY DEF Init
  <2>3. sizes \in Seq(Nat) /\ sockets \in Seq(Socket) /\ results \in Seq(Socket)
    BY EmptySeq DEF Init
  <2> QED BY <2>1, <2>2, <2>3 DEF Init, TypeInv
<1>2. ListInv
  BY DEF Init, ListInv
<1>3. RequestsHoldAllPoints
  BY DEF Init, RequestsHoldAllPoints
<1>4. DOMAIN Open = {} /\ Request = {} /\ DOMAIN results = {} /\ DOMAIN alive = {}
  <2>1. Open = <<>>
    BY DEF Init, Open
  <2> QED BY <2>1 DEF Init, Request
<1>5. OpenInv
  BY <1>4 DEF OpenInv
<1>6. AnswersInv
  BY <1>4 DEF Init, AnswersInv
<1>7. GivesUpOnTheDead
  BY <1>4 DEF Init, GivesUpOnTheDead
<1> QED BY <1>1, <1>2, <1>3, <1>5, <1>6, <1>7 DEF IntegratorInv

\* The sockets of both lists, one after the other.
LEMMA Joined ==
    ASSUME NEW a \in Seq(Socket), NEW b \in Seq(Socket)
    PROVE  /\ Len(a) \in Nat /\ Len(b) \in Nat
           /\ DOMAIN (a \o b) = 1..(Len(a) + Len(b))
           /\ \A k \in 1..Len(a) : k \in DOMAIN (a \o b) /\ (a \o b)[k] = a[k]
           /\ \A k \in 1..Len(b) :
                /\ Len(a) + k \in DOMAIN (a \o b)
                /\ (a \o b)[Len(a) + k] = b[k]
           /\ \A k \in DOMAIN (a \o b) :
                \/ k \in 1..Len(a)
                \/ \E l \in 1..Len(b) : k = Len(a) + l
<1>1. Len(a) \in Nat /\ Len(b) \in Nat
  BY LenProperties
<1>2. /\ Len(a \o b) = Len(a) + Len(b) /\ a \o b \in Seq(Socket)
      /\ \A k \in 1..Len(a) + Len(b) :
           (a \o b)[k] = IF k <= Len(a) THEN a[k] ELSE b[k - Len(a)]
  BY ConcatProperties
<1>3. DOMAIN (a \o b) = 1..(Len(a) + Len(b))
  BY <1>2, LenProperties
<1> DEFINE ab == a \o b
<1> HIDE DEF ab
<1>4. \A k \in 1..Len(a) : k \in DOMAIN ab /\ ab[k] = a[k]
  BY <1>1, <1>2, <1>3 DEF ab
<1>5. \A k \in 1..Len(b) : Len(a) + k \in DOMAIN ab /\ ab[Len(a) + k] = b[k]
  BY <1>1, <1>2, <1>3 DEF ab
<1>6. \A k \in DOMAIN ab : k \in 1..Len(a) \/ \E l \in 1..Len(b) : k = Len(a) + l
  <2> TAKE k \in DOMAIN ab
  <2>1. CASE k > Len(a)
    <3>1. k - Len(a) \in 1..Len(b) /\ k = Len(a) + (k - Len(a))
      BY <1>1, <1>3, <2>1 DEF ab
    <3> QED BY <3>1
  <2>2. CASE ~(k > Len(a))
    BY <1>1, <1>3, <2>2 DEF ab
  <2> QED BY <2>1, <2>2
<1> QED BY <1>1, <1>3, <1>4, <1>5, <1>6 DEF ab

\* The open sockets, each with what it carries.
LEMMA OpenIs ==
    ASSUME IntegratorInv
    PROVE  /\ Len(sockets) \in Nat /\ Len(results) \in Nat
           /\ DOMAIN sockets = 1..Len(sockets) /\ DOMAIN results = 1..Len(results)
           /\ \A s \in DOMAIN sockets : s \in DOMAIN Open /\ Open[s] = sockets[s]
           /\ \A s \in DOMAIN results :
                /\ Len(sockets) + s \in DOMAIN Open
                /\ Open[Len(sockets) + s] = results[s]
           /\ \A s \in DOMAIN Open : Open[s] \in Socket /\ Carries(Open[s])
<1>1. sockets \in Seq(Socket) /\ results \in Seq(Socket)
  BY DEF IntegratorInv, TypeInv
<1>2. Open \in Seq(Socket)
  BY <1>1, ConcatProperties DEF Open
<1>3. \A s \in DOMAIN Open : Open[s] \in Socket
  BY <1>2, LenProperties, ElementOfSeq
<1>4. DOMAIN sockets = 1..Len(sockets) /\ DOMAIN results = 1..Len(results)
  BY <1>1, LenProperties
<1>5. /\ Len(sockets) \in Nat /\ Len(results) \in Nat
      /\ \A s \in DOMAIN sockets : s \in DOMAIN Open /\ Open[s] = sockets[s]
      /\ \A s \in DOMAIN results :
           /\ Len(sockets) + s \in DOMAIN Open
           /\ Open[Len(sockets) + s] = results[s]
  BY <1>1, <1>4, Joined DEF Open
<1>6. \A s \in DOMAIN Open : Carries(Open[s])
  BY DEF IntegratorInv, OpenInv
<1> QED BY <1>3, <1>4, <1>5, <1>6

-----------------------------------------------------------------------------
(* Steps of the updater and of main.                                       *)

\* Nobody has a request, and no socket is open.
LEMMA NothingYet ==
    ASSUME IntegratorInv, sizes = <<>>
    PROVE  /\ Request = {} /\ DOMAIN Open = {} /\ DOMAIN results = {} /\ alive = <<>>
           /\ Open = <<>> /\ pc \in {"start", "assert"}
<1>1. ListInv
  BY DEF IntegratorInv
<1>2. Open = <<>>
  BY <1>1 DEF ListInv, Open
<1> QED BY <1>1, <1>2 DEF ListInv, Request

LEMMA InvHear ==
    ASSUME IntegratorInv, NEW h \in Host, Hear(h)
    PROVE  IntegratorInv'
<1>1. UNCHANGED <<addrsRef, inputVars, pc, endpointVars, requestVars, socketVars, up>>
  BY DEF Hear
<1> USE <1>1 DEF inputVars, endpointVars, requestVars, socketVars, Request
<1>2. TypeInv'
  BY DEF IntegratorInv, TypeInv, Hear
<1>3. ListInv'
  BY DEF IntegratorInv, ListInv
<1>4. RequestsHoldAllPoints'
  BY DEF IntegratorInv, RequestsHoldAllPoints
<1>5. OpenInv'
  BY DEF IntegratorInv, OpenInv, Open, Carries
<1>6. AnswersInv'
  BY DEF IntegratorInv, AnswersInv, WorkerGone
<1>7. GivesUpOnTheDead'
  BY DEF IntegratorInv, GivesUpOnTheDead
<1> QED BY <1>2, <1>3, <1>4, <1>5, <1>6, <1>7 DEF IntegratorInv

LEMMA HeardIsListed ==
    ASSUME IntegratorInv
    PROVE  SetToSeqs(heard) \subseteq Seq(Host)
<1>1. heard \in SUBSET Host /\ IsFiniteSet(Host)
  BY IntegratorAssumption DEF IntegratorInv, TypeInv
<1>2. Cardinality(heard) \in Nat
  BY <1>1, FS_Subset, FS_CardinalityType
<1>3. ASSUME NEW f \in SetToSeqs(heard)
      PROVE  f \in Seq(Host)
  <2> DEFINE n == Cardinality(heard)
  <2>1. f \in [1..n -> heard]
    BY <1>3 DEF SetToSeqs
  <2>2. f \in [1..n -> Host]
    BY <1>1, <2>1
  <2> HIDE DEF n
  <2> QED BY <1>2, <2>2 DEF n
<1> QED BY <1>3

LEMMA InvUpdateList ==
    ASSUME IntegratorInv, UpdateList
    PROVE  IntegratorInv'
<1>1. /\ UNCHANGED <<heard, inputVars, pc, endpointVars, requestVars, socketVars, up>>
      /\ Running /\ addrsRef = Nil /\ addrsRef' \in SetToSeqs(heard)
  BY DEF UpdateList
<1>2. addrsRef' \in Seq(Host)
  BY <1>1, HeardIsListed
<1>3. sizes = <<>>
  BY <1>1, IntegratorAssumption DEF IntegratorInv, ListInv
<1>4. pc = "start"
  BY <1>1, <1>3 DEF IntegratorInv, ListInv, Running, Ends
<1>5. sizes' = <<>> /\ pc' = "start" /\ Request' = {} /\ Open' = <<>> /\ results' = <<>>
      /\ alive' = <<>>
  BY <1>1, <1>3, <1>4, NothingYet
     DEF inputVars, Request, socketVars, Open, endpointVars, IntegratorInv, ListInv
<1>6. TypeInv'
  BY <1>1, <1>2 DEF IntegratorInv, TypeInv, inputVars, endpointVars, requestVars, socketVars,
                    Request
<1>7. ListInv'
  BY <1>1, <1>3, <1>4 DEF IntegratorInv, ListInv, inputVars, endpointVars, socketVars
<1>8. RequestsHoldAllPoints'
  BY <1>5 DEF RequestsHoldAllPoints
<1>9. OpenInv'
  BY <1>5 DEF OpenInv
<1>10. AnswersInv'
  BY <1>5 DEF AnswersInv
<1>11. GivesUpOnTheDead'
  BY <1>5 DEF GivesUpOnTheDead
<1> QED BY <1>6, <1>7, <1>8, <1>9, <1>10, <1>11 DEF IntegratorInv

LEMMA InvCalc ==
    ASSUME IntegratorInv, Calc
    PROVE  IntegratorInv'
<1>1. /\ pc = "start"
      /\ UNCHANGED <<discoveryVars, points, currIdx, numUpdates, old, socketVars, up>>
  BY DEF Calc
<1>2. sizes = <<>> /\ sockets = <<>> /\ results = <<>> /\ alive = <<>>
  BY <1>1 DEF IntegratorInv, ListInv
<1>3. sockets' = <<>> /\ results' = <<>> /\ Open' = <<>>
  BY <1>1, <1>2 DEF socketVars, Open
<1>4. addrsRef' = addrsRef /\ heard' = heard /\ up' = up
  BY <1>1 DEF discoveryVars
<1>5. CASE addrsRef \in {Nil, <<>>} \/ points < 2
  <2>1. pc' = "assert" /\ UNCHANGED <<sizes, alive, endpoint, requestVars>>
    BY <1>5 DEF Calc
  <2>2. sizes' = <<>> /\ alive' = <<>> /\ Request' = {}
    BY <1>2, <2>1 DEF Request
  <2>3. TypeInv'
    BY <1>1, <1>3, <1>4, <2>1 DEF IntegratorInv, TypeInv, Request, Ends, requestVars, socketVars
  <2>4. ListInv'
    BY <1>1, <1>3, <1>4, <1>5, <2>1, <2>2 DEF ListInv
  <2>5. RequestsHoldAllPoints'
    BY <2>2 DEF RequestsHoldAllPoints
  <2>6. OpenInv'
    BY <1>3, <2>2 DEF OpenInv
  <2>7. AnswersInv'
    BY <1>3, <2>1, <2>2 DEF AnswersInv
  <2>8. GivesUpOnTheDead'
    BY <2>1, <2>2 DEF GivesUpOnTheDead
  <2> QED BY <2>3, <2>4, <2>5, <2>6, <2>7, <2>8 DEF IntegratorInv
<1>6. CASE addrsRef \notin {Nil, <<>>} /\ ~(points < 2)
  <2>1. /\ pc' = "assign"
        /\ sizes' = PrepareRequests(points, Len(addrsRef))
        /\ alive' = AllAlive
        /\ endpoint' = [i \in DOMAIN sizes' |-> 0]
        /\ state' = [i \in DOMAIN sizes' |-> "FD_NOT_ASSIGNED"]
        /\ response' = [i \in DOMAIN sizes' |-> 0]
    BY <1>6 DEF Calc
  <2>2. addrsRef \in Seq(Host) /\ Len(addrsRef) \in Nat \ {0}
    BY <1>6, EmptySeq DEF IntegratorInv, TypeInv
  <2>3. points \in Nat \ {0, 1}
    BY <1>6, IntegratorAssumption DEF IntegratorInv, TypeInv
  <2>4. /\ sizes' \in Seq(Nat \ {0, 1}) /\ sizes' # <<>>
        /\ Total(sizes') = points /\ Len(sizes') <= Len(addrsRef)
    BY <2>1, <2>2, <2>3, RequestsPrepared
  <2>5. sizes' \in Seq(Nat)
    BY <2>4, SeqMonotonic
  <2>6. \A i \in DOMAIN sizes' : sizes'[i] >= 2
    BY <2>4, LenProperties, ElementOfSeq
  <2>7. TypeInv'
    BY <1>1, <1>3, <1>4, <2>1, <2>5
       DEF IntegratorInv, TypeInv, Request, socketVars
  <2>8. alive' \in [DOMAIN addrsRef -> BOOLEAN] /\ \A e \in DOMAIN alive' : alive'[e]
    BY <2>1 DEF AllAlive
  <2>9. ListInv'
    <3>1. Len(addrsRef) \in Nat
      BY <2>2
    <3> QED BY <1>4, <1>6, <2>1, <2>2, <2>4, <2>8, <3>1 DEF ListInv, Request
  <2>10. RequestsHoldAllPoints'
    BY <1>1, <1>4, <2>4, <2>6 DEF RequestsHoldAllPoints, Request
  <2>11. OpenInv'
    BY <1>3, <2>1 DEF OpenInv, Request
  <2>12. AnswersInv'
    BY <1>3, <2>1 DEF AnswersInv, Request
  <2>13. GivesUpOnTheDead'
    BY <1>4, <2>1, <2>8 DEF GivesUpOnTheDead
  <2> QED BY <2>7, <2>9, <2>10, <2>11, <2>12, <2>13 DEF IntegratorInv
<1> QED BY <1>5, <1>6

-----------------------------------------------------------------------------
(* NextEndpoint: who gets a request.                                       *)

\* Flags that are false for dead endpoints only.
Marks(flags) ==
    /\ flags \in [DOMAIN addrsRef -> BOOLEAN]
    /\ \A e \in DOMAIN addrsRef : ~flags[e] => addrsRef[e] \notin up

\* What becomes of request i: it gets an endpoint, or Calc gives up.
Placed(i) ==
    /\ numUpdates' \in 0..MaxUnupdated /\ currIdx' \in Nat
    /\ alive' \in [DOMAIN addrsRef -> BOOLEAN]
    /\ \A e \in DOMAIN addrsRef : ~alive'[e] => addrsRef[e] \notin up
    /\ \/ /\ pc' = pc
          /\ \E e \in DOMAIN addrsRef : endpoint' = [endpoint EXCEPT ![i] = e]
       \/ /\ pc' = "noLiving" /\ endpoint' = endpoint
          /\ \A e \in DOMAIN addrsRef : addrsRef[e] \notin up

LEMMA Chosen ==
    ASSUME IntegratorInv, sizes # <<>>, NEW i \in Request, NEW flags, Marks(flags),
           NEW first \in Nat, NEW anew, Choose(i, flags, first, anew),
           numUpdates' \in 0..MaxUnupdated
    PROVE  Placed(i)
<1> DEFINE n == Len(addrsRef)
           place(j) == (j % n) + 1
           living == {j \in first..(first + n - 1) : flags[place(j)]}
<1>1. n \in Nat \ {0} /\ DOMAIN addrsRef = 1..n
  BY EmptySeq, LenProperties DEF IntegratorInv, ListInv
<1>2. /\ alive' = flags
      /\ \/ /\ living = {}
            /\ pc' = "noLiving" /\ UNCHANGED <<currIdx, endpoint, old>>
         \/ /\ living # {}
            /\ currIdx' = Min(living) + 1
            /\ endpoint' = [endpoint EXCEPT ![i] = place(Min(living))]
            /\ UNCHANGED pc
  BY DEF Choose
<1>3. currIdx \in Nat
  BY DEF IntegratorInv, TypeInv
<1>4. CASE living = {}
  <2>1. pc' = "noLiving" /\ endpoint' = endpoint /\ currIdx' = currIdx
    BY <1>2, <1>4
  <2>2. ASSUME NEW e \in DOMAIN addrsRef
        PROVE  addrsRef[e] \notin up
    <3>1. e - 1 \in 0..(n - 1)
      BY <1>1
    <3> HIDE DEF n
    <3>2. PICK j \in first..(first + n - 1) : j % n = e - 1
      BY <1>1, <3>1, RowCovers
    <3>3. place(j) = e
      BY <1>1, <3>2
    <3>4. flags[place(j)] = FALSE
      <4>1. j \notin living
        BY <1>4
      <4>2. flags[place(j)] \in BOOLEAN
        BY <3>3 DEF Marks
      <4> QED BY <4>1, <4>2
    <3>5. ~flags[e]
      BY <3>3, <3>4
    <3> QED BY <3>5 DEF Marks
  <2> QED BY <1>2, <1>3, <2>1, <2>2 DEF Placed, Marks
<1>5. CASE living # {}
  <2>1. living \in SUBSET Nat
    OBVIOUS
  <2> DEFINE m == Min(living)
  <2>2. m \in living
    BY <1>5, <2>1, MinIs
  <2>3. m \in Nat
    BY <2>1, <2>2
  <2> HIDE DEF n, living, m
  <2>4. place(m) \in DOMAIN addrsRef
    BY <1>1, <2>3
  <2>5. endpoint' = [endpoint EXCEPT ![i] = place(m)] /\ pc' = pc /\ currIdx' = m + 1
    BY <1>2, <1>5 DEF m
  <2>6. \E e \in DOMAIN addrsRef : endpoint' = [endpoint EXCEPT ![i] = e]
    <3> HIDE DEF place
    <3> QED BY <2>4, <2>5
  <2>7. alive' \in [DOMAIN addrsRef -> BOOLEAN]
        /\ \A e \in DOMAIN addrsRef : ~alive'[e] => addrsRef[e] \notin up
    BY <1>2 DEF Marks
  <2>8. currIdx' \in Nat /\ pc' = pc
    BY <2>3, <2>5
  <2> QED BY <2>6, <2>7, <2>8, Zenon DEF Placed
<1> QED BY <1>4, <1>5

LEMMA EndpointHandedOut ==
    ASSUME IntegratorInv, sizes # <<>>, NEW i \in Request, NEW known, Marks(known),
           NextEndpoint(i, known)
    PROVE  Placed(i)
<1>1. numUpdates \in 0..MaxUnupdated /\ currIdx \in Nat /\ MaxUnupdated \in Nat
  BY IntegratorAssumption DEF IntegratorInv, TypeInv
<1>2. CASE numUpdates >= MaxUnupdated
  <2>1. Marks(AllAlive)
    BY DEF Marks, AllAlive
  <2>2. numUpdates' = 0 /\ Choose(i, AllAlive, 0, TRUE)
    BY <1>2 DEF NextEndpoint
  <2>3. numUpdates' \in 0..MaxUnupdated
    BY <1>1, <2>2
  <2> QED BY <2>1, <2>2, <2>3, Chosen
<1>3. CASE ~(numUpdates >= MaxUnupdated)
  <2>1. numUpdates' = numUpdates + 1 /\ Choose(i, known, currIdx, FALSE)
    BY <1>3 DEF NextEndpoint
  <2>2. numUpdates' \in 0..MaxUnupdated
    BY <1>1, <1>3, <2>1
  <2> QED BY <1>1, <2>1, <2>2, Chosen
<1> QED BY <1>2, <1>3

\* What is marked so far is dead.
LEMMA AliveMarks ==
    ASSUME IntegratorInv, sizes # <<>>
    PROVE  Marks(alive)
BY DEF IntegratorInv, ListInv, GivesUpOnTheDead, Marks

LEMMA InvAssign ==
    ASSUME IntegratorInv, Assign
    PROVE  IntegratorInv'
<1>1. /\ pc = "assign"
      /\ UNCHANGED <<discoveryVars, inputVars, requestVars, socketVars, up>>
  BY DEF Assign
<1>2. sizes # <<>>
  BY <1>1 DEF IntegratorInv, ListInv
<1>3. /\ addrsRef' = addrsRef /\ heard' = heard /\ points' = points /\ sizes' = sizes
      /\ state' = state /\ response' = response /\ sockets' = sockets
      /\ results' = results /\ fdIdxs' = fdIdxs /\ up' = up
      /\ Open' = Open /\ Request' = Request
  BY <1>1 DEF discoveryVars, inputVars, requestVars, socketVars, Open, Request
<1>4. CASE Unplaced = {}
  <2>1. /\ pc' = "send" /\ currIdx' = currIdx /\ numUpdates' = numUpdates
        /\ alive' = alive /\ endpoint' = endpoint
    BY <1>4 DEF Assign, endpointVars
  <2> USE <1>3, <2>1
  <2>2. TypeInv'
    BY <1>1 DEF IntegratorInv, TypeInv
  <2>3. ListInv'
    BY <1>1, <1>2, <1>4 DEF IntegratorInv, ListInv, Unplaced
  <2>4. RequestsHoldAllPoints'
    BY DEF IntegratorInv, RequestsHoldAllPoints
  <2>5. OpenInv'
    BY DEF IntegratorInv, OpenInv, Carries
  <2>6. AnswersInv'
    BY DEF IntegratorInv, AnswersInv, WorkerGone
  <2>7. GivesUpOnTheDead'
    BY DEF IntegratorInv, GivesUpOnTheDead
  <2> QED BY <2>2, <2>3, <2>4, <2>5, <2>6, <2>7 DEF IntegratorInv
<1>5. CASE Unplaced # {}
  <2> DEFINE i == Min(Unplaced)
  <2>1. i \in Unplaced
    <3>1. Unplaced \in SUBSET Nat
      BY LenProperties DEF IntegratorInv, TypeInv, Unplaced, Request
    <3> QED BY <1>5, <3>1, MinIs
  <2>2. i \in Request /\ endpoint[i] = 0
    BY <2>1 DEF Unplaced
  <2>3. NextEndpoint(i, alive)
    BY <1>5 DEF Assign
  <2> HIDE DEF i
  <2>4. Placed(i)
    BY <1>2, <2>2, <2>3, AliveMarks, EndpointHandedOut
  <2> USE <1>3
  <2>5. /\ endpoint \in [Request -> Nat] /\ addrsRef \in Seq(Host)
        /\ DOMAIN addrsRef = 1..Len(addrsRef) /\ Len(addrsRef) \in Nat
        /\ \A j \in Request : endpoint[j] \in 0..Len(addrsRef)
    BY <1>2, LenProperties DEF IntegratorInv, TypeInv, ListInv
  <2>6. /\ endpoint' \in [Request -> Nat]
        /\ \A j \in Request : endpoint'[j] \in 0..Len(addrsRef)
        /\ \A j \in Request \ {i} : endpoint'[j] = endpoint[j]
    BY <2>4, <2>5 DEF Placed
  <2>7. pc' \in {"assign", "noLiving"}
    BY <1>1, <2>4 DEF Placed
  <2>8. TypeInv'
    BY <2>4, <2>6, <2>7 DEF IntegratorInv, TypeInv, Placed, Ends
  <2>9. ListInv'
    BY <1>2, <2>4, <2>6, <2>7 DEF IntegratorInv, ListInv, Placed
  <2>10. RequestsHoldAllPoints'
    BY DEF IntegratorInv, RequestsHoldAllPoints
  <2>11. OpenInv'
    <3>1. ASSUME NEW s \in DOMAIN Open PROVE Carries(Open[s])'
      <4>1. Carries(Open[s])
        BY DEF IntegratorInv, OpenInv
      <4>2. Open[s].req # i
        BY <2>2, <2>5, <4>1 DEF Carries
      <4> QED BY <2>6, <4>1, <4>2 DEF Carries
    <3> QED BY <3>1 DEF IntegratorInv, OpenInv
  <2>12. AnswersInv'
    BY <2>7 DEF IntegratorInv, AnswersInv, WorkerGone
  <2>13. GivesUpOnTheDead'
    BY <2>4, <1>1 DEF Placed, GivesUpOnTheDead
  <2> QED BY <2>8, <2>9, <2>10, <2>11, <2>12, <2>13 DEF IntegratorInv
<1> QED BY <1>4, <1>5

-----------------------------------------------------------------------------
(* The sender: its sockets.                                                *)

\* Some descriptor is free: there is one more of them than sockets.
LEMMA FreeFdIsFree ==
    ASSUME IntegratorInv
    PROVE  FreeFd \in Nat \ {0} /\ \A s \in DOMAIN sockets : sockets[s].fd # FreeFd
<1> DEFINE n == Len(sockets)
           fds == {sockets[s].fd : s \in DOMAIN sockets}
           free == (1..(n + 1)) \ fds
<1>1. n \in Nat /\ DOMAIN sockets = 1..n
  BY OpenIs
<1>2. IsFiniteSet(fds) /\ Cardinality(fds) <= n
  <2> DEFINE f == [s \in 1..n |-> sockets[s].fd]
  <2>1. f \in Surjection(1..n, fds)
    BY <1>1 DEF Surjection
  <2>2. IsFiniteSet(1..n) /\ Cardinality(1..n) = n
    <3> HIDE DEF n
    <3> QED BY <1>1, FS_Interval
  <2> HIDE DEF f, fds, n
  <2> QED BY <2>1, <2>2, FS_Surjection
<1>3. free # {}
  <2> SUFFICES ASSUME 1..(n + 1) \subseteq fds PROVE FALSE
    OBVIOUS
  <2>1. Cardinality(1..(n + 1)) = n + 1
    BY <1>1, FS_Interval
  <2> HIDE DEF fds, n
  <2>2. Cardinality(1..(n + 1)) <= Cardinality(fds)
    BY <1>2, FS_Subset
  <2>3. Cardinality(fds) \in Nat
    BY <1>2, FS_CardinalityType
  <2> QED BY <1>1, <1>2, <2>1, <2>2, <2>3
<1>4. Min(free) \in free
  <2>1. free \in SUBSET Nat
    BY <1>1
  <2> HIDE DEF free
  <2> QED BY <1>3, <2>1, MinIs
<1>5. FreeFd = Min(free)
  BY DEF FreeFd
<1>6. FreeFd \in free
  BY <1>4, <1>5
<1> QED BY <1>1, <1>6

LEMMA InvRegister ==
    ASSUME IntegratorInv, Register
    PROVE  IntegratorInv'
<1> DEFINE i == Min(NotAssigned)
           new == [fd |-> FreeFd, req |-> i, host |-> addrsRef[endpoint[i]],
                   wire |-> "connecting", sent |-> FALSE]
<1>1. /\ pc = "send" /\ results = <<>> /\ NotAssigned # {}
      /\ UNCHANGED <<discoveryVars, inputVars, endpointVars, response, results, up>>
  BY DEF Register
<1>2. sizes # <<>>
  BY <1>1 DEF IntegratorInv, ListInv
<1>3. /\ addrsRef' = addrsRef /\ heard' = heard /\ points' = points /\ sizes' = sizes
      /\ currIdx' = currIdx /\ numUpdates' = numUpdates /\ alive' = alive
      /\ endpoint' = endpoint /\ response' = response /\ results' = <<>>
      /\ results = <<>> /\ up' = up /\ Request' = Request
  BY <1>1 DEF discoveryVars, inputVars, endpointVars, Request
<1>4. i \in Request /\ state[i] = "FD_NOT_ASSIGNED"
  <2>1. NotAssigned \in SUBSET Nat
    BY LenProperties DEF IntegratorInv, TypeInv, NotAssigned, Request
  <2>2. i \in NotAssigned
    BY <1>1, <2>1, MinIs
  <2> QED BY <2>2 DEF NotAssigned
<1>5. \/ /\ sockets' = Append(sockets, new) /\ pc' = pc
         /\ state' = [state EXCEPT ![i] = "FD_ASSIGNED"]
         /\ fdIdxs' = [fd \in DOMAIN fdIdxs \cup {FreeFd} |->
                         IF fd = FreeFd THEN i ELSE fdIdxs[fd]]
      \/ pc' = "refused" /\ sockets' = sockets /\ state' = state /\ fdIdxs' = fdIdxs
  BY DEF Register, RegisterSocket
<1> HIDE DEF i
<1>6. endpoint[i] \in DOMAIN addrsRef /\ addrsRef \in Seq(Host)
  <2>1. /\ addrsRef \in Seq(Host) /\ endpoint[i] \in 0..Len(addrsRef) /\ endpoint[i] # 0
    BY <1>1, <1>2, <1>4 DEF IntegratorInv, ListInv
  <2> QED BY <2>1, LenProperties
<1>7. CASE pc' = "refused" /\ sockets' = sockets /\ state' = state /\ fdIdxs' = fdIdxs
  <2> USE <1>3, <1>7
  <2>1. Open' = Open
    BY DEF Open
  <2>2. TypeInv'
    BY DEF IntegratorInv, TypeInv, Ends
  <2>3. ListInv'
    BY <1>2 DEF IntegratorInv, ListInv
  <2>4. RequestsHoldAllPoints'
    BY DEF IntegratorInv, RequestsHoldAllPoints
  <2>5. OpenInv'
    BY <2>1 DEF IntegratorInv, OpenInv, Carries
  <2>6. AnswersInv'
    BY DEF IntegratorInv, AnswersInv, WorkerGone
  <2>7. GivesUpOnTheDead'
    BY DEF IntegratorInv, GivesUpOnTheDead
  <2> QED BY <2>2, <2>3, <2>4, <2>5, <2>6, <2>7 DEF IntegratorInv
<1>8. CASE /\ sockets' = Append(sockets, new) /\ pc' = pc
           /\ state' = [state EXCEPT ![i] = "FD_ASSIGNED"]
           /\ fdIdxs' = [fd \in DOMAIN fdIdxs \cup {FreeFd} |->
                           IF fd = FreeFd THEN i ELSE fdIdxs[fd]]
  <2> DEFINE n == Len(sockets)
  <2>1. /\ sockets \in Seq(Socket) /\ n \in Nat /\ DOMAIN sockets = 1..n
        /\ state \in [Request -> {"FD_NOT_ASSIGNED", "FD_ASSIGNED", "FINISHED"}]
        /\ Request \subseteq Nat \ {0}
    BY LenProperties DEF IntegratorInv, TypeInv, Request
  <2>2. new \in Socket
    <3>1. addrsRef[endpoint[i]] \in Host
      BY <1>6
    <3>2. i \in Nat \ {0}
      BY <1>4, <2>1
    <3> QED BY <3>1, <3>2, FreeFdIsFree DEF Socket, Wire
  <2> HIDE DEF new
  <2>3. Append(sockets, new) \in Seq(Socket)
    BY <2>1, <2>2, AppendProperties
  <2>4. Open = sockets /\ Open' = Append(sockets, new)
    BY <1>3, <1>8, <2>1, <2>3, ConcatEmptySeq DEF Open
  <2>5. /\ DOMAIN Open = 1..n /\ DOMAIN Open' = 1..(n + 1)
        /\ \A s \in 1..n : Open'[s] = Open[s]
        /\ Open'[n + 1] = new
    BY <2>1, <2>2, <2>3, <2>4, AppendProperties, LenProperties
  <2>6. /\ state'[i] = "FD_ASSIGNED"
        /\ \A j \in Request \ {i} : state'[j] = state[j]
        /\ state' \in [Request -> {"FD_NOT_ASSIGNED", "FD_ASSIGNED", "FINISHED"}]
    BY <1>4, <1>8, <2>1
  <2>7. /\ new.req = i /\ new.fd = FreeFd /\ new.host = addrsRef[endpoint[i]]
        /\ new.wire = "connecting"
    BY DEF new
  <2>8. \A s \in 1..n : Carries(Open[s]) /\ Open[s].fd # FreeFd /\ Open[s].req # i
    BY <1>4, <2>1, <2>4, FreeFdIsFree, OpenIs DEF Carries
  <2>9. /\ fdIdxs'[FreeFd] = i /\ FreeFd \in DOMAIN fdIdxs'
        /\ \A fd \in DOMAIN fdIdxs : fd \in DOMAIN fdIdxs'
        /\ \A fd \in DOMAIN fdIdxs : fd # FreeFd => fdIdxs'[fd] = fdIdxs[fd]
    BY <1>8
  <2>10. TypeInv'
    BY <1>3, <1>8, <2>3, <2>6 DEF IntegratorInv, TypeInv
  <2>11. ListInv'
    BY <1>2, <1>3, <1>8 DEF IntegratorInv, ListInv
  <2>12. RequestsHoldAllPoints'
    BY <1>3 DEF IntegratorInv, RequestsHoldAllPoints
  <2>13. OpenInv'
    <3>1. ASSUME NEW s \in DOMAIN Open' PROVE Carries(Open[s])'
      <4>1. CASE s \in 1..n
        <5>1. Carries(Open[s]) /\ Open[s].fd # FreeFd /\ Open[s].req # i
          BY <2>8, <4>1
        <5>2. Open'[s] = Open[s]
          BY <2>5, <4>1
        <5>3. state'[Open[s].req] = "FD_ASSIGNED" /\ Open[s].req \in Request
          BY <2>6, <5>1 DEF Carries
        <5>4. Open[s].fd \in DOMAIN fdIdxs' /\ fdIdxs'[Open[s].fd] = Open[s].req
          BY <2>9, <5>1 DEF Carries
        <5> QED BY <1>3, <5>1, <5>2, <5>3, <5>4 DEF Carries
      <4>2. CASE s = n + 1
        <5>1. Open'[s] = new
          BY <2>5, <4>2
        <5> QED BY <1>3, <1>4, <1>6, <2>6, <2>7, <2>9, <5>1 DEF Carries
      <4> QED BY <2>1, <2>5, <4>1, <4>2
    <3>2. ASSUME NEW s \in DOMAIN Open', NEW t \in DOMAIN Open', Open'[s].req = Open'[t].req
          PROVE  s = t
      <4>1. \A u, v \in 1..n : Open[u].req = Open[v].req => u = v
        BY <2>5 DEF IntegratorInv, OpenInv
      <4> QED BY <2>1, <2>5, <2>7, <2>8, <3>2, <4>1
    <3>3. ASSUME NEW j \in Request', state'[j] = "FD_ASSIGNED"
          PROVE  \E s \in DOMAIN Open' : Open'[s].req = j
      <4>1. CASE j = i
        <5>1. n + 1 \in DOMAIN Open' /\ Open'[n + 1].req = i
          BY <2>1, <2>5, <2>7
        <5> QED BY <4>1, <5>1
      <4>2. CASE j # i
        <5>1. j \in Request /\ state[j] = "FD_ASSIGNED"
          BY <1>3, <2>6, <3>3, <4>2
        <5>2. PICK s \in DOMAIN Open : Open[s].req = j
          BY <5>1 DEF IntegratorInv, OpenInv
        <5>3. s \in DOMAIN Open' /\ Open'[s].req = j
          BY <2>1, <2>5, <5>2
        <5> QED BY <5>3
      <4> QED BY <4>1, <4>2
    <3> QED BY <3>1, <3>2, <3>3 DEF OpenInv
  <2>14. AnswersInv'
    BY <1>3, <1>4, <1>8, <2>6 DEF IntegratorInv, AnswersInv, WorkerGone
  <2>15. GivesUpOnTheDead'
    BY <1>3, <1>8 DEF IntegratorInv, GivesUpOnTheDead
  <2> QED BY <2>10, <2>11, <2>12, <2>13, <2>14, <2>15 DEF IntegratorInv
<1> QED BY <1>5, <1>7, <1>8

\* In rest, only the socket of request i is missing; its descriptor was fd.
Without(rest, i, fd) ==
    /\ \A s \in DOMAIN rest :
         \E t \in DOMAIN Open : rest[s] = Open[t] /\ Open[t].req # i /\ Open[t].fd # fd
    /\ \A s, t \in DOMAIN rest : rest[s].req = rest[t].req => s = t
    /\ \A j \in Request \ {i} : state[j] = "FD_ASSIGNED" =>
         \E s \in DOMAIN rest : rest[s].req = j

\* When the first result is handled, every other request keeps its socket.
LEMMA HeadHandled ==
    ASSUME IntegratorInv, results # <<>>,
           NEW sock, sock = Head(results), NEW i, i = fdIdxs[sock.fd],
           NEW rest, rest = sockets \o Tail(results)
    PROVE  /\ sock.req = i /\ Carries(sock) /\ sock \in Socket /\ Ready(sock)
           /\ Without(rest, i, sock.fd)
<1> DEFINE n == Len(sockets)
           m == Len(results)
<1>1. /\ sockets \in Seq(Socket) /\ results \in Seq(Socket)
      /\ Tail(results) \in Seq(Socket) /\ Len(Tail(results)) = m - 1
      /\ \A k \in 1..(m - 1) : Tail(results)[k] = results[k + 1]
  BY HeadTailProperties DEF IntegratorInv, TypeInv
<1>2. n \in Nat /\ m \in Nat \ {0} /\ DOMAIN sockets = 1..n /\ DOMAIN results = 1..m
  BY <1>1, EmptySeq, OpenIs
<1>3. sock = results[1]
  BY <1>1
<1>4. n + 1 \in DOMAIN Open /\ Open[n + 1] = sock
  BY <1>2, <1>3, OpenIs
<1>5. Carries(sock) /\ sock \in Socket /\ sock.req = i
  BY <1>4, OpenIs DEF Carries
<1>6. Ready(sock)
  BY <1>2, <1>3 DEF IntegratorInv, AnswersInv
<1>7. DOMAIN Open = 1..(n + m)
  BY <1>1, Joined DEF Open
<1>8. /\ DOMAIN rest = 1..(n + m - 1)
      /\ \A s \in 1..n : rest[s] = Open[s]
      /\ \A k \in 1..(m - 1) : rest[n + k] = Open[n + k + 1]
  <2>1. /\ DOMAIN rest = 1..(n + (m - 1))
        /\ \A s \in 1..n : rest[s] = sockets[s]
        /\ \A k \in 1..(m - 1) : rest[n + k] = Tail(results)[k]
    BY <1>1, Joined
  <2>2. \A s \in 1..n : sockets[s] = Open[s]
    BY <1>2, OpenIs
  <2>3. ASSUME NEW k \in 1..(m - 1)
        PROVE  results[k + 1] = Open[n + (k + 1)]
    <3>1. k + 1 \in DOMAIN results
      BY <1>2
    <3> QED BY <3>1, OpenIs
  <2> QED BY <1>1, <1>2, <2>1, <2>2, <2>3
<1> DEFINE c(s) == IF s <= n THEN s ELSE s + 1
<1>9. ASSUME NEW s \in DOMAIN rest
      PROVE  c(s) \in DOMAIN Open /\ c(s) # n + 1 /\ rest[s] = Open[c(s)]
  <2>1. CASE s <= n
    BY <1>2, <1>7, <1>8, <2>1
  <2>2. CASE ~(s <= n)
    <3>1. s - n \in 1..(m - 1) /\ n + (s - n) = s
      BY <1>2, <1>8, <2>2
    <3>2. rest[s] = Open[s + 1]
      BY <1>8, <3>1
    <3> QED BY <1>2, <1>7, <1>8, <2>2, <3>2
  <2> QED BY <2>1, <2>2
<1>10. \A s, t \in DOMAIN Open : Open[s].req = Open[t].req => s = t
  BY DEF IntegratorInv, OpenInv
<1>11. ASSUME NEW t \in DOMAIN Open, t # n + 1
       PROVE  Open[t].req # i /\ Open[t].fd # sock.fd
  <2>1. Open[t].req # i
    BY <1>4, <1>5, <1>10, <1>11
  <2> QED BY <2>1, OpenIs DEF Carries
<1>12. ASSUME NEW s \in DOMAIN rest
       PROVE  \E t \in DOMAIN Open :
                rest[s] = Open[t] /\ Open[t].req # i /\ Open[t].fd # sock.fd
  BY <1>9, <1>11
<1>13. ASSUME NEW s \in DOMAIN rest, NEW t \in DOMAIN rest, rest[s].req = rest[t].req
       PROVE  s = t
  <2>1. c(s) = c(t)
    BY <1>9, <1>10, <1>13
  <2> QED BY <1>2, <1>8, <2>1
<1>14. ASSUME NEW j \in Request \ {i}, state[j] = "FD_ASSIGNED"
       PROVE  \E s \in DOMAIN rest : rest[s].req = j
  <2>1. PICK t \in DOMAIN Open : Open[t].req = j
    BY <1>14 DEF IntegratorInv, OpenInv
  <2>2. t # n + 1
    BY <1>4, <1>5, <2>1
  <2>3. CASE t <= n
    <3>1. t \in DOMAIN rest /\ rest[t] = Open[t]
      BY <1>2, <1>7, <1>8, <2>3
    <3> QED BY <2>1, <3>1
  <2>4. CASE ~(t <= n)
    <3>1. t - n - 1 \in 1..(m - 1) /\ n + (t - n - 1) = t - 1 /\ t - 1 + 1 = t
      <4>1. t \in 1..(n + m) /\ t > n + 1
        BY <1>2, <1>7, <2>2, <2>4
      <4>2. \A a, b \in Nat : \A u \in 1..(a + b) : u > a + 1 =>
              u - a - 1 \in 1..(b - 1) /\ a + (u - a - 1) = u - 1 /\ u - 1 + 1 = u
        OBVIOUS
      <4> HIDE DEF n, m
      <4> QED BY <1>2, <4>1, <4>2
    <3>2. t - 1 \in DOMAIN rest /\ rest[t - 1] = Open[t]
      BY <1>2, <1>8, <3>1
    <3> QED BY <2>1, <3>2
  <2> QED BY <2>3, <2>4
<1>15. Without(rest, i, sock.fd)
  BY <1>12, <1>13, <1>14 DEF Without
<1> QED BY <1>5, <1>6, <1>15

\* The result is handled: its request has no socket any more.
LEMMA OpenAfterResult ==
    ASSUME IntegratorInv, results # <<>>,
           NEW sock, sock = Head(results), NEW i, i = fdIdxs[sock.fd],
           UNCHANGED <<discoveryVars, inputVars, sockets, up>>, results' = Tail(results),
           NEW x, x # "FD_ASSIGNED", state' = [state EXCEPT ![i] = x],
           Erase(sock.fd), \A j \in Request \ {i} : endpoint'[j] = endpoint[j]
    PROVE  OpenInv'
<1>0. PICK rest : rest = sockets \o Tail(results)
  OBVIOUS
<1>1. Open' = rest
  BY <1>0 DEF Open
<1>2. Without(rest, i, sock.fd)
  BY <1>0, HeadHandled
<1>3. addrsRef' = addrsRef /\ up' = up /\ Request' = Request
  BY DEF discoveryVars, inputVars, Request
<1>4. i \in Request => state'[i] = x
  BY DEF IntegratorInv, TypeInv
<1>5. \A j \in Request \ {i} : state'[j] = state[j]
  BY DEF IntegratorInv, TypeInv
<1>6. \A fd \in DOMAIN fdIdxs \ {sock.fd} : fd \in DOMAIN fdIdxs' /\ fdIdxs'[fd] = fdIdxs[fd]
  BY DEF Erase
<1>7. ASSUME NEW s \in DOMAIN Open'
      PROVE  Carries(Open[s])'
  <2>1. PICK t \in DOMAIN Open :
          rest[s] = Open[t] /\ Open[t].req # i /\ Open[t].fd # sock.fd
    BY <1>1, <1>2 DEF Without
  <2>2. Carries(Open[t])
    BY OpenIs
  <2>3. Open[t].req \in Request \ {i} /\ Open[t].fd \in DOMAIN fdIdxs \ {sock.fd}
    BY <2>1, <2>2 DEF Carries
  <2>4. /\ state'[Open[t].req] = state[Open[t].req]
        /\ endpoint'[Open[t].req] = endpoint[Open[t].req]
        /\ Open[t].fd \in DOMAIN fdIdxs' /\ fdIdxs'[Open[t].fd] = fdIdxs[Open[t].fd]
    BY <1>5, <1>6, <2>3
  <2>5. Open'[s] = Open[t]
    BY <1>1, <2>1
  <2> QED BY <1>3, <2>2, <2>4, <2>5 DEF Carries
<1>8. \A s, t \in DOMAIN Open' : Open'[s].req = Open'[t].req => s = t
  BY <1>1, <1>2 DEF Without
<1>9. ASSUME NEW j \in Request', state'[j] = "FD_ASSIGNED"
      PROVE  \E s \in DOMAIN Open' : Open'[s].req = j
  <2>1. j \in Request \ {i} /\ state[j] = "FD_ASSIGNED"
    BY <1>3, <1>4, <1>5, <1>9
  <2> QED BY <1>1, <1>2, <2>1 DEF Without
<1> QED BY <1>7, <1>8, <1>9 DEF OpenInv

LEMMA InvHandleResult ==
    ASSUME IntegratorInv, HandleResult
    PROVE  IntegratorInv'
<1>0. PICK sock, i, rest :
        sock = Head(results) /\ i = fdIdxs[sock.fd] /\ rest = sockets \o Tail(results)
  OBVIOUS
<1>1. /\ pc = "send" /\ results # <<>> /\ results' = Tail(results)
      /\ IF sock.wire = "reset" THEN Failed(sock, i) ELSE Closed(sock, i)
      /\ UNCHANGED <<discoveryVars, inputVars, up>>
  BY <1>0 DEF HandleResult
<1>2. sizes # <<>>
  BY <1>1 DEF IntegratorInv, ListInv
<1>3. /\ sock.req = i /\ Carries(sock) /\ sock \in Socket /\ Ready(sock)
  BY <1>0, <1>1, HeadHandled
<1>4. i \in Request /\ state[i] = "FD_ASSIGNED" /\ i \in Nat \ {0}
  <2>1. Request \subseteq Nat \ {0}
    BY LenProperties DEF IntegratorInv, TypeInv, Request
  <2> QED BY <1>3, <2>1 DEF Carries
<1>5. sockets' = sockets /\ Erase(sock.fd)
  BY <1>1 DEF Failed, Closed
<1>6. /\ addrsRef' = addrsRef /\ heard' = heard /\ points' = points /\ sizes' = sizes
      /\ up' = up /\ Request' = Request
  BY <1>1 DEF discoveryVars, inputVars, Request
<1>7. /\ results' \in Seq(Socket) /\ sockets' \in Seq(Socket)
      /\ \A k \in DOMAIN results' : Ready(results'[k])
  <2>1. /\ results \in Seq(Socket) /\ Tail(results) \in Seq(Socket)
        /\ Len(Tail(results)) = Len(results) - 1
        /\ \A k \in 1..Len(Tail(results)) : Tail(results)[k] = results[k + 1]
    BY <1>1, HeadTailProperties DEF IntegratorInv, TypeInv
  <2>2. /\ DOMAIN Tail(results) = 1..Len(Tail(results)) /\ Len(results) \in Nat
        /\ DOMAIN results = 1..Len(results)
    BY <2>1, LenProperties
  <2>3. \A k \in DOMAIN Tail(results) : Ready(Tail(results)[k])
    BY <2>1, <2>2 DEF IntegratorInv, AnswersInv
  <2> QED BY <1>1, <1>5, <2>1, <2>3 DEF IntegratorInv, TypeInv
<1>8. RequestsHoldAllPoints'
  BY <1>6 DEF IntegratorInv, RequestsHoldAllPoints
<1>9. CASE sock.wire = "reset"
  <2>1. /\ NextEndpoint(i, IF i \in old THEN alive ELSE [alive EXCEPT ![endpoint[i]] = FALSE])
        /\ state' = [state EXCEPT ![i] = "FD_NOT_ASSIGNED"] /\ response' = response
    BY <1>1, <1>9 DEF Failed
  <2>2. Marks(alive)
    BY <1>2, AliveMarks
  <2>3. /\ endpoint[i] \in DOMAIN addrsRef /\ addrsRef[endpoint[i]] \notin up
    BY <1>3, <1>9 DEF Carries
  <2>4. Marks(IF i \in old THEN alive ELSE [alive EXCEPT ![endpoint[i]] = FALSE])
    <3> DEFINE flags == [alive EXCEPT ![endpoint[i]] = FALSE]
    <3>1. flags \in [DOMAIN addrsRef -> BOOLEAN]
      BY <2>2 DEF Marks
    <3>2. ASSUME NEW e \in DOMAIN addrsRef, ~flags[e]
          PROVE  addrsRef[e] \notin up
      <4>1. CASE e = endpoint[i]
        BY <2>3, <4>1
      <4>2. CASE e # endpoint[i]
        <5>1. flags[e] = alive[e]
          BY <2>2, <4>2 DEF Marks
        <5> QED BY <2>2, <3>2, <5>1 DEF Marks
      <4> QED BY <4>1, <4>2
    <3> HIDE DEF flags
    <3>3. Marks(flags)
      BY <3>1, <3>2 DEF Marks
    <3> QED BY <2>2, <3>3 DEF flags
  <2>5. Placed(i)
    BY <1>2, <1>4, <2>1, <2>4, EndpointHandedOut
  <2>6. /\ endpoint \in [Request -> Nat] /\ addrsRef \in Seq(Host)
        /\ DOMAIN addrsRef = 1..Len(addrsRef) /\ Len(addrsRef) \in Nat
        /\ \A j \in Request : endpoint[j] \in 0..Len(addrsRef) /\ endpoint[j] # 0
    BY <1>1, <1>2, LenProperties DEF IntegratorInv, TypeInv, ListInv
  <2>7. /\ endpoint' \in [Request -> Nat]
        /\ \A j \in Request : endpoint'[j] \in 0..Len(addrsRef) /\ endpoint'[j] # 0
        /\ \A j \in Request \ {i} : endpoint'[j] = endpoint[j]
    <3>1. CASE endpoint' = endpoint
      BY <2>6, <3>1
    <3>2. ASSUME NEW e \in DOMAIN addrsRef, endpoint' = [endpoint EXCEPT ![i] = e]
          PROVE  /\ endpoint' \in [Request -> Nat]
                 /\ \A j \in Request : endpoint'[j] \in 0..Len(addrsRef) /\ endpoint'[j] # 0
                 /\ \A j \in Request \ {i} : endpoint'[j] = endpoint[j]
      <4>1. e \in Nat /\ e \in 1..Len(addrsRef) /\ e # 0
        BY <2>6
      <4>2. \A j \in Request : endpoint'[j] = IF j = i THEN e ELSE endpoint[j]
        BY <2>6, <3>2
      <4>3. endpoint' \in [Request -> Nat]
        BY <2>6, <3>2, <4>1
      <4> QED BY <2>6, <4>1, <4>2, <4>3
    <3> QED BY <2>5, <3>1, <3>2 DEF Placed
  <2>8. pc' \in {"send", "noLiving"}
    BY <1>1, <2>5 DEF Placed
  <2>9. /\ state' \in [Request -> {"FD_NOT_ASSIGNED", "FD_ASSIGNED", "FINISHED"}]
        /\ state'[i] = "FD_NOT_ASSIGNED"
        /\ \A j \in Request \ {i} : state'[j] = state[j]
    BY <1>4, <2>1 DEF IntegratorInv, TypeInv
  <2>10. TypeInv'
    BY <1>6, <1>7, <2>1, <2>5, <2>7, <2>8, <2>9 DEF IntegratorInv, TypeInv, Placed, Ends
  <2>11. ListInv'
    BY <1>2, <1>6, <2>5, <2>7, <2>8 DEF IntegratorInv, ListInv, Placed
  <2>12. OpenInv'
    BY <1>0, <1>1, <1>5, <2>1, <2>7, OpenAfterResult
  <2>13. AnswersInv'
    <3>1. \A j \in Request' : state'[j] = "FINISHED" /\ response'[j] = 0 => WorkerGone'
      BY <1>6, <2>1, <2>9 DEF IntegratorInv, AnswersInv, WorkerGone
    <3> QED BY <1>6, <1>7, <2>1, <2>8, <3>1 DEF IntegratorInv, AnswersInv
  <2>14. GivesUpOnTheDead'
    BY <1>1, <1>6, <2>5 DEF Placed, GivesUpOnTheDead
  <2> QED BY <1>8, <2>10, <2>11, <2>12, <2>13, <2>14 DEF IntegratorInv
<1>10. CASE sock.wire # "reset"
  <2>1. /\ state' = [state EXCEPT ![i] = "FINISHED"]
        /\ response' = [response EXCEPT ![i] = IF sock.wire = "answered" THEN sock.req ELSE 0]
        /\ UNCHANGED <<pc, endpointVars>>
    BY <1>1, <1>10 DEF Closed
  <2>2. /\ pc' = pc /\ currIdx' = currIdx /\ numUpdates' = numUpdates /\ alive' = alive
        /\ endpoint' = endpoint
    BY <2>1 DEF endpointVars
  <2>3. /\ state' \in [Request -> {"FD_NOT_ASSIGNED", "FD_ASSIGNED", "FINISHED"}]
        /\ state'[i] = "FINISHED"
        /\ \A j \in Request \ {i} : state'[j] = state[j]
    BY <1>4, <2>1 DEF IntegratorInv, TypeInv
  <2>4. /\ response' \in [Request -> Nat]
        /\ response'[i] = IF sock.wire = "answered" THEN i ELSE 0
        /\ \A j \in Request \ {i} : response'[j] = response[j]
    <3>1. response \in [Request -> Nat]
      BY DEF IntegratorInv, TypeInv
    <3> QED BY <1>3, <1>4, <2>1, <3>1
  <2>5. TypeInv'
    BY <1>6, <1>7, <2>2, <2>3, <2>4 DEF IntegratorInv, TypeInv
  <2>6. ListInv'
    BY <1>2, <1>6, <2>2 DEF IntegratorInv, ListInv
  <2>7. OpenInv'
    BY <1>0, <1>1, <1>5, <2>1, <2>2, OpenAfterResult
  <2>8. AnswersInv'
    <3>1. sock.wire # "answered" => WorkerGone
      <4>1. SUFFICES ASSUME sock.wire # "answered" PROVE WorkerGone
        OBVIOUS
      <4>2. sock.wire = "closed"
        BY <1>3, <1>10, <4>1 DEF Ready
      <4> QED BY <1>3, <4>2 DEF Carries, WorkerGone
    <3>2. ASSUME NEW j \in Request
          PROVE  /\ response'[j] \in {0, j}
                 /\ state'[j] = "FINISHED" /\ response'[j] = 0 => WorkerGone
      <4>1. CASE j = i
        BY <1>4, <2>4, <3>1, <4>1
      <4>2. CASE j # i
        BY <2>3, <2>4, <4>2 DEF IntegratorInv, AnswersInv
      <4> QED BY <4>1, <4>2
    <3>3. WorkerGone' <=> WorkerGone
      BY <1>6 DEF WorkerGone
    <3> QED BY <1>1, <1>6, <1>7, <2>2, <3>2, <3>3 DEF AnswersInv
  <2>9. GivesUpOnTheDead'
    BY <1>6, <2>2 DEF IntegratorInv, GivesUpOnTheDead
  <2> QED BY <1>8, <2>5, <2>6, <2>7, <2>8, <2>9 DEF IntegratorInv
<1> QED BY <1>9, <1>10

LEMMA InvAddUp ==
    ASSUME IntegratorInv, AddUp
    PROVE  IntegratorInv'
<1>1. /\ pc = "send"
      /\ \A i \in Request : state[i] = "FINISHED"
      /\ pc' = IF \E i \in Request : response[i] = 0 THEN "assert" ELSE "sum"
      /\ UNCHANGED <<discoveryVars, inputVars, endpointVars, requestVars, socketVars, up>>
  BY DEF AddUp
<1>2. sizes # <<>>
  BY <1>1 DEF IntegratorInv, ListInv
<1>3. /\ addrsRef' = addrsRef /\ heard' = heard /\ points' = points /\ sizes' = sizes
      /\ state' = state /\ response' = response /\ sockets' = sockets
      /\ results' = results /\ fdIdxs' = fdIdxs /\ up' = up /\ currIdx' = currIdx
      /\ numUpdates' = numUpdates /\ alive' = alive /\ endpoint' = endpoint
      /\ Open' = Open /\ Request' = Request
  BY <1>1 DEF discoveryVars, inputVars, requestVars, socketVars, endpointVars, Open, Request
<1> USE <1>3
<1>4. pc' \in {"assert", "sum"}
  BY <1>1
<1>5. TypeInv'
  BY <1>4 DEF IntegratorInv, TypeInv, Ends
<1>6. ListInv'
  BY <1>2, <1>4 DEF IntegratorInv, ListInv
<1>7. RequestsHoldAllPoints'
  BY DEF IntegratorInv, RequestsHoldAllPoints
<1>8. OpenInv'
  BY DEF IntegratorInv, OpenInv, Carries
<1>9. AnswersInv'
  <2>1. pc' = "assert" => WorkerGone
    BY <1>1 DEF IntegratorInv, AnswersInv
  <2>2. pc' = "sum" => \A i \in Request : response[i] # 0
    BY <1>1
  <2> QED BY <2>1, <2>2 DEF IntegratorInv, AnswersInv, WorkerGone
<1>10. GivesUpOnTheDead'
  BY <1>4 DEF IntegratorInv, GivesUpOnTheDead
<1> QED BY <1>5, <1>6, <1>7, <1>8, <1>9, <1>10 DEF IntegratorInv

-----------------------------------------------------------------------------
(* The workers and the network: connections go on.                         *)

\* The socket as it was, but for how far its connection is; it is over without
\* an answer only if the host is down.
GoneOn(s, t) ==
    /\ t.fd = s.fd /\ t.req = s.req /\ t.host = s.host
    /\ t.wire = "reset" => t.host \notin up'
    /\ t.wire = "closed" => t.host \in Worker \ up'

LEMMA InvWires ==
    ASSUME IntegratorInv, Elsewhere, up' \subseteq up,
           sockets' \in [DOMAIN sockets -> Socket],
           \A s \in DOMAIN sockets : GoneOn(sockets[s], sockets'[s])
    PROVE  IntegratorInv'
<1>1. /\ addrsRef' = addrsRef /\ heard' = heard /\ points' = points /\ sizes' = sizes
      /\ state' = state /\ response' = response /\ results' = results
      /\ fdIdxs' = fdIdxs /\ currIdx' = currIdx /\ numUpdates' = numUpdates
      /\ alive' = alive /\ endpoint' = endpoint /\ pc' = pc /\ Request' = Request
  BY DEF Elsewhere, discoveryVars, inputVars, requestVars, endpointVars, Request
<1>2. Len(sockets) \in Nat /\ DOMAIN sockets = 1..Len(sockets)
  BY OpenIs
<1>3. sockets' \in Seq(Socket) /\ Len(sockets') = Len(sockets)
  BY <1>2
<1>4. TypeInv'
  BY <1>1, <1>3 DEF IntegratorInv, TypeInv
<1>5. WorkerGone => WorkerGone'
  BY <1>1 DEF WorkerGone
<1>6. ListInv'
  <2>1. sockets = <<>> => sockets' = <<>>
    BY <1>3, EmptySeq
  <2> QED BY <1>1, <2>1 DEF IntegratorInv, ListInv
<1>7. RequestsHoldAllPoints'
  BY <1>1 DEF IntegratorInv, RequestsHoldAllPoints
<1>8. /\ DOMAIN Open' = DOMAIN Open
      /\ \A s \in DOMAIN Open :
           Carries(Open[s]) /\ GoneOn(Open[s], Open'[s])
  <2> DEFINE n == Len(sockets)
  <2>1. results \in Seq(Socket) /\ sockets \in Seq(Socket)
    BY DEF IntegratorInv, TypeInv
  <2>2. /\ DOMAIN Open = 1..(n + Len(results))
        /\ \A k \in 1..n : Open[k] = sockets[k]
        /\ \A k \in 1..Len(results) : Open[n + k] = results[k]
        /\ \A k \in DOMAIN Open :
             k \in 1..n \/ \E l \in 1..Len(results) : k = n + l
    BY <2>1, Joined DEF Open
  <2>3. /\ DOMAIN Open' = 1..(n + Len(results))
        /\ \A k \in 1..n : Open'[k] = sockets'[k]
        /\ \A k \in 1..Len(results) : Open'[n + k] = results[k]
    <3>1. PICK new : new = sockets'
      OBVIOUS
    <3>2. new \in Seq(Socket) /\ Len(new) = n /\ Open' = new \o results
      BY <1>1, <1>3, <3>1 DEF Open
    <3>3. /\ DOMAIN (new \o results) = 1..(Len(new) + Len(results))
          /\ \A k \in 1..Len(new) : (new \o results)[k] = new[k]
          /\ \A k \in 1..Len(results) : (new \o results)[Len(new) + k] = results[k]
      BY <2>1, <3>2, Joined
    <3> HIDE DEF n
    <3> QED BY <3>1, <3>2, <3>3
  <2>4. ASSUME NEW s \in DOMAIN Open
        PROVE  Carries(Open[s]) /\ GoneOn(Open[s], Open'[s])
    <3>1. Carries(Open[s])
      BY OpenIs
    <3>2. CASE s \in 1..n
      BY <1>2, <2>2, <2>3, <3>1, <3>2
    <3>3. CASE \E l \in 1..Len(results) : s = n + l
      <4>1. Open'[s] = Open[s]
        BY <2>2, <2>3, <3>3
      <4> QED BY <3>1, <4>1 DEF Carries, GoneOn
    <3> QED BY <2>2, <3>1, <3>2, <3>3
  <2> QED BY <2>2, <2>3, <2>4
<1>9. OpenInv'
  <2>1. \A s \in DOMAIN Open : Open'[s].req = Open[s].req
    BY <1>8 DEF GoneOn
  <2>2. ASSUME NEW s \in DOMAIN Open PROVE Carries(Open[s])'
    BY <1>1, <1>8 DEF Carries, GoneOn
  <2> QED BY <1>1, <1>8, <2>1, <2>2 DEF IntegratorInv, OpenInv
<1>10. AnswersInv'
  BY <1>1, <1>5 DEF IntegratorInv, AnswersInv
<1>11. GivesUpOnTheDead'
  BY <1>1 DEF IntegratorInv, GivesUpOnTheDead
<1> QED BY <1>4, <1>6, <1>7, <1>9, <1>10, <1>11 DEF IntegratorInv

\* One connection goes on.
LEMMA InvGoes ==
    ASSUME IntegratorInv, Elsewhere, UNCHANGED up, NEW s \in DOMAIN sockets,
           NEW wire \in Wire, Goes(s, wire), wire # "closed",
           wire = "reset" => sockets[s].host \notin up
    PROVE  IntegratorInv'
<1>1. sockets' = [sockets EXCEPT ![s].wire = wire]
  BY DEF Goes
<1>2. \A t \in DOMAIN sockets : sockets[t] \in Socket /\ GoneOn(sockets[t], sockets[t])
  <2>1. \A t \in DOMAIN sockets : sockets[t] \in Socket /\ Carries(sockets[t])
    BY OpenIs
  <2> QED BY <2>1 DEF Carries, GoneOn
<1>3. /\ DOMAIN sockets' = DOMAIN sockets
      /\ \A t \in DOMAIN sockets : t # s => sockets'[t] = sockets[t]
      /\ sockets'[s] = [sockets[s] EXCEPT !.wire = wire]
      /\ sockets' = [t \in DOMAIN sockets |-> sockets'[t]]
  BY <1>1
<1>4. sockets'[s] \in Socket /\ GoneOn(sockets[s], sockets'[s])
  BY <1>2, <1>3 DEF Socket, GoneOn
<1>5. sockets' \in [DOMAIN sockets -> Socket]
  BY <1>2, <1>3, <1>4
<1>6. \A t \in DOMAIN sockets : GoneOn(sockets[t], sockets'[t])
  BY <1>2, <1>3, <1>4
<1> QED BY <1>5, <1>6, InvWires

LEMMA InvNetwork ==
    ASSUME IntegratorInv, Network
    PROVE  IntegratorInv'
<1>1. PICK s \in DOMAIN sockets : Connect(s) \/ Accept(s) \/ Answer(s)
  BY DEF Network
<1>2. CASE Connect(s)
  <2> DEFINE wire == IF sockets[s].host \in up THEN "queued" ELSE "reset"
  <2>1. Goes(s, wire) /\ UNCHANGED up /\ Elsewhere
    BY <1>2 DEF Connect
  <2>2. wire \in Wire /\ wire # "closed" /\ (wire = "reset" => sockets[s].host \notin up)
    BY DEF Wire
  <2> HIDE DEF wire
  <2> QED BY <2>1, <2>2, InvGoes
<1>3. CASE Accept(s)
  <2>1. Goes(s, "served") /\ UNCHANGED up /\ Elsewhere
    BY <1>3 DEF Accept
  <2>2. "served" \in Wire
    BY DEF Wire
  <2> QED BY <2>1, <2>2, InvGoes
<1>4. CASE Answer(s)
  <2>1. Goes(s, "answered") /\ UNCHANGED up /\ Elsewhere
    BY <1>4 DEF Answer
  <2>2. "answered" \in Wire
    BY DEF Wire
  <2> QED BY <2>1, <2>2, InvGoes
<1> QED BY <1>1, <1>2, <1>3, <1>4

LEMMA InvDie ==
    ASSUME IntegratorInv, NEW h \in Host, Die(h)
    PROVE  IntegratorInv'
<1>1. h \in up /\ up' = up \ {h} /\ Elsewhere
  BY DEF Die
<1>2. PICK wire \in {"closed", "reset"} :
        sockets' = [s \in DOMAIN sockets |->
          IF sockets[s].host # h THEN sockets[s]
          ELSE CASE sockets[s].wire = "queued" -> [sockets[s] EXCEPT !.wire = "reset"]
                 [] sockets[s].wire = "served" -> [sockets[s] EXCEPT !.wire = wire]
                 [] OTHER -> sockets[s]]
  BY DEF Die
<1>3. h \in Worker /\ h \notin up' /\ up' \subseteq up
  BY <1>1 DEF IntegratorInv, TypeInv
<1>4. DOMAIN sockets' = DOMAIN sockets /\ sockets' = [s \in DOMAIN sockets |-> sockets'[s]]
  BY <1>2
<1>5. ASSUME NEW s \in DOMAIN sockets
      PROVE  sockets'[s] \in Socket /\ GoneOn(sockets[s], sockets'[s])
  <2>1. sockets[s] \in Socket /\ Carries(sockets[s])
    BY OpenIs
  <2>2. \/ sockets'[s] = sockets[s]
        \/ sockets[s].host = h /\ sockets'[s] = [sockets[s] EXCEPT !.wire = "reset"]
        \/ sockets[s].host = h /\ sockets'[s] = [sockets[s] EXCEPT !.wire = "closed"]
    BY <1>2
  <2>3. CASE sockets'[s] = sockets[s]
    BY <1>3, <2>1, <2>3 DEF Carries, GoneOn
  <2>4. CASE sockets[s].host = h /\ sockets'[s] = [sockets[s] EXCEPT !.wire = "reset"]
    BY <1>3, <2>1, <2>4 DEF Socket, Wire, GoneOn
  <2>5. CASE sockets[s].host = h /\ sockets'[s] = [sockets[s] EXCEPT !.wire = "closed"]
    BY <1>3, <2>1, <2>5 DEF Socket, Wire, GoneOn
  <2> QED BY <2>2, <2>3, <2>4, <2>5
<1>6. sockets' \in [DOMAIN sockets -> Socket]
  BY <1>4, <1>5
<1> QED BY <1>1, <1>3, <1>5, <1>6, InvWires

-----------------------------------------------------------------------------
(* Poll: what it takes out and what it leaves are the sockets there were.  *)

\* What was taken out, from the places S, and what was left: together, all of seq.
Apart(stay, out, seq, S) ==
    /\ stay \in Seq(Socket) /\ out \in Seq(Socket)
    /\ \A k \in DOMAIN out : \E l \in S : out[k] = seq[l]
    /\ \E c : PicksFrom(stay \o out, c, seq, DOMAIN seq)

LEMMA PickedApart ==
    ASSUME NEW seq \in Seq(Socket), NEW S \in SUBSET DOMAIN seq,
           NEW stay, stay = Picked(seq, DOMAIN seq \ S), NEW out, out = Picked(seq, S)
    PROVE  Apart(stay, out, seq, S)
<1> DEFINE D == DOMAIN seq
           n == Len(stay)
           m == Len(out)
           all == stay \o out
<1>1. stay \in Seq(Socket) /\ \E b : PicksFrom(stay, b, seq, D \ S)
  <2>1. D \ S \in SUBSET D
    OBVIOUS
  <2> QED BY <2>1, PickedPlaces
<1>2. out \in Seq(Socket) /\ \E b : PicksFrom(out, b, seq, S)
  BY PickedPlaces
<1>3. PICK a : PicksFrom(stay, a, seq, D \ S)
  BY <1>1
<1>4. PICK b : PicksFrom(out, b, seq, S)
  BY <1>2
<1>5. DOMAIN stay = 1..n /\ DOMAIN out = 1..m
  BY <1>1, <1>2, LenProperties
<1>6. /\ n \in Nat /\ m \in Nat
      /\ DOMAIN all = 1..(n + m)
      /\ \A k \in 1..n : all[k] = stay[k]
      /\ \A k \in 1..m : all[n + k] = out[k]
      /\ \A k \in DOMAIN all : k \in 1..n \/ \E l \in 1..m : k = n + l
  BY <1>1, <1>2, Joined
<1>7. /\ \A k \in 1..n : a[k] \in D \ S /\ stay[k] = seq[a[k]]
      /\ \A k, l \in 1..n : a[k] = a[l] => k = l
      /\ \A p \in D \ S : \E k \in 1..n : a[k] = p
  BY <1>3, <1>5 DEF PicksFrom
<1>8. /\ \A k \in 1..m : b[k] \in S /\ out[k] = seq[b[k]]
      /\ \A k, l \in 1..m : b[k] = b[l] => k = l
      /\ \A p \in S : \E k \in 1..m : b[k] = p
  BY <1>4, <1>5 DEF PicksFrom
<1> DEFINE c == [k \in 1..(n + m) |-> IF k <= n THEN a[k] ELSE b[k - n]]
<1> HIDE DEF all, n, m, D
<1>9. /\ \A k \in 1..n : k \in 1..(n + m) /\ c[k] = a[k]
      /\ \A k \in 1..m : n + k \in 1..(n + m) /\ c[n + k] = b[k]
  BY <1>6
<1>10. DOMAIN c = DOMAIN all /\ c = [k \in DOMAIN all |-> c[k]]
  BY <1>6
<1> HIDE DEF c
<1>11. ASSUME NEW k \in DOMAIN all
       PROVE  /\ c[k] \in D /\ all[k] = seq[c[k]]
              /\ k \in 1..n => c[k] \notin S
              /\ k \notin 1..n => c[k] \in S
  <2>1. CASE k \in 1..n
    BY <1>6, <1>7, <1>9, <2>1
  <2>2. CASE k \notin 1..n
    <3>1. PICK l \in 1..m : k = n + l
      BY <1>6, <2>2
    <3>2. all[k] = out[l] /\ c[k] = b[l]
      BY <1>6, <1>9, <3>1
    <3>3. b[l] \in S /\ out[l] = seq[b[l]]
      BY <1>8
    <3> QED BY <2>2, <3>2, <3>3 DEF D
  <2> QED BY <2>1, <2>2
<1>12. ASSUME NEW k \in DOMAIN all, NEW l \in DOMAIN all, c[k] = c[l]
       PROVE  k = l
  <2>1. CASE k \in 1..n /\ l \in 1..n
    BY <1>7, <1>9, <1>12, <2>1
  <2>2. CASE k \in 1..n /\ l \notin 1..n
    BY <1>11, <1>12, <2>2
  <2>3. CASE k \notin 1..n /\ l \in 1..n
    BY <1>11, <1>12, <2>3
  <2>4. CASE k \notin 1..n /\ l \notin 1..n
    <3>1. PICK x \in 1..m, y \in 1..m : k = n + x /\ l = n + y
      BY <1>6, <2>4
    <3> QED BY <1>8, <1>9, <1>12, <3>1
  <2> QED BY <2>1, <2>2, <2>3, <2>4
<1>13. ASSUME NEW p \in D
       PROVE  \E k \in DOMAIN all : c[k] = p
  <2>1. CASE p \in S
    <3>1. PICK k \in 1..m : b[k] = p
      BY <1>8, <2>1
    <3> QED BY <1>6, <1>9, <3>1
  <2>2. CASE p \notin S
    <3>1. PICK k \in 1..n : a[k] = p
      BY <1>7, <2>2
    <3> QED BY <1>6, <1>9, <3>1
  <2> QED BY <2>1, <2>2
<1>14. c \in [DOMAIN all -> D]
  BY <1>10, <1>11
<1>15. PicksFrom(all, c, seq, D)
  BY <1>11, <1>12, <1>13, <1>14 DEF PicksFrom
<1> QED BY <1>1, <1>2, <1>5, <1>8, <1>15 DEF all, D, Apart

LEMMA InvPoll ==
    ASSUME IntegratorInv, Poll
    PROVE  IntegratorInv'
<1>1. /\ pc = "send" /\ results = <<>>
      /\ UNCHANGED <<discoveryVars, inputVars, pc, endpointVars, requestVars, fdIdxs, up>>
  BY DEF Poll
<1>2. sizes # <<>>
  BY <1>1 DEF IntegratorInv, ListInv
<1>3. /\ addrsRef' = addrsRef /\ heard' = heard /\ points' = points /\ sizes' = sizes
      /\ state' = state /\ response' = response /\ up' = up
      /\ fdIdxs' = fdIdxs /\ currIdx' = currIdx /\ numUpdates' = numUpdates
      /\ alive' = alive /\ endpoint' = endpoint /\ pc' = pc /\ Request' = Request
  BY <1>1 DEF discoveryVars, inputVars, requestVars, endpointVars, Request
<1>4. PICK sends \in SUBSET {s \in DOMAIN sockets : sockets[s].wire \in {"queued", "served"}} :
        LET sent == [s \in DOMAIN sockets |->
              IF s \in sends THEN [sockets[s] EXCEPT !.sent = TRUE] ELSE sockets[s]]
            idxsToDelete == {s \in DOMAIN sockets : Ready(sockets[s])}
        IN  /\ results' = Picked(sent, idxsToDelete)
            /\ sockets' = Picked(sent, DOMAIN sockets \ idxsToDelete)
  BY DEF Poll
<1> DEFINE n == Len(sockets)
           sent == [s \in DOMAIN sockets |->
              IF s \in sends THEN [sockets[s] EXCEPT !.sent = TRUE] ELSE sockets[s]]
           idxs == {s \in DOMAIN sockets : Ready(sockets[s])}
<1>5. results' = Picked(sent, idxs) /\ sockets' = Picked(sent, DOMAIN sockets \ idxs)
  BY <1>4
<1>6. /\ sockets \in Seq(Socket) /\ n \in Nat /\ DOMAIN sockets = 1..n
      /\ \A s \in 1..n : sockets[s] \in Socket
  BY LenProperties, ElementOfSeq DEF IntegratorInv, TypeInv
<1>7. ASSUME NEW s \in DOMAIN sockets
      PROVE  /\ sent[s] \in Socket /\ sent[s].fd = sockets[s].fd
             /\ sent[s].req = sockets[s].req /\ sent[s].host = sockets[s].host
             /\ sent[s].wire = sockets[s].wire
  BY <1>6 DEF Socket
<1>8. sent \in Seq(Socket) /\ DOMAIN sent = DOMAIN sockets
  <2>1. sent \in [1..n -> Socket]
    BY <1>6, <1>7
  <2> HIDE DEF sent, n
  <2> QED BY <1>6, <2>1
<1>9. idxs \in SUBSET DOMAIN sent /\ \A s \in idxs : Ready(sockets[s])
  BY <1>8
<1> HIDE DEF sent, idxs, n
<1>10. PICK stay, out : stay = sockets' /\ out = results'
  OBVIOUS
<1>11. Apart(stay, out, sent, idxs)
  <2>1. stay = Picked(sent, DOMAIN sent \ idxs) /\ out = Picked(sent, idxs)
    BY <1>5, <1>8, <1>10
  <2> QED BY <1>8, <1>9, <2>1, PickedApart
<1>12. PICK c : PicksFrom(stay \o out, c, sent, DOMAIN sent)
  BY <1>11 DEF Apart
<1>13. Open' = stay \o out
  BY <1>10 DEF Open
<1>14. DOMAIN Open = DOMAIN sockets /\ \A s \in DOMAIN sockets : Open[s] = sockets[s]
  BY <1>1, <1>6, ConcatEmptySeq DEF Open
<1>15. /\ \A s \in DOMAIN Open' : c[s] \in DOMAIN Open /\ Open'[s] = sent[c[s]]
       /\ \A s, t \in DOMAIN Open' : c[s] = c[t] => s = t
       /\ \A k \in DOMAIN Open : \E s \in DOMAIN Open' : c[s] = k
  BY <1>8, <1>12, <1>13, <1>14 DEF PicksFrom
<1>16. ASSUME NEW s \in DOMAIN Open'
       PROVE  /\ Carries(Open[c[s]]) /\ c[s] \in DOMAIN Open
              /\ Open'[s].fd = Open[c[s]].fd /\ Open'[s].req = Open[c[s]].req
              /\ Open'[s].host = Open[c[s]].host /\ Open'[s].wire = Open[c[s]].wire
  BY <1>7, <1>14, <1>15, OpenIs
<1>17. TypeInv'
  BY <1>3, <1>10, <1>11 DEF IntegratorInv, TypeInv, Apart
<1>18. ListInv'
  BY <1>2, <1>3 DEF IntegratorInv, ListInv
<1>19. RequestsHoldAllPoints'
  BY <1>3 DEF IntegratorInv, RequestsHoldAllPoints
<1>20. OpenInv'
  <2>1. \A s, t \in DOMAIN Open : Open[s].req = Open[t].req => s = t
    BY DEF IntegratorInv, OpenInv
  <2>2. ASSUME NEW s \in DOMAIN Open' PROVE Carries(Open[s])'
    BY <1>3, <1>16 DEF Carries
  <2>3. \A s, t \in DOMAIN Open' : Open'[s].req = Open'[t].req => s = t
    BY <1>15, <1>16, <2>1
  <2>4. ASSUME NEW j \in Request', state'[j] = "FD_ASSIGNED"
        PROVE  \E s \in DOMAIN Open' : Open'[s].req = j
    <3>1. PICK k \in DOMAIN Open : Open[k].req = j
      BY <1>3, <2>4 DEF IntegratorInv, OpenInv
    <3>2. PICK s \in DOMAIN Open' : c[s] = k
      BY <1>15
    <3> QED BY <1>16, <3>1, <3>2
  <2> QED BY <2>2, <2>3, <2>4 DEF OpenInv
<1>21. AnswersInv'
  <2>1. ASSUME NEW k \in DOMAIN results'
        PROVE  Ready(results'[k])
    <3>1. PICK l \in idxs : results'[k] = sent[l]
      BY <1>10, <1>11 DEF Apart
    <3> QED BY <1>7, <1>8, <1>9, <3>1 DEF Ready
  <2> QED BY <1>3, <2>1 DEF IntegratorInv, AnswersInv, WorkerGone
<1>22. GivesUpOnTheDead'
  BY <1>3 DEF IntegratorInv, GivesUpOnTheDead
<1> QED BY <1>17, <1>18, <1>19, <1>20, <1>21, <1>22 DEF IntegratorInv

LEMMA InvStutters ==
    ASSUME IntegratorInv, UNCHANGED vars
    PROVE  IntegratorInv'
<1> USE DEF vars, discoveryVars, inputVars, endpointVars, requestVars, socketVars
<1>1. TypeInv'
  BY DEF IntegratorInv, TypeInv, Request
<1>2. ListInv'
  BY DEF IntegratorInv, ListInv, Request
<1>3. RequestsHoldAllPoints'
  BY DEF IntegratorInv, RequestsHoldAllPoints, Request
<1>4. OpenInv'
  BY DEF IntegratorInv, OpenInv, Carries, Open, Request
<1>5. AnswersInv'
  BY DEF IntegratorInv, AnswersInv, WorkerGone, Request
<1>6. GivesUpOnTheDead'
  BY DEF IntegratorInv, GivesUpOnTheDead
<1> QED BY <1>1, <1>2, <1>3, <1>4, <1>5, <1>6 DEF IntegratorInv

LEMMA InvNext ==
    ASSUME IntegratorInv, [Next]_vars
    PROVE  IntegratorInv'
<1>1. ASSUME NEW h \in Host, Hear(h) PROVE IntegratorInv'
  BY <1>1, InvHear
<1>2. ASSUME NEW h \in Host, Die(h) PROVE IntegratorInv'
  BY <1>2, InvDie
<1>3. CASE UpdateList
  BY <1>3, InvUpdateList
<1>4. CASE Sender
  BY <1>4, InvCalc, InvAssign, InvRegister, InvPoll, InvHandleResult, InvAddUp DEF Sender
<1>5. CASE Network
  BY <1>5, InvNetwork
<1>6. CASE UNCHANGED vars
  BY <1>6, InvStutters
<1> QED BY <1>1, <1>2, <1>3, <1>4, <1>5, <1>6 DEF Next, Ended

\* IntegratorInv holds in every state: it is what the theorems below rest on.
THEOREM IntegratorInvariant == Spec => []IntegratorInv
<1>1. Init => IntegratorInv
  BY InvInit
<1>2. IntegratorInv /\ [Next]_vars => IntegratorInv'
  BY InvNext
<1> QED BY <1>1, <1>2, PTL DEF Spec

-----------------------------------------------------------------------------
(* The theorems.                                                           *)

(* What the variables of the client and of the network may hold.           *)
THEOREM IntegratorTypes == Spec => []TypeOK
<1>1. IntegratorInv => TypeOK
  <2> SUFFICES ASSUME IntegratorInv PROVE TypeOK
    OBVIOUS
  <2>1. DOMAIN state = Request /\ DOMAIN endpoint = Request
    BY DEF IntegratorInv, TypeInv
  <2>2. \A i \in Request : endpoint[i] \in 0..Len(addrsRef)
    BY NothingYet DEF IntegratorInv, ListInv
  <2>3. \A s \in DOMAIN sockets : sockets[s].wire \in Wire
    BY OpenIs DEF Socket
  <2> QED BY <2>1, <2>2, <2>3 DEF IntegratorInv, TypeInv, TypeOK
<1> QED BY <1>1, IntegratorInvariant, PTL

(* Whatever the numbers of points and of workers, no point is lost, no     *)
(* request has a single point, and no worker is handed out twice at first. *)
THEOREM EveryPointIsRequested == Spec => []RequestsHoldAllPoints
<1>1. IntegratorInv => RequestsHoldAllPoints
  BY DEF IntegratorInv
<1> QED BY <1>1, IntegratorInvariant, PTL

(* Descriptors come back for other sockets, but never lead to the request  *)
(* of another; a request that waits has one socket, any other has none.    *)
THEOREM DescriptorsLeadBack == Spec => []FdsFindTheirRequests
<1>1. IntegratorInv => FdsFindTheirRequests
  <2> SUFFICES ASSUME IntegratorInv PROVE FdsFindTheirRequests
    OBVIOUS
  <2>1. \A s \in DOMAIN Open : Carries(Open[s])
    BY OpenIs
  <2>2. \A s \in DOMAIN Open :
          Open[s].fd \in DOMAIN fdIdxs /\ fdIdxs[Open[s].fd] = Open[s].req
    BY <2>1 DEF Carries
  <2>3. ASSUME NEW i \in Request
        PROVE  Cardinality({s \in DOMAIN Open : Open[s].req = i}) =
                 IF state[i] = "FD_ASSIGNED" THEN 1 ELSE 0
    <3>1. CASE state[i] = "FD_ASSIGNED"
      <4>1. PICK s \in DOMAIN Open : Open[s].req = i
        BY <3>1 DEF IntegratorInv, OpenInv
      <4>2. {t \in DOMAIN Open : Open[t].req = i} = {s}
        BY <4>1 DEF IntegratorInv, OpenInv
      <4> QED BY <3>1, <4>2, FS_Singleton
    <3>2. CASE state[i] # "FD_ASSIGNED"
      <4>1. {s \in DOMAIN Open : Open[s].req = i} = {}
        BY <2>1, <3>2 DEF Carries
      <4> QED BY <3>2, <4>1, FS_EmptySet
    <3> QED BY <3>1, <3>2
  <2> QED BY <2>2, <2>3 DEF FdsFindTheirRequests, Open
<1> QED BY <1>1, IntegratorInvariant, PTL

(* A sum that Calc returns holds the answer to every request, once.        *)
THEOREM EveryAnswerIsAdded == Spec => []SumIsComplete
<1>1. IntegratorInv => SumIsComplete
  <2> SUFFICES ASSUME IntegratorInv, pc = "sum"
               PROVE  {response[i] : i \in Request} = Request
    BY DEF SumIsComplete
  <2>1. \A i \in Request : response[i] = i
    BY DEF IntegratorInv, AnswersInv
  <2> QED BY <2>1
<1> QED BY <1>1, IntegratorInvariant, PTL

(* However many hosts there are and whatever maxUnupdated_ is, no living   *)
(* worker of the list is marked, and none is there when Calc gives up.     *)
THEOREM OnlyTheDeadAreGivenUp == Spec => []GivesUpOnTheDead
<1>1. IntegratorInv => GivesUpOnTheDead
  BY DEF IntegratorInv
<1> QED BY <1>1, IntegratorInvariant, PTL

(* Whatever main read, an assert fails only for want of points or of a     *)
(* list, or after a worker of the list ended.                              *)
THEOREM AssertsForAReason == Spec => []AssertsOnlyThen
<1>1. IntegratorInv => AssertsOnlyThen
  <2> SUFFICES ASSUME IntegratorInv, pc = "assert"
               PROVE  /\ sizes = <<>> => points < 2 \/ addrsRef \in {Nil, <<>>}
                      /\ sizes # <<>> => \E e \in DOMAIN addrsRef : addrsRef[e] \in Worker \ up
    BY DEF AssertsOnlyThen
  <2>1. sizes = <<>> => points < 2 \/ addrsRef \in {Nil, <<>>}
    BY DEF IntegratorInv, ListInv
  <2>2. sizes # <<>> => \E e \in DOMAIN addrsRef : addrsRef[e] \in Worker \ up
    BY DEF IntegratorInv, AnswersInv, WorkerGone
  <2> QED BY <2>1, <2>2
<1> QED BY <1>1, IntegratorInvariant, PTL

=============================================================================

----------------------------- MODULE KeyValue -----------------------------
(***************************************************************************)
(* What the key-value store promises its clients.  Writes take effect one  *)
(* after another in one order, each once, at some moment between its       *)
(* submission and its answer, and the answer tells its status at its place *)
(* in the order.  A read shows the map after some prefix of that order: it *)
(* may be old, and a later read may be older.  The promise may be void from *)
(* some step on: that step and those after it do anything.                 *)
(***************************************************************************)
EXTENDS Db

CONSTANTS
    Write, Read,   \* requests
    Op,            \* [Write \cup Read -> what is asked for]
    NoAnswer

VARIABLES
    submitted,     \* writes that the store has accepted
    order,         \* the writes that took effect
    answer,        \* what the clients were told
    void           \* nothing is promised any more

kvVars == <<submitted, order, answer, void>>

\* The map after the first i writes of the order.
MapAfter(i) ==
    LET map[j \in 0..Len(order)] ==
          IF j = 0 THEN EmptyDb ELSE CommitEntry(map[j - 1], Op[order[j]])
    IN  map[i]

KvInit ==
    /\ submitted = {}
    /\ order = <<>>
    /\ answer = [r \in Write \cup Read |-> NoAnswer]
    /\ void = FALSE

Accept(w) ==
    /\ w \notin submitted
    /\ submitted' = submitted \cup {w}
    /\ UNCHANGED <<order, answer, void>>

\* Several writes may take effect in one step: a heartbeat commits a batch.
TakeEffect ==
    /\ Len(order') > Len(order)
    /\ SubSeq(order', 1, Len(order)) = order
    /\ \A i \in (Len(order) + 1)..Len(order') :
         /\ order'[i] \in submitted
         /\ \A j \in 1..(i - 1) : order'[j] # order'[i]
    /\ UNCHANGED <<submitted, answer, void>>

AnswerWrite(w) ==
    /\ answer[w] = NoAnswer
    /\ \E i \in DOMAIN order :
         /\ order[i] = w
         /\ answer' = [answer EXCEPT ![w] = Succeeds(MapAfter(i - 1), Op[w])]
    /\ UNCHANGED <<submitted, order, void>>

AnswerRead(r) ==
    /\ answer[r] = NoAnswer
    /\ \E i \in 0..Len(order) :
         answer' = [answer EXCEPT ![r] = MapAfter(i)[Op[r].key]]
    /\ UNCHANGED <<submitted, order, void>>

Anything == void'

KvNext ==
    \/ Anything
    \/ TakeEffect
    \/ \E w \in Write : Accept(w) \/ AnswerWrite(w)
    \/ \E r \in Read : AnswerRead(r)

KvSpec == KvInit /\ [][KvNext]_kvVars

=============================================================================

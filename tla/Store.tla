------------------------------- MODULE Store -------------------------------
(***************************************************************************)
(* The key-value store as its clients see it: the replication core (Raft)  *)
(* with the client program (client/main.go) in front of it, the HTTP       *)
(* handlers (external.go) around it, and the database of every node (db.go)*)
(* behind its commitQueue.                                                 *)
(*                                                                         *)
(* A request is one submission by a client.  A write that its client sends *)
(* again after an error, although a node took it up, is a new submission   *)
(* of the same operation: another member of Value with the same Op.        *)
(*                                                                         *)
(* commitQueue holds what was sent and not taken yet, the entries of       *)
(* applied[n] after the first taken[n].  It is written under TEnv.m and    *)
(* blocks when it is full; as the database never takes that mutex, it      *)
(* empties nevertheless, and the sends of one critical section can be      *)
(* taken as one step.                                                      *)
(***************************************************************************)
EXTENDS RaftProperties, Db

CONSTANTS
    Read,        \* requests to read; those to write are Value
    Op,          \* [Value \cup Read -> [op, key, value, prev]]
    Before,      \* the request that the same client sends before, or Nil
    NoAnswer

ASSUME ValueAssumption == Nil \notin Value
ASSUME RequestAssumption ==
    Value \cap Read = {} /\ NoAnswer \notin {200, 201, 404, 409}

VARIABLES
    at, stage,   \* the node a request was sent to, and how far it is there
    answer,      \* the answer to each request
    taken, db,   \* entries taken from commitQueue; Db.data
    order        \* history: the writes handed on, by whichever node was first

requestVars == <<at, stage, answer>>
dbVars == <<taken, db>>
storeVars == <<vars, requestVars, dbVars, order>>

AnyRequest == Value \cup Read

\* On its way to a node (at is Nil when the client picks one); in its handler,
\* about to be redirected, about to be read, in ApplyRequestSync; answered; or
\* its handler gone with the process.
Stage == {"sent", "redirect", "read", "handled", "answered", "lost"}

StoreInit ==
    /\ Init
    /\ at = [r \in AnyRequest |-> Nil]
    /\ stage = [r \in AnyRequest |-> "sent"]
    /\ answer = [r \in AnyRequest |-> NoAnswer]
    /\ taken = [n \in Node |-> 0]
    /\ db = [n \in Node |-> EmptyDb]
    /\ order = <<>>

Move(r, n, s) ==
    /\ at' = [at EXCEPT ![r] = n]
    /\ stage' = [stage EXCEPT ![r] = s]

-----------------------------------------------------------------------------
(* Clients and handlers.                                                   *)

\* A client program takes one command after another: the next is read when
\* the last is answered, or has failed.
Turn(r) == Before[r] # Nil => stage[Before[r]] \in {"answered", "lost"}

\* A request goes where it was redirected, or else to the node the client
\* chooses: the one it was given first, a random one after an error.
SentTo(r, n) ==
    /\ Turn(r)
    /\ stage[r] = "sent"
    /\ at[r] \in {Nil, n}

\* The handler of a write reads leaderState in a critical section (isLeader),
\* finds a leader and goes on to ApplyRequestSync.
PassCheck(n, w) ==
    /\ SentTo(w, n)
    /\ CheckLeader(n, w)
    /\ Move(w, n, "handled")
    /\ UNCHANGED <<answer, dbVars, order>>

IsFollower(n) == lock[n] = "free" /\ ~leading[n]

FailCheck(n, w) ==
    /\ SentTo(w, n)
    /\ IsFollower(n)
    /\ Move(w, n, "redirect")
    /\ UNCHANGED <<vars, answer, dbVars, order>>

\* getLeaderOrRandom: leaderId may be the node's own.
RedirectTo(n) == IF leaderId[n] = Nil THEN Node \ {n} ELSE {leaderId[n]}

\* leaderId is read in a critical section of its own; the client follows.
Redirect(n, w) ==
    /\ stage[w] = "redirect" /\ at[w] = n
    /\ lock[n] = "free"
    /\ \E m \in RedirectTo(n) : Move(w, m, "sent")
    /\ UNCHANGED <<vars, answer, dbVars, order>>

\* Mutant of Submit: the status of the map as it is now is the answer.
AnswerAtOnce(n, w) ==
    /\ ApplyRequest(n, w)
    /\ answer' = [answer EXCEPT ![w] = IF Succeeds(db[n], Op[w]) THEN 200 ELSE 404]
    /\ UNCHANGED <<at, stage, dbVars, order>>

\* ApplyRequestSync appends the entry; the handler waits on its statusChan.
Submit(n, w) ==
    /\ ApplyRequest(n, w)
    /\ UNCHANGED <<requestVars, dbVars, order>>

\* A leader sends readers away.  chooseNextFollower counts round robin, and
\* other readers count too: any follower may be next.
RedirectRead(n, r) ==
    /\ SentTo(r, n)
    /\ lock[n] = "free" /\ leading[n]
    /\ \E m \in Node \ {n} : Move(r, m, "sent")
    /\ UNCHANGED <<vars, answer, dbVars, order>>

PassRead(n, r) ==
    /\ SentTo(r, n)
    /\ IsFollower(n)
    /\ Move(r, n, "read")
    /\ UNCHANGED <<vars, answer, dbVars, order>>

\* Db.Get takes the mutex of the map only: n may lead by now, and be behind.
Get(n, r) ==
    /\ stage[r] = "read" /\ at[r] = n
    /\ answer' = [answer EXCEPT ![r] = db[n][Op[r].key]]
    /\ Move(r, n, "answered")
    /\ UNCHANGED <<vars, dbVars, order>>

-----------------------------------------------------------------------------
(* The database: periodicUpdate.                                           *)

\* The answer of each handler; a Cas that meets another value is "not found".
HttpStatus(o, ok) ==
    CASE ok -> IF o.op = "create" THEN 201 ELSE 200
      [] ~ok -> IF o.op = "create" THEN 409 ELSE 404

\* The next entry is applied and its status sent to statusChan, if it has one:
\* the handler that waits there answers its client.  An entry from past the end
\* of Entries creates the empty key, which no request names.
Consume(n) ==
    /\ taken[n] < Len(applied[n])
    /\ LET entry == applied[n][taken[n] + 1]
           w == entry.val
       IN  /\ db' = [db EXCEPT ![n] = IF w = Nil THEN @ ELSE CommitEntry(@, Op[w])]
           /\ IF entry.chan
                THEN /\ answer' = [answer EXCEPT ![w] =
                          HttpStatus(Op[w], Succeeds(db[n], Op[w]))]
                     /\ Move(w, n, "answered")
                ELSE UNCHANGED requestVars
    /\ taken' = [taken EXCEPT ![n] = @ + 1]
    /\ UNCHANGED <<vars, order>>

-----------------------------------------------------------------------------
(* The replication core underneath.                                        *)

Writes(entries) == [i \in DOMAIN entries |-> entries[i].val]

\* A step of the core; the first node that hands a write on settles its place.
Core(A) ==
    /\ A
    /\ order' = IF \E n \in Node : Len(applied'[n]) > Len(order)
                  THEN Writes(applied'[CHOOSE n \in Node : Len(applied'[n]) > Len(order)])
                  ELSE order
    /\ UNCHANGED <<requestVars, dbVars>>

\* The clients of n get an error and send again, to a random node: the same
\* submission if no node took it up.
Resend(n) ==
    LET here == {r \in AnyRequest : at[r] = n /\ stage[r] \notin {"answered", "lost"}}
        again == {r \in here : stage[r] # "handled"}
    IN  /\ stage' = [r \in AnyRequest |->
              IF r \in again THEN "sent" ELSE IF r \in here THEN "lost" ELSE stage[r]]
        /\ at' = [r \in AnyRequest |-> IF r \in again THEN Nil ELSE at[r]]

\* Mutant of NewDb: the map is found again, although all entries come anew.
DbKept(n) ==
    /\ taken' = [taken EXCEPT ![n] = 0]
    /\ UNCHANGED db

\* Mutant of NewDb: the entries taken before the end count as taken.
TakenKept(n) ==
    /\ db' = [db EXCEPT ![n] = EmptyDb]
    /\ UNCHANGED taken

\* NewDb: a new process starts with an empty map, to be filled from the log.
NewDb(n) ==
    /\ taken' = [taken EXCEPT ![n] = 0]
    /\ db' = [db EXCEPT ![n] = EmptyDb]

Restart(n) ==
    /\ Failure(n)
    /\ Resend(n)
    /\ NewDb(n)
    /\ UNCHANGED <<answer, order>>

StoreNext ==
    \E n \in Node :
        \/ Core(Election(n)) \/ Core(Replication(n))
        \/ Consume(n) \/ Restart(n)
        \/ \E w \in Value :
             PassCheck(n, w) \/ FailCheck(n, w) \/ Redirect(n, w) \/ Submit(n, w)
        \/ \E r \in Read : RedirectRead(n, r) \/ PassRead(n, r) \/ Get(n, r)

StoreSpec == StoreInit /\ [][StoreNext]_storeVars

-----------------------------------------------------------------------------
(* What the store promises.                                                *)

StoreTypeOK ==
    /\ at \in [AnyRequest -> Node \cup {Nil}]
    /\ stage \in [AnyRequest -> Stage]
    /\ taken \in [Node -> Nat]
    /\ order \in Seq(Value \cup {Nil})
    /\ \A n \in Node : taken[n] <= Len(applied[n])

Told(r) ==
    IF r \in Value /\ answer[r] # NoAnswer THEN answer[r] \in {200, 201} ELSE answer[r]

(* How far the replication core can be trusted.  All entries have term 0   *)
(* (env.go:87), so that a vote compares lengths only (raft.go:75-80): the  *)
(* third leader may lack what the second committed; and an AppendEntries   *)
(* that is acted on late cuts committed entries.  How many elections fail, *)
(* and who wins when, does not matter.                                     *)
AtMostTwoLeaders ==
    \A w1, w2, w3 \in wins : w1 = w2 \/ w1 = w3 \/ w2 = w3
Calm == Undisturbed /\ AtMostTwoLeaders

Abstract == INSTANCE KeyValue WITH
    Write <- Value,
    void <- ~Calm,
    submitted <- {w \in Value : stage[w] \in {"handled", "answered", "lost"}},
    answer <- [r \in AnyRequest |-> Told(r)]

(* As long as it is Calm, the store is one map to its clients (KeyValue),   *)
(* across elections, a deposed leader and restarts: the answer to a write  *)
(* (external.go:147-266) is its status in one order of writes that takes   *)
(* effect between request and answer, and a read (external.go:98) shows a  *)
(* prefix of it.                                                           *)
Implements == Abstract!KvSpec

(* As long as it is Calm: the map of every node (db.go:18, 51) is what the *)
(* first writes of one order leave, as many as the node has taken from its *)
(* queue, also while it fills an empty map again after a restart           *)
(* (db.go:32-37).                                                          *)
ReplicasAgree ==
    Calm =>
        \A n \in Node :
            /\ Writes(applied[n]) = SubSeq(order, 1, Len(applied[n]))
            /\ db[n] = Abstract!MapAfter(taken[n])

(* As long as it is Calm: a handler, which waits on its statusChan without *)
(* a timeout (env.go:90), has its own entry, with the channel that JSON    *)
(* loses, still to come at its node when its write takes effect, although  *)
(* the second leader cuts what the first one did not commit.               *)
StillAnswerable ==
    Calm =>
        \A w \in Value : stage[w] = "handled" /\ (\E i \in DOMAIN order : order[i] = w) =>
            \E i \in (taken[at[w]] + 1)..Len(log[at[w]]) : log[at[w]][i] = NewEntry(w)

(* As long as it is Calm: what a client was told of (external.go:147-173)  *)
(* is in the logs of a majority; the election of another leader, its cuts  *)
(* (log.go:175-178) and restarts do not take it away again.                *)
AnsweredIsReplicated ==
    Calm =>
        \A w \in Value : stage[w] = "answered" =>
            Majority({n \in Node : \E i \in DOMAIN log[n] : log[n][i].val = w})

=============================================================================

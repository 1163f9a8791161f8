----------------------------- MODULE Integrator -----------------------------
(***************************************************************************)
(* The distributed integrator under src/1: a client that finds workers by  *)
(* a broadcast (discovery.cpp), cuts its points into requests, one per     *)
(* worker, and sends each over a connection of its own, again to another   *)
(* worker when one fails (request_sender.cpp, socket.cpp); and the workers,*)
(* who serve one connection at a time (worker_server.cpp).                 *)
(*                                                                         *)
(* The client has two threads, the updater and the one in Calc.  A         *)
(* connection is what the socket record of the client says of it; poll     *)
(* shows the client which of its sockets can go on.  A worker ends as a    *)
(* process does, with its connections closed or reset by its machine; a    *)
(* machine that falls silent is left out: poll has no timeout, the client  *)
(* would wait for ever.                                                    *)
(***************************************************************************)
EXTENDS Integers, Sequences, FiniteSets, FiniteSetsExt, SequencesExt

CONSTANTS
    Host,          \* the hosts that may answer the broadcast
    Worker,        \* those with a worker; the client hears its own broadcast too
    Points,        \* numbers of points that main may read
    MaxUnupdated,  \* maxUnupdated_
    Nil            \* the null reference of TRcu

ASSUME IntegratorAssumption ==
    /\ IsFiniteSet(Host) /\ Worker \subseteq Host /\ Nil \notin Seq(Host)
    /\ Points \subseteq Nat
    /\ MaxUnupdated \in Nat

VARIABLES
    heard, addrsRef,        \* who answered so far; the list, once it is set
    points, sizes,          \* points read; how many of them each request takes
    pc,                     \* where Calc is, or how it ended
    currIdx, numUpdates,    \* curr_idx_, numUpdates_
    alive,                  \* Alive of the endpoints in endpoints_
    endpoint, state,        \* TRequest: Endpoint (its place in the list) and State
    old,                    \* requests with an endpoint from before UpdateEndpoints
    response,               \* TRequest.Response: whose sum it is, 0 when empty
    sockets, results,       \* TSocketSet; what Poll returned and is not handled yet
    fdIdxs,
    up                      \* workers that run

discoveryVars == <<heard, addrsRef>>
endpointVars == <<currIdx, numUpdates, alive, endpoint, old>>
requestVars == <<state, response>>
socketVars == <<sockets, results, fdIdxs>>
inputVars == <<points, sizes>>
vars == <<discoveryVars, inputVars, pc, endpointVars, requestVars, socketVars, up>>

\* std::terminate, or the failure of an assert, ends both threads.
Ends == {"sum", "assert", "refused", "noLiving"}
Running == pc \notin Ends
Request == DOMAIN sizes

\* Where a connection is: on its way; in the backlog; accepted by HandleClient;
\* answered and closed; closed without an answer; reset or refused.
Wire == {"connecting", "queued", "served", "answered", "closed", "reset"}

-----------------------------------------------------------------------------
(* The updater: BroadcastAndListen and TRcu.Set.                           *)

Init ==
    /\ heard = {} /\ addrsRef = Nil
    /\ points \in Points /\ sizes = <<>>
    /\ pc = "start"
    /\ currIdx = 0 /\ numUpdates = 0
    /\ alive = <<>> /\ endpoint = <<>> /\ old = {}
    /\ state = <<>> /\ response = <<>>
    /\ sockets = <<>> /\ results = <<>> /\ fdIdxs = <<>>
    /\ up = Worker

Hear(h) ==
    /\ Running
    /\ addrsRef = Nil
    /\ h \in up \cup (Host \ Worker)
    /\ heard' = heard \cup {h}
    /\ UNCHANGED <<addrsRef, inputVars, pc, endpointVars, requestVars, socketVars, up>>

\* The time is up.  The set of addresses is listed in no particular order.
UpdateList ==
    /\ Running
    /\ addrsRef = Nil
    /\ addrsRef' \in SetToSeqs(heard)
    /\ UNCHANGED <<heard, inputVars, pc, endpointVars, requestVars, socketVars, up>>

-----------------------------------------------------------------------------
(* Calc: PrepareRequests, then SendRequests.                               *)

\* Mutant of PrepareRequests: a single point may be left for the last request.
LastMayBeOne(n, nodes) ==
    LET reqSize == Max({2, (n + nodes - 1) \div nodes})
        cut[k \in 0..n] ==
          IF k = 0 THEN <<>>
          ELSE IF reqSize < k THEN <<reqSize>> \o cut[k - reqSize] ELSE <<k>>
    IN  cut[n]

\* The sizes of the requests for n points; the last takes one more if need be.
PrepareRequests(n, nodes) ==
    LET reqSize == Max({2, (n + nodes - 1) \div nodes})
        cut[k \in 0..n] ==
          IF k = 0 THEN <<>>
          ELSE IF reqSize + 1 < k THEN <<reqSize>> \o cut[k - reqSize] ELSE <<k>>
    IN  cut[n]

\* UpdateEndpoints: new endpoints of the list, all alive, taken from its head.
AllAlive == [e \in DOMAIN addrsRef |-> TRUE]

\* main calls Calc at once, with what it read: the list may not be there, or be
\* empty, or the points be too few for a single rectangle.
Calc ==
    /\ pc = "start"
    /\ IF addrsRef \in {Nil, <<>>} \/ points < 2
         THEN pc' = "assert" /\ UNCHANGED <<sizes, alive, endpoint, requestVars>>
         ELSE /\ pc' = "assign"
              /\ sizes' = PrepareRequests(points, Len(addrsRef))
              /\ alive' = AllAlive
              /\ endpoint' = [i \in DOMAIN sizes' |-> 0]
              /\ state' = [i \in DOMAIN sizes' |-> "FD_NOT_ASSIGNED"]
              /\ response' = [i \in DOMAIN sizes' |-> 0]
    /\ UNCHANGED <<discoveryVars, points, currIdx, numUpdates, old, socketVars, up>>

\* Who gets request i: the next living endpoint of those in flags, from the
\* place first on; none is left when the throw ends the program.
Choose(i, flags, first, anew) ==
    LET place(j) == (j % Len(addrsRef)) + 1
        living == {j \in first..(first + Len(addrsRef) - 1) : flags[place(j)]}
    IN  /\ alive' = flags
        /\ IF living = {}
             THEN pc' = "noLiving" /\ UNCHANGED <<currIdx, endpoint, old>>
             ELSE /\ currIdx' = Min(living) + 1
                  /\ endpoint' = [endpoint EXCEPT ![i] = place(Min(living))]
                  /\ old' = (IF anew THEN Request ELSE old) \ {i}
                  /\ UNCHANGED pc

\* Mutant of NextEndpoint: the counter is not reset, so every call updates.
UpdateEveryTime(i, known) ==
    IF numUpdates >= MaxUnupdated
      THEN UNCHANGED numUpdates /\ Choose(i, AllAlive, 0, TRUE)
      ELSE numUpdates' = numUpdates + 1 /\ Choose(i, known, currIdx, FALSE)

\* Mutant of NextEndpoint: the update comes one call late.
UpdateLate(i, known) ==
    IF numUpdates > MaxUnupdated
      THEN numUpdates' = 0 /\ Choose(i, AllAlive, 0, TRUE)
      ELSE numUpdates' = numUpdates + 1 /\ Choose(i, known, currIdx, FALSE)

\* known says which endpoints are alive by now.
NextEndpoint(i, known) ==
    IF numUpdates >= MaxUnupdated
      THEN numUpdates' = 0 /\ Choose(i, AllAlive, 0, TRUE)
      ELSE numUpdates' = numUpdates + 1 /\ Choose(i, known, currIdx, FALSE)

Unplaced == {i \in Request : endpoint[i] = 0}

Assign ==
    /\ pc = "assign"
    /\ IF Unplaced = {}
         THEN pc' = "send" /\ UNCHANGED endpointVars
         ELSE NextEndpoint(Min(Unplaced), alive)
    /\ UNCHANGED <<discoveryVars, inputVars, requestVars, socketVars, up>>

\* A descriptor is the least free one: that of a closed socket comes back.
FreeFd == Min((1..(Len(sockets) + 1)) \ {sockets[s].fd : s \in DOMAIN sockets})

RegisterSocket(i, e) ==
    /\ sockets' = Append(sockets, [fd |-> FreeFd, req |-> i, host |-> addrsRef[e],
                                   wire |-> "connecting", sent |-> FALSE])
    /\ state' = [state EXCEPT ![i] = "FD_ASSIGNED"]

NotAssigned == {i \in Request : state[i] = "FD_NOT_ASSIGNED"}

\* connect may also fail at once, which throws.
Register ==
    /\ pc = "send" /\ results = <<>>
    /\ NotAssigned # {}
    /\ LET i == Min(NotAssigned)
       IN  \/ /\ RegisterSocket(i, endpoint[i])
              /\ fdIdxs' = [fd \in DOMAIN fdIdxs \cup {FreeFd} |->
                              IF fd = FreeFd THEN i ELSE fdIdxs[fd]]
              /\ UNCHANGED pc
           \/ /\ addrsRef[endpoint[i]] \notin up
              /\ pc' = "refused"
              /\ UNCHANGED <<sockets, state, fdIdxs>>
    /\ UNCHANGED <<discoveryVars, inputVars, endpointVars, response, results, up>>

\* Mutant of Ready: a socket counts as closed as soon as it is connected.
ReadyEarly(s) == s.wire \in {"queued", "served", "answered", "closed", "reset"}

\* Sockets that Poll takes out: on POLLERR, or when recv returns 0 or fails.
Ready(s) == s.wire \in {"answered", "closed", "reset"}

\* What is at the places S of the sequence, in its order.
Picked(seq, S) ==
    LET upTo[k \in 0..Len(seq)] ==
          IF k = 0 THEN <<>>
          ELSE IF k \in S THEN Append(upTo[k - 1], seq[k]) ELSE upTo[k - 1]
    IN  upTo[Len(seq)]

\* The other sockets that are connected take the rest of their request, or a
\* part of it.
Poll ==
    /\ pc = "send" /\ results = <<>> /\ NotAssigned = {}
    /\ \E i \in Request : state[i] # "FINISHED"
    /\ \E sends \in SUBSET {s \in DOMAIN sockets : sockets[s].wire \in {"queued", "served"}} :
         LET sent == [s \in DOMAIN sockets |->
               IF s \in sends THEN [sockets[s] EXCEPT !.sent = TRUE] ELSE sockets[s]]
             idxsToDelete == {s \in DOMAIN sockets : Ready(sockets[s])}
         IN  /\ results' = Picked(sent, idxsToDelete)
             /\ sockets' = Picked(sent, DOMAIN sockets \ idxsToDelete)
             /\ sockets' # sockets
    /\ UNCHANGED <<discoveryVars, inputVars, pc, endpointVars, requestVars, fdIdxs, up>>

Erase(fd) == fdIdxs' = [f \in DOMAIN fdIdxs \ {fd} |-> fdIdxs[f]]

Closed(sock, i) ==
    /\ state' = [state EXCEPT ![i] = "FINISHED"]
    /\ response' = [response EXCEPT ![i] = IF sock.wire = "answered" THEN sock.req ELSE 0]
    /\ Erase(sock.fd)
    /\ UNCHANGED <<pc, endpointVars, sockets>>

\* Mutant of Failed: the endpoint handed out last is marked.
LastMarked(sock, i) ==
    /\ NextEndpoint(i, [alive EXCEPT ![((currIdx - 1) % Len(addrsRef)) + 1] = FALSE])
    /\ state' = [state EXCEPT ![i] = "FD_NOT_ASSIGNED"]
    /\ Erase(sock.fd)
    /\ UNCHANGED <<response, sockets>>

\* Mutant of Failed: the new socket is opened at once, with a descriptor that
\* a result not handled yet may have had.
OpenedAtOnce(sock, i) ==
    /\ NextEndpoint(i, IF i \in old THEN alive ELSE [alive EXCEPT ![endpoint[i]] = FALSE])
    /\ pc' = pc => RegisterSocket(i, endpoint'[i])
    /\ pc' # pc => UNCHANGED <<sockets, state>>
    /\ fdIdxs' = [fd \in (DOMAIN fdIdxs \ {sock.fd}) \cup {FreeFd} |->
                    IF fd = FreeFd THEN i ELSE fdIdxs[fd]]
    /\ UNCHANGED response

\* The endpoint object of the request is marked; it may be one of an old list.
Failed(sock, i) ==
    /\ NextEndpoint(i, IF i \in old THEN alive ELSE [alive EXCEPT ![endpoint[i]] = FALSE])
    /\ state' = [state EXCEPT ![i] = "FD_NOT_ASSIGNED"]
    /\ Erase(sock.fd)
    /\ UNCHANGED <<response, sockets>>

HandleResult ==
    /\ pc = "send" /\ results # <<>>
    /\ LET sock == Head(results)
           i == fdIdxs[sock.fd]
       IN  IF sock.wire = "reset" THEN Failed(sock, i) ELSE Closed(sock, i)
    /\ results' = Tail(results)
    /\ UNCHANGED <<discoveryVars, inputVars, up>>

\* Mutant of AddUp: the size of the answers is not looked at.
AddUpUnchecked ==
    /\ pc = "send" /\ results = <<>>
    /\ \A i \in Request : state[i] = "FINISHED"
    /\ pc' = "sum"
    /\ UNCHANGED <<discoveryVars, inputVars, endpointVars, requestVars, socketVars, up>>

\* Every request is finished: Calc asserts the size of the answers and adds
\* them up.
AddUp ==
    /\ pc = "send" /\ results = <<>>
    /\ \A i \in Request : state[i] = "FINISHED"
    /\ pc' = IF \E i \in Request : response[i] = 0 THEN "assert" ELSE "sum"
    /\ UNCHANGED <<discoveryVars, inputVars, endpointVars, requestVars, socketVars, up>>

-----------------------------------------------------------------------------
(* The workers and the network between.                                    *)

Goes(s, wire) == sockets' = [sockets EXCEPT ![s].wire = wire]
Elsewhere == UNCHANGED <<discoveryVars, inputVars, pc, endpointVars, requestVars,
                         results, fdIdxs>>

\* The backlog takes every connection: a client has one for each request, and
\* listen (worker_server.cpp:97) leaves room for five.
Connect(s) ==
    /\ sockets[s].wire = "connecting"
    /\ Goes(s, IF sockets[s].host \in up THEN "queued" ELSE "reset")
    /\ UNCHANGED up /\ Elsewhere

\* RunServer joins the thread of one client before it accepts the next.
Accept(s) ==
    /\ sockets[s].wire = "queued"
    /\ \A t \in DOMAIN sockets :
         sockets[t].host = sockets[s].host => sockets[t].wire # "served"
    /\ Goes(s, "served")
    /\ UNCHANGED up /\ Elsewhere

\* HandleClient has read the whole request; it writes the sum and closes.
Answer(s) ==
    /\ sockets[s].wire = "served" /\ sockets[s].sent
    /\ Goes(s, "answered")
    /\ UNCHANGED up /\ Elsewhere

\* The process of a worker ends.  A connection it serves is closed, or reset if
\* something was not read; those in the backlog are reset.
Die(h) ==
    /\ h \in up
    /\ up' = up \ {h}
    /\ \E wire \in {"closed", "reset"} :
         sockets' = [s \in DOMAIN sockets |->
           IF sockets[s].host # h THEN sockets[s]
           ELSE CASE sockets[s].wire = "queued" -> [sockets[s] EXCEPT !.wire = "reset"]
                  [] sockets[s].wire = "served" -> [sockets[s] EXCEPT !.wire = wire]
                  [] OTHER -> sockets[s]]
    /\ Elsewhere

Ended == ~Running /\ UNCHANGED vars

Network == \E s \in DOMAIN sockets : Connect(s) \/ Accept(s) \/ Answer(s)
Sender == Calc \/ Assign \/ Register \/ Poll \/ HandleResult \/ AddUp

Next ==
    \/ \E h \in Host : Hear(h) \/ Die(h)
    \/ UpdateList \/ Sender
    \/ Running /\ Network
    \/ Ended

\* The thread of Calc runs on; what is sent arrives, and a worker that runs
\* serves.  Nothing says that the updater is done before Calc begins.
Spec == Init /\ [][Next]_vars /\ WF_vars(Sender) /\ WF_vars(Network)

-----------------------------------------------------------------------------
(* Properties.                                                             *)

TypeOK ==
    /\ heard \subseteq Host
    /\ addrsRef = Nil \/ addrsRef \in Seq(Host)
    /\ pc \in {"start", "assign", "send"} \cup Ends
    /\ numUpdates \in 0..MaxUnupdated
    /\ DOMAIN state = Request /\ DOMAIN endpoint = Request
    /\ \A i \in Request : endpoint[i] \in 0..Len(addrsRef)
    /\ \A s \in DOMAIN sockets : sockets[s].wire \in Wire
    /\ up \subseteq Worker

\* The sum of a sequence of numbers.
Total(seq) ==
    LET upTo[k \in 0..Len(seq)] == IF k = 0 THEN 0 ELSE upTo[k - 1] + seq[k]
    IN  upTo[Len(seq)]

(* The requests (discovery.cpp:56-76) together hold every point, there are *)
(* no more of them than workers, and each has the two points that a        *)
(* rectangle needs (calc.cpp:10-14).                                       *)
RequestsHoldAllPoints ==
    sizes # <<>> =>
        /\ Total(sizes) = points
        /\ Len(sizes) <= Len(addrsRef)
        /\ \A i \in Request : sizes[i] >= 2

(* A descriptor leads to the request that its socket carries (request_     *)
(* sender.cpp:78, 84), although descriptors of closed sockets come back    *)
(* for others; a request that waits has exactly one socket, so the at() of *)
(* line 84 finds it and the assert of line 100 holds.                      *)
FdsFindTheirRequests ==
    LET open == sockets \o results
    IN  pc = "send" =>
        /\ \A s \in DOMAIN open : open[s].fd \in DOMAIN fdIdxs /\ fdIdxs[open[s].fd] = open[s].req
        /\ \A i \in Request : Cardinality({s \in DOMAIN open : open[s].req = i}) =
                                IF state[i] = "FD_ASSIGNED" THEN 1 ELSE 0

(* What Calc adds up (discovery.cpp:190-195) is the sum that a worker made *)
(* of each request, once for each, whichever worker and whichever try.     *)
SumIsComplete ==
    pc = "sum" => {response[i] : i \in Request} = Request

(* "No living endpoints left" (request_sender.cpp:55) is thrown only when  *)
(* no worker of the list runs: an endpoint is marked for its own failure,  *)
(* not for that of another, or of an object of the list before.            *)
GivesUpOnTheDead ==
    /\ \A e \in DOMAIN alive : ~alive[e] => addrsRef[e] \notin up
    /\ pc = "noLiving" => \A e \in DOMAIN addrsRef : addrsRef[e] \notin up

(* An assert of Calc fails before the requests are cut only if the list    *)
(* was not there yet or empty, or main read fewer than two points          *)
(* (discovery.cpp:185, 57, 58), and once they are sent (discovery.cpp:191) *)
(* only if a worker of the list ended in the middle of a request: a recv   *)
(* of 0 bytes is then taken for the end of an answer.                      *)
AssertsOnlyThen ==
    pc = "assert" =>
        IF sizes = <<>>
          THEN points < 2 \/ addrsRef \in {Nil, <<>>}
          ELSE \E e \in DOMAIN addrsRef : addrsRef[e] \in Worker \ up

(* Calc ends, with a sum or an error, unless every worker of its list is   *)
(* down: although UpdateEndpoints starts again from the head of the list   *)
(* (request_sender.cpp:34-46), it comes too seldom, in a list this short,  *)
(* to keep a request from the worker that runs.                            *)
CalcEnds ==
    <>(pc \in Ends \/ (addrsRef # Nil /\ \A e \in DOMAIN addrsRef : addrsRef[e] \notin up))

=============================================================================

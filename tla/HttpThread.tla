---------------------------- MODULE HttpThread ----------------------------
(***************************************************************************)
(* The HTTP server of the daemon: a poll thread that owns the connections, *)
(* worker threads that run the callbacks, a socket pair that carries       *)
(* requests to the workers, and mg_broadcast, which carries results back   *)
(* and returns when the poll thread has taken them.  A connection is its   *)
(* address: mongoose frees it on close and malloc may return the same      *)
(* address for the next one.                                               *)
(***************************************************************************)
EXTENDS Integers, Sequences, FiniteSets

CONSTANTS
  Conn,            \* addresses of mg_connections
  Worker,          \* the HTTP_WORKER_THREAD_NUM worker threads
  Capacity,        \* requests that fit in the socket pair's buffer
  MaxSessions,     \* bound: connections accepted
  MaxRequests      \* bound: requests parsed

NoOwner == "none"
Closed == 0

ASSUME HttpAssumption ==
  /\ Capacity \in Nat \ {0}
  /\ MaxSessions \in Nat
  /\ MaxRequests \in Nat
  /\ NoOwner \notin Worker
  /\ IsFiniteSet(Worker)

VARIABLES
  IsKilled,
  session,    \* which client is at each address; Closed if none
  closing,    \* connections with MG_F_SEND_AND_CLOSE set
  sessions,   \* connections accepted so far
  requests,   \* requests parsed so far
  pollpc,     \* where the poll thread is
  writing,    \* the WorkRequest the poll thread writes to sock[0]
  queue,      \* WorkRequests in the buffer of the socket pair
  socklock,   \* owner of the mutex around the read of sock[1]
  wpc,        \* where each worker is
  req,        \* the WorkRequest, then WorkResult, each worker has
  ctl,        \* results sent by mg_broadcast and not yet taken
  acks,       \* acknowledgements not yet read by a worker
  answers,    \* history: which request's response went to which client
  lost        \* history: requests whose response was never handed over

pollVars == <<session, closing, sessions, requests, pollpc, writing, answers>>
workerVars == <<socklock, wpc, req>>
vars == <<IsKilled, session, closing, sessions, requests, pollpc, writing, queue,
          socklock, wpc, req, ctl, acks, answers, lost>>

(* A WorkRequest or WorkResult: its Connection, and as history the number  *)
(* of the request and the client that sent it.                             *)
WorkItem == [id : 1 .. MaxRequests, conn : Conn, client : 1 .. MaxSessions]
NoItem == [id |-> 0]

ItemsOf(s) == {s[i] : i \in DOMAIN s}

(* Requests parsed for which OnWorkComplete has not been called. *)
InFlight ==
  {m \in ItemsOf(queue) \cup ItemsOf(ctl) \cup {writing} \cup {req[w] : w \in Worker} :
     m # NoItem}

IdsOf(S) == {m.id : m \in S}

Init ==
  /\ IsKilled = FALSE
  /\ session = [c \in Conn |-> Closed]
  /\ closing = {}
  /\ sessions = 0
  /\ requests = 0
  /\ pollpc = "poll"
  /\ writing = NoItem
  /\ queue = <<>>
  /\ socklock = NoOwner
  /\ wpc = [w \in Worker |-> "loop"]
  /\ req = [w \in Worker |-> NoItem]
  /\ ctl = <<>>
  /\ acks = 0
  /\ answers = {}
  /\ lost = {}

(* KillDiaoBotDaemon. *)
Kill ==
  /\ IsKilled' = TRUE
  /\ UNCHANGED <<pollVars, queue, workerVars, ctl, acks, lost>>

-----------------------------------------------------------------------------
(* The poll thread, inside mg_mgr_poll.                                    *)

Accept(c) ==
  /\ pollpc = "poll"
  /\ session[c] = Closed
  /\ sessions < MaxSessions
  /\ sessions' = sessions + 1
  /\ session' = [session EXCEPT ![c] = sessions + 1]
  /\ UNCHANGED <<IsKilled, closing, requests, pollpc, writing, queue, workerVars,
                 ctl, acks, answers, lost>>

(* The peer closes, or MG_F_SEND_AND_CLOSE takes effect.                   *)
Close(c) ==
  /\ pollpc = "poll"
  /\ session[c] # Closed
  /\ session' = [session EXCEPT ![c] = Closed]
  /\ closing' = closing \ {c}
  /\ UNCHANGED <<IsKilled, sessions, requests, pollpc, writing, queue,
                 workerVars, ctl, acks, answers, lost>>

(* MG_EV_HTTP_REQUEST: copy the message and write its address to sock[0].  *)
(* A client may send several requests without waiting for the answers.     *)
HttpRequest(c) ==
  /\ pollpc = "poll"
  /\ session[c] # Closed
  /\ requests < MaxRequests
  /\ requests' = requests + 1
  /\ writing' = [id |-> requests + 1, conn |-> c, client |-> session[c]]
  /\ pollpc' = "write"
  /\ UNCHANGED <<IsKilled, session, closing, sessions, queue, workerVars, ctl,
                 acks, answers, lost>>

(* Mutant of WriteSock: the write does not wait for room in the buffer. *)
WriteSockUnbounded ==
  /\ pollpc = "write"
  /\ queue' = Append(queue, writing)
  /\ writing' = NoItem
  /\ pollpc' = "poll"
  /\ UNCHANGED <<IsKilled, session, closing, sessions, requests, workerVars, ctl,
                 acks, answers, lost>>

(* The write blocks the poll thread while the buffer is full.  It does not *)
(* fail: both ends of the pair are open while this thread polls, and the   *)
(* handler is installed by signal(), so that a write resumes after it.     *)
WriteSock ==
  /\ pollpc = "write"
  /\ Len(queue) < Capacity
  /\ queue' = Append(queue, writing)
  /\ writing' = NoItem
  /\ pollpc' = "poll"
  /\ UNCHANGED <<IsKilled, session, closing, sessions, requests, workerVars, ctl,
                 acks, answers, lost>>

(* Mutant of OnWorkComplete: every open connection gets the response. *)
OnWorkCompleteForAll(res) ==
  LET match == {c \in Conn : session[c] # Closed}
  IN  /\ answers' = answers \cup {[item |-> res, to |-> session[c]] : c \in match}
      /\ closing' = closing \cup match
      /\ lost' = IF match = {} THEN lost \cup {res.id} ELSE lost

(* OnWorkComplete, called for every connection c that is open: it prints   *)
(* the response on the one at the address of the request.                  *)
OnWorkComplete(res) ==
  LET match == {c \in Conn : session[c] # Closed /\ c = res.conn}
  IN  /\ answers' = answers \cup {[item |-> res, to |-> session[c]] : c \in match}
      /\ closing' = closing \cup match
      /\ lost' = IF match = {} THEN lost \cup {res.id} ELSE lost

(* The poll thread takes a result, acknowledges it and calls back. *)
HandleCtl ==
  /\ pollpc = "poll"
  /\ ctl # <<>>
  /\ ctl' = Tail(ctl)
  /\ acks' = acks + 1
  /\ OnWorkComplete(Head(ctl))
  /\ UNCHANGED <<IsKilled, session, sessions, requests, pollpc, writing, queue,
                 workerVars>>

(* Mutant of MgrFree: the poll thread first waits for the workers to stop. *)
MgrFreeAfterWorkers ==
  /\ pollpc = "poll"
  /\ \A w \in Worker : wpc[w] = "stopped"
  /\ pollpc' = "freed"
  /\ session' = [c \in Conn |-> Closed]
  /\ closing' = {}
  /\ lost' = lost \cup IdsOf(ItemsOf(ctl))
  /\ ctl' = <<>>
  /\ UNCHANGED <<IsKilled, sessions, requests, writing, queue, workerVars, acks,
                 answers>>

(* The poll loop ends and mg_mgr_free closes every connection. *)
MgrFree ==
  /\ pollpc = "poll"
  /\ IsKilled
  /\ pollpc' = "freed"
  /\ session' = [c \in Conn |-> Closed]
  /\ closing' = {}
  /\ lost' = lost \cup IdsOf(ItemsOf(ctl))
  /\ ctl' = <<>>
  /\ UNCHANGED <<IsKilled, sessions, requests, writing, queue, workerVars, acks,
                 answers>>

(* closesocket(sock[0]), closesocket(sock[1]); DoHttpThread returns. *)
CloseSocks ==
  /\ pollpc = "freed"
  /\ pollpc' = "done"
  /\ lost' = lost \cup IdsOf(ItemsOf(queue))
  /\ queue' = <<>>
  /\ UNCHANGED <<IsKilled, session, closing, sessions, requests, writing,
                 workerVars, ctl, acks, answers>>

-----------------------------------------------------------------------------
(* HttpWorkerThread.                                                       *)

WorkerTest(w) ==
  /\ wpc[w] = "loop"
  /\ wpc' = [wpc EXCEPT ![w] = IF IsKilled THEN "stopped" ELSE "lock"]
  /\ UNCHANGED <<IsKilled, pollVars, queue, socklock, req, ctl, acks, lost>>

WorkerLock(w) ==
  /\ wpc[w] = "lock"
  /\ socklock = NoOwner
  /\ socklock' = w
  /\ wpc' = [wpc EXCEPT ![w] = "read"]
  /\ UNCHANGED <<IsKilled, pollVars, queue, req, ctl, acks, lost>>

(* Mutant of WorkerRead: the request stays in the socket. *)
WorkerReadPeeks(w) ==
  /\ wpc[w] = "read"
  /\ queue # <<>>
  /\ req' = [req EXCEPT ![w] = Head(queue)]
  /\ socklock' = NoOwner
  /\ wpc' = [wpc EXCEPT ![w] = "handle"]
  /\ UNCHANGED <<IsKilled, pollVars, queue, ctl, acks, lost>>

(* Mutant of WorkerRead: the mutex is not released. *)
WorkerReadKeepsLock(w) ==
  /\ wpc[w] = "read"
  /\ queue # <<>>
  /\ req' = [req EXCEPT ![w] = Head(queue)]
  /\ queue' = Tail(queue)
  /\ wpc' = [wpc EXCEPT ![w] = "handle"]
  /\ UNCHANGED <<IsKilled, pollVars, socklock, ctl, acks, lost>>

(* read(sock[1]) under the mutex, which is released at once. *)
WorkerRead(w) ==
  /\ wpc[w] = "read"
  /\ queue # <<>>
  /\ req' = [req EXCEPT ![w] = Head(queue)]
  /\ queue' = Tail(queue)
  /\ socklock' = NoOwner
  /\ wpc' = [wpc EXCEPT ![w] = "handle"]
  /\ UNCHANGED <<IsKilled, pollVars, ctl, acks, lost>>

(* The sockets are closed: the read fails or reports the end. *)
WorkerReadFails(w) ==
  /\ wpc[w] = "read"
  /\ pollpc = "done"
  /\ socklock' = NoOwner
  /\ wpc' = [wpc EXCEPT ![w] = "loop"]
  /\ UNCHANGED <<IsKilled, pollVars, queue, req, ctl, acks, lost>>

(* CallbackHandler, or the answer to /ping, and delete req.Message. *)
WorkerHandle(w) ==
  /\ wpc[w] = "handle"
  /\ wpc' = [wpc EXCEPT ![w] = "send"]
  /\ UNCHANGED <<IsKilled, pollVars, queue, socklock, req, ctl, acks, lost>>

(* Mutant of WorkerSend: mg_broadcast does not wait to be acknowledged. *)
WorkerSendOnly(w) ==
  /\ wpc[w] = "send"
  /\ pollpc \in {"poll", "write"}
  /\ ctl' = Append(ctl, req[w])
  /\ req' = [req EXCEPT ![w] = NoItem]
  /\ wpc' = [wpc EXCEPT ![w] = "loop"]
  /\ UNCHANGED <<IsKilled, pollVars, queue, socklock, acks, lost>>

(* mg_broadcast sends the result and waits for an acknowledgement. *)
WorkerSend(w) ==
  /\ wpc[w] = "send"
  /\ pollpc \in {"poll", "write"}
  /\ ctl' = Append(ctl, req[w])
  /\ req' = [req EXCEPT ![w] = NoItem]
  /\ wpc' = [wpc EXCEPT ![w] = "ack"]
  /\ UNCHANGED <<IsKilled, pollVars, queue, socklock, acks, lost>>

(* mgr was freed, or its stack frame is gone: mg_broadcast finds no ctl    *)
(* socket and returns, or does anything.                                   *)
WorkerSendFreed(w) ==
  /\ wpc[w] = "send"
  /\ pollpc \in {"freed", "done"}
  /\ lost' = lost \cup {req[w].id}
  /\ req' = [req EXCEPT ![w] = NoItem]
  /\ \E to \in {"loop", "wild"} : wpc' = [wpc EXCEPT ![w] = to]
  /\ UNCHANGED <<IsKilled, pollVars, queue, socklock, ctl, acks>>

(* Any acknowledgement will do: the workers share the socket. *)
WorkerAck(w) ==
  /\ wpc[w] = "ack"
  /\ acks > 0
  /\ acks' = acks - 1
  /\ wpc' = [wpc EXCEPT ![w] = "loop"]
  /\ UNCHANGED <<IsKilled, pollVars, queue, socklock, req, ctl, lost>>

(* The control sockets are closed: the wait for the acknowledgement fails. *)
WorkerAckFails(w) ==
  /\ wpc[w] = "ack"
  /\ pollpc \in {"freed", "done"}
  /\ wpc' = [wpc EXCEPT ![w] = "loop"]
  /\ UNCHANGED <<IsKilled, pollVars, queue, socklock, req, ctl, acks, lost>>

-----------------------------------------------------------------------------
Poll == WriteSock \/ HandleCtl \/ MgrFree \/ CloseSocks

WorkerStep(w) ==
  \/ WorkerTest(w) \/ WorkerLock(w) \/ WorkerRead(w)
  \/ WorkerHandle(w) \/ WorkerSend(w) \/ WorkerAck(w)

(* What a worker meets when the poll thread has freed what it uses. *)
WorkerStranded(w) == WorkerReadFails(w) \/ WorkerSendFreed(w) \/ WorkerAckFails(w)

Next ==
  \/ Kill
  \/ \E c \in Conn : Accept(c) \/ Close(c) \/ HttpRequest(c)
  \/ Poll
  \/ \E w \in Worker : WorkerStep(w) \/ WorkerStranded(w)

(* The poll thread and the workers run.  One mg_mgr_poll attends to every  *)
(* socket that is ready and returns within 200 ms; then IsKilled is tested.*)
(* Nothing is assumed of the clients, nor of a worker that is stranded.    *)
Fairness ==
  /\ WF_vars(WriteSock)
  /\ SF_vars(HandleCtl)
  /\ SF_vars(MgrFree)
  /\ WF_vars(CloseSocks)
  /\ \A w \in Worker : WF_vars(WorkerTest(w) \/ WorkerHandle(w) \/ WorkerSend(w) \/ WorkerAck(w))
  /\ \A w \in Worker : SF_vars(WorkerLock(w)) /\ SF_vars(WorkerRead(w))

Spec == Init /\ [][Next]_vars
FairSpec == Spec /\ Fairness

-----------------------------------------------------------------------------
(* Properties.                                                             *)

(* The types of the variables of HttpThread.cpp and of the history. *)
TypeOK ==
  /\ IsKilled \in BOOLEAN
  /\ session \in [Conn -> 0 .. MaxSessions]
  /\ closing \subseteq {c \in Conn : session[c] # Closed}
  /\ sessions \in 0 .. MaxSessions
  /\ requests \in 0 .. MaxRequests
  /\ pollpc \in {"poll", "write", "freed", "done"}
  /\ writing \in WorkItem \cup {NoItem}
  /\ queue \in Seq(WorkItem)
  /\ Len(queue) <= Capacity
  /\ socklock \in Worker \cup {NoOwner}
  /\ wpc \in [Worker -> {"loop", "lock", "read", "handle", "send", "ack", "stopped", "wild"}]
  /\ req \in [Worker -> WorkItem \cup {NoItem}]
  /\ ctl \in Seq(WorkItem)
  /\ acks \in Nat
  /\ answers \subseteq [item : WorkItem, to : 1 .. MaxSessions]
  /\ lost \subseteq 1 .. MaxRequests

(* OnWorkComplete knows a client by the address of its connection alone.   *)
(* So a response may reach a stranger, but only one that connected later,  *)
(* at an address the client of the request has given up: never an earlier  *)
(* client, nor another one while the client of the request is connected.   *)
StrangersComeLater ==
  \A a \in answers :
    a.to # a.item.client =>
      /\ a.to > a.item.client
      /\ \A c \in Conn : session[c] # a.item.client

(* mg_broadcast waits for one byte on a socket all workers share: a worker *)
(* may leave on the acknowledgement of another's result, yet the bytes and *)
(* the results not yet taken always add up to the workers that wait, until *)
(* the poll thread frees the manager.                                      *)
AcksMatchWaiters ==
  pollpc \in {"poll", "write"} =>
    acks + Len(ctl) = Cardinality({w \in Worker : wpc[w] = "ack"})

(* The poll thread, the socket pair and the workers together keep the      *)
(* promise of HttpService: no response is sent twice, and none is sent for *)
(* a request already given up (read twice from the socket by two workers,  *)
(* called back twice, dropped while a worker has it).                      *)
Service == INSTANCE HttpService
  WITH Request <- 1 .. MaxRequests,
       pending <- IdsOf(InFlight),
       answered <- IdsOf({a.item : a \in answers}),
       dropped <- lost

ImplementsService == Service!Spec

(* HttpRequest, the socket pair, a worker and OnWorkComplete: a request    *)
(* that was parsed is answered, or its connection was gone, or the daemon  *)
(* is being stopped; provided never more than Capacity + |Worker| requests *)
(* are in flight.  With one more, the poll thread blocks in its write to   *)
(* the full socket while every worker waits for it to acknowledge.         *)
EveryRequestIsServed ==
  [](Cardinality(InFlight) <= Capacity + Cardinality(Worker)) =>
    \A r \in 1 .. MaxRequests :
      r <= requests ~> r \in IdsOf({a.item : a \in answers}) \cup lost \/ IsKilled

(* DoHttpThread returns after IsKilled is set, so that main can join it,   *)
(* provided never more than Capacity requests are in flight: the workers   *)
(* stop on their own, and a poll thread that then writes to a full socket  *)
(* is not woken.                                                           *)
KillEndsPollThread ==
  [](Cardinality(InFlight) <= Capacity) => (IsKilled ~> pollpc = "done")
=============================================================================

------------------------- MODULE HttpThread_proofs -------------------------
(***************************************************************************)
(* What TLC checks of the HTTP server for two connections and workers and  *)
(* three requests, proved for any number of them.                          *)
(***************************************************************************)
EXTENDS HttpThread, FiniteSetTheorems, SequenceTheorems, TLAPS

(***************************************************************************)
(* Types.  The poll thread holds a request only while it writes, a worker  *)
(* only between its read and its broadcast.                                *)
(***************************************************************************)
TypeInv ==
  /\ TypeOK
  /\ IF pollpc = "write" THEN writing \in WorkItem ELSE writing = NoItem
  /\ \A w \in Worker : IF wpc[w] \in {"handle", "send"} THEN req[w] \in WorkItem
                                                        ELSE req[w] = NoItem

LEMMA NoItemIsNone == NoItem \notin WorkItem
  BY DEF NoItem, WorkItem

LEMMA TypeInit == Init => TypeInv
<1> SUFFICES ASSUME Init
             PROVE  TypeInv
  OBVIOUS
<1>1. /\ session \in [Conn -> 0 .. MaxSessions]
      /\ sessions \in 0 .. MaxSessions
      /\ requests \in 0 .. MaxRequests
      /\ acks \in Nat
  BY HttpAssumption DEF Init, Closed
<1>2. queue \in Seq(WorkItem) /\ Len(queue) <= Capacity /\ ctl \in Seq(WorkItem)
  BY HttpAssumption DEF Init
<1>3. QED
  BY <1>1, <1>2 DEF Init, TypeInv, TypeOK

LEMMA AppendItem ==
  ASSUME NEW s \in Seq(WorkItem), NEW m \in WorkItem
  PROVE  /\ Append(s, m) \in Seq(WorkItem)
         /\ Len(Append(s, m)) = Len(s) + 1
         /\ ItemsOf(Append(s, m)) = ItemsOf(s) \cup {m}
<1>1. /\ Append(s, m) \in Seq(WorkItem)
      /\ Len(Append(s, m)) = Len(s) + 1
      /\ Len(s) \in Nat
      /\ DOMAIN s = 1 .. Len(s)
      /\ DOMAIN Append(s, m) = 1 .. Len(s) + 1
      /\ \A i \in 1 .. Len(s) + 1 : Append(s, m)[i] = IF i <= Len(s) THEN s[i] ELSE m
  OBVIOUS
<1>2. ItemsOf(Append(s, m)) \subseteq ItemsOf(s) \cup {m}
  BY <1>1 DEF ItemsOf
<1>3. ItemsOf(s) \subseteq ItemsOf(Append(s, m))
  BY <1>1 DEF ItemsOf
<1>4. m \in ItemsOf(Append(s, m))
  <2>1. Append(s, m)[Len(s) + 1] = m /\ Len(s) + 1 \in DOMAIN Append(s, m)
    BY <1>1
  <2>2. QED
    BY <2>1 DEF ItemsOf
<1>5. QED
  BY <1>1, <1>2, <1>3, <1>4

LEMMA TakeItem ==
  ASSUME NEW s \in Seq(WorkItem), s # <<>>
  PROVE  /\ Head(s) \in WorkItem
         /\ Tail(s) \in Seq(WorkItem)
         /\ Len(Tail(s)) = Len(s) - 1
         /\ ItemsOf(s) = ItemsOf(Tail(s)) \cup {Head(s)}
<1>1. /\ Head(s) \in WorkItem
      /\ Tail(s) \in Seq(WorkItem)
      /\ Len(Tail(s)) = Len(s) - 1
      /\ Len(s) \in Nat \ {0}
      /\ DOMAIN s = 1 .. Len(s)
      /\ DOMAIN Tail(s) = 1 .. Len(s) - 1
      /\ Head(s) = s[1]
      /\ \A i \in 1 .. Len(s) - 1 : Tail(s)[i] = s[i + 1]
  BY HeadTailProperties, EmptySeq
<1>2. ItemsOf(s) \subseteq ItemsOf(Tail(s)) \cup {Head(s)}
  <2> SUFFICES ASSUME NEW i \in DOMAIN s, i # 1
               PROVE  s[i] \in ItemsOf(Tail(s))
    BY <1>1 DEF ItemsOf
  <2>1. i - 1 \in 1 .. Len(s) - 1 /\ Tail(s)[i - 1] = s[i]
    BY <1>1
  <2>2. QED
    BY <1>1, <2>1 DEF ItemsOf
<1>3. ItemsOf(Tail(s)) \cup {Head(s)} \subseteq ItemsOf(s)
  BY <1>1 DEF ItemsOf
<1>4. QED
  BY <1>1, <1>2, <1>3

LEMMA NoItems == ItemsOf(<<>>) = {}
  BY DEF ItemsOf

LEMMA ItemsAreItems ==
  ASSUME NEW s \in Seq(WorkItem)
  PROVE  /\ ItemsOf(s) \subseteq WorkItem
         /\ IdsOf(ItemsOf(s)) \subseteq 1 .. MaxRequests
<1>1. ItemsOf(s) \subseteq WorkItem
  BY DEF ItemsOf
<1>2. \A m \in WorkItem : m.id \in 1 .. MaxRequests
  BY DEF WorkItem
<1>3. QED
  BY <1>1, <1>2 DEF IdsOf

LEMMA TypeStep == TypeInv /\ [Next]_vars => TypeInv'
<1> SUFFICES ASSUME TypeInv, [Next]_vars
             PROVE  TypeInv'
  OBVIOUS
<1> USE HttpAssumption, NoItemIsNone DEF TypeInv, TypeOK
<1>1. CASE Kill
  BY <1>1 DEF Kill, pollVars, workerVars
<1>2. ASSUME NEW c \in Conn, Accept(c)
      PROVE  TypeInv'
  <2>1. sessions' \in 0 .. MaxSessions /\ session' \in [Conn -> 0 .. MaxSessions]
    BY <1>2 DEF Accept
  <2>2. closing' \subseteq {d \in Conn : session'[d] # Closed}
    BY <1>2 DEF Accept, Closed
  <2>3. QED
    BY <1>2, <2>1, <2>2 DEF Accept, workerVars
<1>3. ASSUME NEW c \in Conn, Close(c)
      PROVE  TypeInv'
  <2>1. session' \in [Conn -> 0 .. MaxSessions]
    BY <1>3 DEF Close, Closed
  <2>2. closing' \subseteq {d \in Conn : session'[d] # Closed}
    BY <1>3 DEF Close
  <2>3. QED
    BY <1>3, <2>1, <2>2 DEF Close, workerVars
<1>4. ASSUME NEW c \in Conn, HttpRequest(c)
      PROVE  TypeInv'
  <2>1. writing' \in WorkItem
    BY <1>4 DEF HttpRequest, WorkItem, Closed
  <2>2. QED
    BY <1>4, <2>1 DEF HttpRequest, workerVars
<1>5. CASE WriteSock
  <2>1. queue' \in Seq(WorkItem) /\ Len(queue') <= Capacity
    BY <1>5, AppendItem DEF WriteSock
  <2>2. QED
    BY <1>5, <2>1 DEF WriteSock, workerVars
<1>6. CASE HandleCtl
  <2>1. Head(ctl) \in WorkItem /\ ctl' \in Seq(WorkItem)
    BY <1>6, TakeItem DEF HandleCtl
  <2>2. /\ answers' \subseteq [item : WorkItem, to : 1 .. MaxSessions]
        /\ closing' \subseteq {c \in Conn : session[c] # Closed}
    BY <1>6, <2>1 DEF HandleCtl, OnWorkComplete, Closed
  <2>3. lost' \subseteq 1 .. MaxRequests
    BY <1>6, <2>1 DEF HandleCtl, OnWorkComplete, WorkItem
  <2>4. acks' \in Nat
    BY <1>6 DEF HandleCtl
  <2>5. QED
    BY <1>6, <2>1, <2>2, <2>3, <2>4 DEF HandleCtl, workerVars
<1>7. CASE MgrFree
  <2>1. lost' \subseteq 1 .. MaxRequests
    BY <1>7, ItemsAreItems DEF MgrFree
  <2>2. session' \in [Conn -> 0 .. MaxSessions] /\ ctl' \in Seq(WorkItem)
    BY <1>7 DEF MgrFree, Closed
  <2>3. QED
    BY <1>7, <2>1, <2>2 DEF MgrFree, workerVars
<1>8. CASE CloseSocks
  <2>1. lost' \subseteq 1 .. MaxRequests
    BY <1>8, ItemsAreItems DEF CloseSocks
  <2>2. queue' \in Seq(WorkItem) /\ Len(queue') <= Capacity
    BY <1>8 DEF CloseSocks
  <2>3. QED
    BY <1>8, <2>1, <2>2 DEF CloseSocks, workerVars
<1>9. ASSUME NEW w \in Worker, WorkerStep(w) \/ WorkerStranded(w)
      PROVE  TypeInv'
  <2>1. CASE WorkerTest(w)
    BY <2>1 DEF WorkerTest, pollVars
  <2>2. CASE WorkerLock(w)
    BY <2>2 DEF WorkerLock, pollVars
  <2>3. CASE WorkerRead(w)
    <3>1. Head(queue) \in WorkItem /\ queue' \in Seq(WorkItem) /\ Len(queue') <= Capacity
      BY <2>3, TakeItem DEF WorkerRead
    <3>2. QED
      BY <2>3, <3>1 DEF WorkerRead, pollVars
  <2>4. CASE WorkerHandle(w)
    BY <2>4 DEF WorkerHandle, pollVars
  <2>5. CASE WorkerSend(w)
    <3>1. ctl' \in Seq(WorkItem)
      BY <2>5, AppendItem DEF WorkerSend
    <3>2. QED
      BY <2>5, <3>1 DEF WorkerSend, pollVars
  <2>6. CASE WorkerAck(w)
    BY <2>6 DEF WorkerAck, pollVars
  <2>7. CASE WorkerReadFails(w)
    BY <2>7 DEF WorkerReadFails, pollVars
  <2>8. CASE WorkerSendFreed(w)
    <3>1. lost' \subseteq 1 .. MaxRequests
      BY <2>8 DEF WorkerSendFreed, WorkItem
    <3>2. PICK to \in {"loop", "wild"} : wpc' = [wpc EXCEPT ![w] = to]
      BY <2>8 DEF WorkerSendFreed
    <3>3. QED
      BY <2>8, <3>1, <3>2 DEF WorkerSendFreed, pollVars
  <2>9. CASE WorkerAckFails(w)
    BY <2>9 DEF WorkerAckFails, pollVars
  <2>10. QED
    BY <1>9, <2>1, <2>2, <2>3, <2>4, <2>5, <2>6, <2>7, <2>8, <2>9
    DEF WorkerStep, WorkerStranded
<1>10. CASE UNCHANGED vars
  BY <1>10 DEF vars
<1>11. QED
  BY <1>1, <1>2, <1>3, <1>4, <1>5, <1>6, <1>7, <1>8, <1>9, <1>10 DEF Next, Poll

LEMMA Types == Spec => []TypeInv
<1>1. Init => TypeInv
  BY TypeInit
<1>2. TypeInv /\ [Next]_vars => TypeInv'
  BY TypeStep
<1>3. QED
  BY <1>1, <1>2, PTL DEF Spec

(* The variables of HttpThread.cpp keep their types, for any number of     *)
(* connections, workers and requests.                                      *)
THEOREM TypeCorrect == Spec => []TypeOK
<1>1. TypeInv => TypeOK
  BY DEF TypeInv
<1>2. QED
  BY <1>1, Types, PTL

(***************************************************************************)
(* Acknowledgements.  AcksMatchWaiters is inductive given the types: only  *)
(* WorkerSend, HandleCtl and WorkerAck change what it counts, each on both *)
(* sides or from one of its terms to the other.                            *)
(***************************************************************************)
Waiters == {w \in Worker : wpc[w] = "ack"}

LEMMA WaitersFinite == IsFiniteSet(Waiters) /\ Cardinality(Waiters) \in Nat
  BY HttpAssumption, FS_Subset, FS_CardinalityType DEF Waiters

LEMMA AcksStep == TypeInv /\ AcksMatchWaiters /\ [Next]_vars => AcksMatchWaiters'
<1> SUFFICES ASSUME TypeInv, AcksMatchWaiters, [Next]_vars, pollpc' \in {"poll", "write"}
             PROVE  acks' + Len(ctl') = Cardinality(Waiters')
  BY DEF AcksMatchWaiters, Waiters
<1>1. pollpc \in {"poll", "write"}
  BY DEF Next, Poll, WorkerStep, WorkerStranded, vars, pollVars, Kill, Accept, Close,
         HttpRequest, WriteSock, HandleCtl, MgrFree, CloseSocks, WorkerTest, WorkerLock,
         WorkerRead, WorkerHandle, WorkerSend, WorkerAck, WorkerReadFails,
         WorkerSendFreed, WorkerAckFails, TypeInv, TypeOK
<1>2. acks + Len(ctl) = Cardinality(Waiters) /\ acks \in Nat /\ Len(ctl) \in Nat
  BY <1>1 DEF AcksMatchWaiters, Waiters, TypeInv, TypeOK
<1>3. CASE UNCHANGED <<wpc, ctl, acks>>
  BY <1>2, <1>3 DEF Waiters
<1>4. CASE HandleCtl
  <2>1. Len(ctl') = Len(ctl) - 1 /\ acks' = acks + 1
    BY <1>4, TakeItem DEF HandleCtl, TypeInv, TypeOK
  <2>2. Waiters' = Waiters
    BY <1>4 DEF HandleCtl, workerVars, Waiters
  <2>3. QED
    BY <1>2, <2>1, <2>2
<1>5. ASSUME NEW w \in Worker, WorkerSend(w)
      PROVE  acks' + Len(ctl') = Cardinality(Waiters')
  <2>1. Len(ctl') = Len(ctl) + 1 /\ acks' = acks
    BY <1>5, AppendItem DEF WorkerSend, TypeInv, TypeOK
  <2>2. Waiters' = Waiters \cup {w} /\ w \notin Waiters
    BY <1>5 DEF WorkerSend, Waiters, TypeInv, TypeOK
  <2>3. Cardinality(Waiters') = Cardinality(Waiters) + 1
    BY <2>2, WaitersFinite, FS_AddElement
  <2>4. QED
    BY <1>2, <2>1, <2>3
<1>6. ASSUME NEW w \in Worker, WorkerAck(w)
      PROVE  acks' + Len(ctl') = Cardinality(Waiters')
  <2>1. acks' = acks - 1 /\ ctl' = ctl
    BY <1>6 DEF WorkerAck
  <2>2. Waiters' = Waiters \ {w} /\ w \in Waiters
    BY <1>6 DEF WorkerAck, Waiters, TypeInv, TypeOK
  <2>3. Cardinality(Waiters') = Cardinality(Waiters) - 1
    BY <2>2, WaitersFinite, FS_RemoveElement
  <2>4. QED
    BY <1>2, <2>1, <2>3
<1>7. ASSUME NEW w \in Worker,
             WorkerTest(w) \/ WorkerLock(w) \/ WorkerRead(w) \/ WorkerHandle(w) \/ WorkerStranded(w)
      PROVE  acks' + Len(ctl') = Cardinality(Waiters')
  <2>1. acks' = acks /\ ctl' = ctl
    BY <1>1, <1>7 DEF WorkerTest, WorkerLock, WorkerRead, WorkerHandle, WorkerStranded,
                      WorkerReadFails, WorkerSendFreed, WorkerAckFails
  <2>2. Waiters' = Waiters
    BY <1>1, <1>7 DEF WorkerTest, WorkerLock, WorkerRead, WorkerHandle, WorkerStranded,
                      WorkerReadFails, WorkerSendFreed, WorkerAckFails, Waiters, TypeInv,
                      TypeOK
  <2>3. QED
    BY <1>2, <2>1, <2>2
<1>8. CASE MgrFree
  BY <1>8 DEF MgrFree
<1>9. QED
  BY <1>3, <1>4, <1>5, <1>6, <1>7, <1>8
  DEF Next, Poll, WorkerStep, vars, workerVars, Kill, Accept, Close, HttpRequest, WriteSock,
      CloseSocks

(* While the poll thread runs, the bytes of acknowledgement in the shared  *)
(* socket and the results it has not taken are as many as the workers that *)
(* wait in mg_broadcast, whichever worker reads which byte.                *)
THEOREM AcksAlwaysMatchWaiters == Spec => []AcksMatchWaiters
<1>1. Init => AcksMatchWaiters
  <2> SUFFICES ASSUME Init
               PROVE  acks + Len(ctl) = Cardinality({w \in Worker : wpc[w] = "ack"})
    BY DEF AcksMatchWaiters
  <2>1. {w \in Worker : wpc[w] = "ack"} = {} /\ acks = 0 /\ Len(ctl) = 0
    BY DEF Init
  <2>2. QED
    BY <2>1, FS_EmptySet
<1>2. TypeInv /\ AcksMatchWaiters /\ [Next]_vars => AcksMatchWaiters'
  BY AcksStep
<1>3. QED
  BY <1>1, <1>2, Types, PTL DEF Spec

(***************************************************************************)
(* Clients.  Of the items under way: the client that sent one is at the    *)
(* address the item carries or at none, and who is there now came no       *)
(* earlier.  Needed with it: an address is given to one client at a time,  *)
(* and clients are numbered as they come.                                  *)
(***************************************************************************)
KnownClient(m) ==
  /\ m.client <= sessions
  /\ \A c \in Conn : session[c] = m.client => c = m.conn
  /\ session[m.conn] # Closed => session[m.conn] >= m.client

ClientInv ==
  /\ \A c \in Conn : session[c] <= sessions
  /\ \A c, d \in Conn : session[c] = session[d] /\ session[c] # Closed => c = d
  /\ \A m \in InFlight : KnownClient(m)
  /\ \A a \in answers : a.item.client <= sessions
  /\ StrangersComeLater

LEMMA InFlightAreItems == TypeInv => InFlight \subseteq WorkItem
  BY ItemsAreItems DEF TypeInv, TypeOK, InFlight

(* Only HttpRequest puts a new item under way. *)
LEMMA InFlightGrows ==
  ASSUME TypeInv, [Next]_vars, ~ \E c \in Conn : HttpRequest(c)
  PROVE  InFlight' \subseteq InFlight
<1> USE DEF TypeInv, TypeOK, InFlight
<1>1. CASE UNCHANGED <<writing, queue, ctl, req>>
  BY <1>1
<1>2. CASE WriteSock
  <2>1. ItemsOf(queue') = ItemsOf(queue) \cup {writing}
    BY <1>2, AppendItem DEF WriteSock
  <2>2. QED
    BY <1>2, <2>1 DEF WriteSock, workerVars
<1>3. CASE HandleCtl
  <2>1. ItemsOf(ctl') \subseteq ItemsOf(ctl)
    BY <1>3, TakeItem DEF HandleCtl
  <2>2. QED
    BY <1>3, <2>1 DEF HandleCtl, workerVars
<1>4. CASE MgrFree
  BY <1>4, NoItems DEF MgrFree, workerVars
<1>5. CASE CloseSocks
  BY <1>5, NoItems DEF CloseSocks, workerVars
<1>6. ASSUME NEW w \in Worker, WorkerRead(w)
      PROVE  InFlight' \subseteq InFlight
  <2>1. ItemsOf(queue) = ItemsOf(queue') \cup {Head(queue)}
    BY <1>6, TakeItem DEF WorkerRead
  <2>2. \A v \in Worker : req'[v] \in {req[v], Head(queue)}
    BY <1>6 DEF WorkerRead
  <2>3. QED
    BY <1>6, <2>1, <2>2 DEF WorkerRead, pollVars
<1>7. ASSUME NEW w \in Worker, WorkerSend(w)
      PROVE  InFlight' \subseteq InFlight
  <2>1. ItemsOf(ctl') = ItemsOf(ctl) \cup {req[w]}
    BY <1>7, AppendItem DEF WorkerSend
  <2>2. \A v \in Worker : req'[v] \in {req[v], NoItem}
    BY <1>7 DEF WorkerSend
  <2>3. QED
    BY <1>7, <2>1, <2>2 DEF WorkerSend, pollVars
<1>8. ASSUME NEW w \in Worker, WorkerSendFreed(w)
      PROVE  InFlight' \subseteq InFlight
  <2>1. \A v \in Worker : req'[v] \in {req[v], NoItem}
    BY <1>8 DEF WorkerSendFreed
  <2>2. QED
    BY <1>8, <2>1 DEF WorkerSendFreed, pollVars
<1>9. QED
  BY <1>1, <1>2, <1>3, <1>4, <1>5, <1>6, <1>7, <1>8
  DEF Next, Poll, WorkerStep, WorkerStranded, vars, pollVars, workerVars, Kill, Accept, Close,
      WorkerTest, WorkerLock, WorkerHandle, WorkerAck, WorkerReadFails, WorkerAckFails

LEMMA ClientStep == TypeInv /\ ClientInv /\ [Next]_vars => ClientInv'
<1> SUFFICES ASSUME TypeInv, ClientInv, [Next]_vars
             PROVE  ClientInv'
  OBVIOUS
<1> USE HttpAssumption
<1>a. /\ session \in [Conn -> 0 .. MaxSessions]
      /\ sessions \in 0 .. MaxSessions
      /\ \A a \in answers : a.item.client \in Int /\ a.to \in Int
      /\ \A m \in InFlight : m.client \in 1 .. MaxSessions /\ m.conn \in Conn
  <2>1. session \in [Conn -> 0 .. MaxSessions] /\ sessions \in 0 .. MaxSessions
    BY DEF TypeInv, TypeOK
  <2>2. \A m \in WorkItem : m.client \in 1 .. MaxSessions /\ m.conn \in Conn
    BY DEF WorkItem
  <2>3. \A a \in answers : a.item \in WorkItem /\ a.to \in 1 .. MaxSessions
    BY DEF TypeInv, TypeOK
  <2>4. QED
    BY <2>1, <2>2, <2>3, InFlightAreItems
<1>1. ASSUME NEW c \in Conn, Accept(c)
      PROVE  ClientInv'
  <2>1. /\ sessions' = sessions + 1
        /\ session' = [session EXCEPT ![c] = sessions + 1]
        /\ answers' = answers
        /\ InFlight' = InFlight
    BY <1>1 DEF Accept, workerVars, InFlight
  <2>2. \A m \in InFlight' : KnownClient(m)'
    <3> SUFFICES ASSUME NEW m \in InFlight
                 PROVE  KnownClient(m)'
      BY <2>1
    <3>1. m.client <= sessions /\ KnownClient(m)
      BY DEF ClientInv, KnownClient
    <3>2. QED
      BY <1>a, <2>1, <3>1 DEF KnownClient
  <2>3. StrangersComeLater'
    BY <1>a, <2>1 DEF ClientInv, StrangersComeLater
  <2>4. QED
    BY <1>a, <2>1, <2>2, <2>3 DEF ClientInv, Closed
<1>2. ASSUME NEW c \in Conn, HttpRequest(c)
      PROVE  ClientInv'
  <2> DEFINE m == [id |-> requests + 1, conn |-> c, client |-> session[c]]
  <2>1. InFlight' \subseteq InFlight \cup {m}
    BY <1>2 DEF HttpRequest, workerVars, InFlight
  <2>2. KnownClient(m)
    <3>1. m.conn = c /\ m.client = session[c] /\ session[c] # Closed
      BY <1>2 DEF HttpRequest
    <3>2. QED
      BY <1>a, <3>1 DEF KnownClient, ClientInv
  <2>3. sessions' = sessions /\ session' = session /\ answers' = answers
    BY <1>2 DEF HttpRequest
  <2>4. \A i \in InFlight' : KnownClient(i)'
    <3> SUFFICES ASSUME NEW i \in InFlight \cup {m}
                 PROVE  KnownClient(i)'
      BY <2>1
    <3>1. KnownClient(i)
      BY <2>2 DEF ClientInv
    <3>2. QED
      BY <2>3, <3>1 DEF KnownClient
  <2>5. QED
    BY <2>3, <2>4 DEF ClientInv, StrangersComeLater
<1>3. CASE HandleCtl
  <2> DEFINE res == Head(ctl)
  <2>1. sessions' = sessions /\ session' = session /\ InFlight' \subseteq InFlight
    BY <1>3, InFlightGrows DEF HandleCtl, HttpRequest
  <2>2. res \in InFlight
    <3>1. res \in ItemsOf(ctl) /\ res \in WorkItem
      BY <1>3, TakeItem DEF HandleCtl, TypeInv, TypeOK
    <3>2. QED
      BY <3>1, NoItemIsNone DEF InFlight
  <2>3. KnownClient(res)
    BY <2>2 DEF ClientInv
  <2>4. \A a \in answers' : a \in answers \/ /\ a.item = res /\ a.to = session[res.conn]
                                             /\ a.to # Closed
    BY <1>3 DEF HandleCtl, OnWorkComplete
  <2>5. StrangersComeLater'
    <3> SUFFICES ASSUME NEW a \in answers', a.item = res, a.to = session[res.conn],
                        a.to # Closed, a.to # res.client
                 PROVE  a.to > res.client /\ \A c \in Conn : session[c] # res.client
      BY <2>1, <2>4 DEF ClientInv, StrangersComeLater
    <3>1. QED
      BY <1>a, <2>2, <2>3 DEF KnownClient
  <2>6. \A a \in answers' : a.item.client <= sessions
    BY <2>3, <2>4 DEF ClientInv, KnownClient
  <2>7. \A m \in InFlight' : KnownClient(m)'
    BY <2>1 DEF ClientInv, KnownClient
  <2>8. QED
    BY <2>1, <2>5, <2>6, <2>7 DEF ClientInv
<1>4. CASE /\ sessions' = sessions /\ answers' = answers /\ InFlight' \subseteq InFlight
           /\ session' \in [Conn -> 0 .. MaxSessions]
           /\ \A c \in Conn : session'[c] \in {session[c], Closed}
  <2>1. \A m \in InFlight' : KnownClient(m)'
    BY <1>a, <1>4 DEF ClientInv, KnownClient, Closed
  <2>2. StrangersComeLater'
    <3> SUFFICES ASSUME NEW a \in answers, a.to # a.item.client
                 PROVE  a.to > a.item.client /\ \A c \in Conn : session'[c] # a.item.client
      BY <1>4 DEF StrangersComeLater
    <3>1. a.to > a.item.client /\ \A c \in Conn : session[c] # a.item.client
      BY DEF ClientInv, StrangersComeLater
    <3>2. a.item.client # Closed
      BY DEF TypeInv, TypeOK, WorkItem, Closed
    <3>3. QED
      BY <1>4, <3>1, <3>2
  <2>3. QED
    BY <1>a, <1>4, <2>1, <2>2 DEF ClientInv, Closed
<1>5. QED
  <2>1. ASSUME ~HandleCtl, ~ \E c \in Conn : Accept(c) \/ HttpRequest(c)
        PROVE  /\ sessions' = sessions /\ answers' = answers
               /\ \A c \in Conn : session'[c] \in {session[c], Closed}
    BY <1>a, <2>1
    DEF Next, Poll, WorkerStep, WorkerStranded, vars, pollVars, Kill, Close, WriteSock, MgrFree,
        CloseSocks, WorkerTest, WorkerLock, WorkerRead, WorkerHandle, WorkerSend, WorkerAck,
        WorkerReadFails, WorkerSendFreed, WorkerAckFails
  <2>2. session' \in [Conn -> 0 .. MaxSessions]
    BY TypeStep DEF TypeInv, TypeOK
  <2>3. QED
    BY <1>1, <1>2, <1>3, <1>4, <2>1, <2>2, InFlightGrows

(* A response that reaches a client that did not ask reaches one that came *)
(* later to the address the client of the request had given up.            *)
THEOREM StrangersAlwaysComeLater == Spec => []StrangersComeLater
<1>1. Init => ClientInv
  <2> SUFFICES ASSUME Init
               PROVE  ClientInv
    OBVIOUS
  <2>1. InFlight = {} /\ answers = {}
    BY NoItems DEF Init, InFlight
  <2>2. QED
    BY <2>1 DEF Init, ClientInv, StrangersComeLater, Closed
<1>2. TypeInv /\ ClientInv /\ [Next]_vars => ClientInv'
  BY ClientStep
<1>3. ClientInv => StrangersComeLater
  BY DEF ClientInv
<1>4. QED
  BY <1>1, <1>2, <1>3, Types, PTL DEF Spec

(***************************************************************************)
(* The promise of HttpService.  A request is in one place at a time: the   *)
(* hands of the poll thread, the socket pair, a worker, or the control     *)
(* socket.  Without that, taking it from one place would not take it from  *)
(* the set of pending requests.                                            *)
(***************************************************************************)
QIds == IdsOf(ItemsOf(queue))
CIds == IdsOf(ItemsOf(ctl))

Once(s) == \A i, j \in DOMAIN s : s[i].id = s[j].id => i = j

InOnePlace ==
  /\ Once(queue) /\ Once(ctl)
  /\ QIds \cap CIds = {}
  /\ writing.id \notin QIds \cup CIds
  /\ \A w \in Worker : req[w].id \notin QIds \cup CIds
  /\ \A w \in Worker : req[w] # NoItem => req[w].id # writing.id
  /\ \A v, w \in Worker : req[w] # NoItem /\ req[v].id = req[w].id => v = w

(* Requests are numbered as they are parsed. *)
Numbered ==
  /\ IdsOf(InFlight) \subseteq 1 .. requests
  /\ IdsOf({a.item : a \in answers}) \subseteq 1 .. requests
  /\ lost \subseteq 1 .. requests

ServiceInv == InOnePlace /\ Numbered

LEMMA AppendOnce ==
  ASSUME NEW s \in Seq(WorkItem), NEW m \in WorkItem
  PROVE  /\ IdsOf(ItemsOf(Append(s, m))) = IdsOf(ItemsOf(s)) \cup {m.id}
         /\ Once(s) /\ m.id \notin IdsOf(ItemsOf(s)) => Once(Append(s, m))
<1>1. IdsOf(ItemsOf(Append(s, m))) = IdsOf(ItemsOf(s)) \cup {m.id}
  BY AppendItem DEF IdsOf
<1>2. /\ DOMAIN s = 1 .. Len(s) /\ Len(s) \in Nat
      /\ DOMAIN Append(s, m) = 1 .. Len(s) + 1
      /\ \A i \in 1 .. Len(s) + 1 : Append(s, m)[i] = IF i <= Len(s) THEN s[i] ELSE m
  OBVIOUS
<1>3. \A i \in 1 .. Len(s) : s[i].id \in IdsOf(ItemsOf(s))
  BY <1>2 DEF IdsOf, ItemsOf
<1>4. ASSUME Once(s), m.id \notin IdsOf(ItemsOf(s))
      PROVE  Once(Append(s, m))
  <2> SUFFICES ASSUME NEW i \in 1 .. Len(s) + 1, NEW j \in 1 .. Len(s) + 1,
                      Append(s, m)[i].id = Append(s, m)[j].id
               PROVE  i = j
    BY <1>2 DEF Once
  <2>1. CASE i <= Len(s) /\ j <= Len(s)
    BY <1>2, <1>4, <2>1 DEF Once
  <2>2. CASE i <= Len(s) /\ j > Len(s)
    BY <1>2, <1>3, <1>4, <2>2
  <2>3. CASE i > Len(s) /\ j <= Len(s)
    BY <1>2, <1>3, <1>4, <2>3
  <2>4. QED
    BY <1>2, <2>1, <2>2, <2>3
<1>5. QED
  BY <1>1, <1>4

LEMMA TakeOnce ==
  ASSUME NEW s \in Seq(WorkItem), s # <<>>, Once(s)
  PROVE  /\ Once(Tail(s))
         /\ Head(s).id \in IdsOf(ItemsOf(s))
         /\ IdsOf(ItemsOf(Tail(s))) = IdsOf(ItemsOf(s)) \ {Head(s).id}
<1>1. /\ Len(s) \in Nat \ {0}
      /\ DOMAIN s = 1 .. Len(s)
      /\ DOMAIN Tail(s) = 1 .. Len(s) - 1
      /\ Head(s) = s[1]
      /\ \A i \in 1 .. Len(s) - 1 : Tail(s)[i] = s[i + 1]
  BY HeadTailProperties, EmptySeq
<1>2. Once(Tail(s))
  <2> SUFFICES ASSUME NEW i \in 1 .. Len(s) - 1, NEW j \in 1 .. Len(s) - 1,
                      s[i + 1].id = s[j + 1].id
               PROVE  i = j
    BY <1>1 DEF Once
  <2>1. i + 1 \in 1 .. Len(s) /\ j + 1 \in 1 .. Len(s)
    BY <1>1
  <2>2. QED
    BY <1>1, <2>1 DEF Once
<1>3. IdsOf(ItemsOf(s)) = IdsOf(ItemsOf(Tail(s))) \cup {Head(s).id}
  BY TakeItem DEF IdsOf
<1>4. Head(s).id \notin IdsOf(ItemsOf(Tail(s)))
  <2> SUFFICES ASSUME NEW i \in 1 .. Len(s) - 1, Tail(s)[i].id = Head(s).id
               PROVE  FALSE
    BY <1>1 DEF IdsOf, ItemsOf
  <2>1. i + 1 \in 1 .. Len(s) /\ s[i + 1].id = s[1].id /\ 1 \in 1 .. Len(s)
    BY <1>1
  <2>2. QED
    BY <1>1, <2>1 DEF Once
<1>5. QED
  BY <1>2, <1>3, <1>4

(* The numbers of the requests under way, place by place. *)
PendingByPlace ==
  /\ IdsOf(InFlight) = (QIds \cup CIds \cup {writing.id} \cup {req[w].id : w \in Worker}) \ {0}
  /\ \A w \in Worker : req[w] # NoItem <=> req[w].id # 0
  /\ writing # NoItem <=> writing.id # 0
  /\ 0 \notin QIds \cup CIds
  /\ NoItem.id = 0

LEMMA PendingIds == TypeInv => PendingByPlace
<1> SUFFICES ASSUME TypeInv
             PROVE  PendingByPlace
  OBVIOUS
<1>1. \A m \in WorkItem : m.id \in 1 .. MaxRequests /\ m # NoItem
  BY NoItemIsNone DEF WorkItem
<1>2. NoItem.id = 0
  BY DEF NoItem
<1>3. /\ \A w \in Worker : req[w] \in WorkItem \cup {NoItem}
      /\ writing \in WorkItem \cup {NoItem}
      /\ ItemsOf(queue) \subseteq WorkItem
      /\ ItemsOf(ctl) \subseteq WorkItem
  BY ItemsAreItems DEF TypeInv, TypeOK
<1>4. /\ \A w \in Worker : req[w] # NoItem <=> req[w].id # 0
      /\ writing # NoItem <=> writing.id # 0
      /\ \A m \in ItemsOf(queue) \cup ItemsOf(ctl) : m # NoItem /\ m.id # 0
  BY <1>1, <1>2, <1>3
<1>5. 0 \notin QIds \cup CIds
  BY <1>4 DEF QIds, CIds, IdsOf
<1>6. IdsOf(InFlight) \subseteq
        (QIds \cup CIds \cup {writing.id} \cup {req[w].id : w \in Worker}) \ {0}
  BY <1>4 DEF QIds, CIds, IdsOf, InFlight
<1>7. QIds \cup CIds \subseteq IdsOf(InFlight)
  BY <1>4 DEF QIds, CIds, IdsOf, InFlight
<1>8. ({writing.id} \cup {req[w].id : w \in Worker}) \ {0} \subseteq IdsOf(InFlight)
  BY <1>4 DEF IdsOf, InFlight
<1>9. QED
  BY <1>2, <1>4, <1>5, <1>6, <1>7, <1>8 DEF PendingByPlace

LEMMA PendingIdsNext == TypeInv' => PendingByPlace'
  BY PendingIds, PTL

ServiceStep == ServiceInv' /\ [Service!Next]_(Service!vars)

(* A step that leaves the items where they are. *)
LEMMA ItemsStay ==
  ASSUME ServiceInv, UNCHANGED <<writing, queue, ctl, req, answers, lost, requests>>
  PROVE  ServiceStep
<1>1. InOnePlace'
  BY DEF ServiceInv, InOnePlace, Once, QIds, CIds, IdsOf, ItemsOf
<1>2. IdsOf(InFlight)' = IdsOf(InFlight)
  BY DEF IdsOf, InFlight, ItemsOf
<1>3. IdsOf({a.item : a \in answers})' = IdsOf({a.item : a \in answers})
  BY DEF IdsOf
<1>4. QED
  BY <1>1, <1>2, <1>3 DEF ServiceStep, ServiceInv, Numbered, Service!vars

(* A step that hands an item from one place to the next.                   *)
LEMMA ItemMoves ==
  ASSUME ServiceInv, InOnePlace', UNCHANGED <<answers, lost, requests>>,
         IdsOf(InFlight)' = IdsOf(InFlight)
  PROVE  ServiceStep
<1>1. IdsOf({a.item : a \in answers})' = IdsOf({a.item : a \in answers})
  BY DEF IdsOf
<1>2. QED
  BY <1>1 DEF ServiceStep, ServiceInv, Numbered, Service!vars

(* A step that gives some requests up, if any.                             *)
LEMMA ItemsDrop ==
  ASSUME ServiceInv, InOnePlace', UNCHANGED <<answers, requests>>,
         NEW S, S \subseteq IdsOf(InFlight), lost' = lost \cup S,
         IdsOf(InFlight)' = IdsOf(InFlight) \ S
  PROVE  ServiceStep
<1>1. IdsOf({a.item : a \in answers})' = IdsOf({a.item : a \in answers})
  BY DEF IdsOf
<1>2. ServiceInv'
  BY <1>1 DEF ServiceInv, Numbered
<1>3. CASE S = {}
  BY <1>1, <1>2, <1>3 DEF ServiceStep, Service!vars
<1>4. CASE S # {}
  <2>1. Service!Drop(S)
    BY <1>1, <1>4 DEF Service!Drop
  <2>2. QED
    BY <1>2, <2>1 DEF ServiceStep, Service!Next
<1>5. QED
  BY <1>3, <1>4

LEMMA ReceiveStep ==
  ASSUME TypeInv, TypeInv', ServiceInv, NEW c \in Conn, HttpRequest(c)
  PROVE  ServiceStep
<1> DEFINE n == requests + 1
<1>a. PendingByPlace /\ PendingByPlace'
  BY PendingIds, PendingIdsNext
<1>1. /\ queue' = queue /\ ctl' = ctl /\ req' = req /\ answers' = answers /\ lost' = lost
      /\ writing'.id = n /\ requests' = n /\ writing.id = 0 /\ n \in 1 .. MaxRequests
  BY <1>a DEF HttpRequest, workerVars, TypeInv, TypeOK, PendingByPlace
<1>2. QIds' = QIds /\ CIds' = CIds
  BY <1>1 DEF QIds, CIds, IdsOf, ItemsOf
<1>3. n \notin 1 .. requests /\ 1 .. requests \subseteq 1 .. n /\ n \in 1 .. n
  BY DEF TypeInv, TypeOK
<1>4. n \notin QIds \cup CIds /\ \A w \in Worker : req[w].id # n
  BY <1>1, <1>3, <1>a DEF ServiceInv, Numbered, PendingByPlace
<1>5. InOnePlace'
  BY <1>1, <1>2, <1>4 DEF ServiceInv, InOnePlace, Once
<1>6. IdsOf(InFlight)' = IdsOf(InFlight) \cup {n}
  BY <1>1, <1>2, <1>a DEF PendingByPlace
<1>7. IdsOf({a.item : a \in answers})' = IdsOf({a.item : a \in answers})
  BY <1>1 DEF IdsOf
<1>8. Service!Receive(n)
  BY <1>1, <1>3, <1>6, <1>7 DEF Service!Receive, ServiceInv, Numbered
<1>9. ServiceInv'
  BY <1>1, <1>3, <1>5, <1>6, <1>7 DEF ServiceInv, Numbered
<1>10. QED
  BY <1>1, <1>8, <1>9 DEF ServiceStep, Service!Next

LEMMA WriteSockStep ==
  ASSUME TypeInv, TypeInv', ServiceInv, WriteSock
  PROVE  ServiceStep
<1>a. PendingByPlace /\ PendingByPlace'
  BY PendingIds, PendingIdsNext
<1>1. /\ ctl' = ctl /\ req' = req /\ UNCHANGED <<answers, lost, requests>>
      /\ queue' = Append(queue, writing) /\ writing' = NoItem /\ writing \in WorkItem
  BY DEF WriteSock, workerVars, TypeInv
<1>2. /\ QIds' = QIds \cup {writing.id}
      /\ writing.id \notin QIds => Once(queue')
      /\ CIds' = CIds
  <2>1. queue \in Seq(WorkItem) /\ Once(queue)
    BY DEF TypeInv, TypeOK, ServiceInv, InOnePlace
  <2>2. CIds' = CIds
    BY <1>1 DEF CIds, IdsOf, ItemsOf
  <2>3. QED
    BY <1>1, <2>1, <2>2, AppendOnce DEF QIds
<1>3. writing'.id = 0 /\ writing.id # 0
  BY <1>1, <1>a, NoItemIsNone DEF PendingByPlace
<1>4. \A w \in Worker : req[w].id # writing.id
  BY <1>3, <1>a DEF PendingByPlace, ServiceInv, InOnePlace
<1>5. InOnePlace'
  BY <1>1, <1>2, <1>3, <1>4, <1>a DEF ServiceInv, InOnePlace, PendingByPlace, Once
<1>6. IdsOf(InFlight)' = IdsOf(InFlight)
  BY <1>1, <1>2, <1>3, <1>a DEF PendingByPlace
<1>7. QED
  BY <1>1, <1>5, <1>6, ItemMoves

LEMMA HandleCtlStep ==
  ASSUME TypeInv, TypeInv', ServiceInv, HandleCtl
  PROVE  ServiceStep
<1> DEFINE m == Head(ctl)
           Answered == IdsOf({a.item : a \in answers})
<1>a. PendingByPlace /\ PendingByPlace'
  BY PendingIds, PendingIdsNext
<1>1. /\ queue' = queue /\ req' = req /\ writing' = writing /\ requests' = requests
      /\ ctl # <<>> /\ ctl' = Tail(ctl) /\ OnWorkComplete(m)
  BY DEF HandleCtl, workerVars
<1>2. Once(ctl') /\ m.id \in CIds /\ CIds' = CIds \ {m.id}
  <2>1. ctl \in Seq(WorkItem) /\ Once(ctl)
    BY DEF TypeInv, TypeOK, ServiceInv, InOnePlace
  <2>2. QED
    BY <1>1, <2>1, TakeOnce DEF CIds
<1>3. QIds' = QIds
  BY <1>1 DEF QIds, IdsOf, ItemsOf
<1>4. InOnePlace'
  BY <1>1, <1>2, <1>3 DEF ServiceInv, InOnePlace, Once
<1>5. /\ IdsOf(InFlight)' = IdsOf(InFlight) \ {m.id}
      /\ m.id \in IdsOf(InFlight)
  BY <1>1, <1>2, <1>3, <1>a DEF PendingByPlace, ServiceInv, InOnePlace
<1>6. CASE m.conn \in Conn /\ session[m.conn] # Closed
  <2> DEFINE new == [item |-> m, to |-> session[m.conn]]
  <2>1. answers' = answers \cup {new} /\ lost' = lost
    BY <1>1, <1>6 DEF OnWorkComplete
  <2>2. Answered' = Answered \cup {m.id}
    <3>1. new.item = m
      OBVIOUS
    <3>2. {a.item : a \in answers'} = {a.item : a \in answers} \cup {m}
      <4> HIDE DEF new, m
      <4>1. QED
        BY <2>1, <3>1
    <3>3. QED
      BY <3>2 DEF IdsOf
  <2>3. Service!Answer(m.id)
    BY <1>5, <2>1, <2>2 DEF Service!Answer
  <2>4. m.id \in 1 .. MaxRequests
    <3>1. m \in WorkItem
      BY <1>1, TakeItem DEF TypeInv, TypeOK
    <3>2. QED
      BY <3>1 DEF WorkItem
  <2>5. ServiceInv'
    BY <1>1, <1>4, <1>5, <2>1, <2>2 DEF ServiceInv, Numbered
  <2>6. QED
    BY <2>3, <2>4, <2>5 DEF ServiceStep, Service!Next
<1>7. CASE ~(m.conn \in Conn /\ session[m.conn] # Closed)
  <2>1. answers' = answers /\ lost' = lost \cup {m.id}
    BY <1>1, <1>7 DEF OnWorkComplete
  <2>2. QED
    BY <1>1, <1>4, <1>5, <2>1, ItemsDrop
<1>8. QED
  BY <1>6, <1>7

LEMMA MgrFreeStep ==
  ASSUME TypeInv, TypeInv', ServiceInv, MgrFree
  PROVE  ServiceStep
<1>a. PendingByPlace /\ PendingByPlace'
  BY PendingIds, PendingIdsNext
<1>1. /\ queue' = queue /\ req' = req /\ writing' = writing
      /\ UNCHANGED <<answers, requests>>
      /\ ctl' = <<>> /\ lost' = lost \cup CIds
  BY DEF MgrFree, workerVars, CIds
<1>2. CIds' = {} /\ Once(ctl') /\ QIds' = QIds
  BY <1>1, NoItems DEF CIds, QIds, IdsOf, Once, ItemsOf
<1>3. InOnePlace'
  BY <1>1, <1>2 DEF ServiceInv, InOnePlace, Once
<1>4. /\ CIds \subseteq IdsOf(InFlight)
      /\ IdsOf(InFlight)' = IdsOf(InFlight) \ CIds
  BY <1>1, <1>2, <1>a DEF PendingByPlace, ServiceInv, InOnePlace
<1>5. QED
  BY <1>1, <1>3, <1>4, ItemsDrop

LEMMA CloseSocksStep ==
  ASSUME TypeInv, TypeInv', ServiceInv, CloseSocks
  PROVE  ServiceStep
<1>a. PendingByPlace /\ PendingByPlace'
  BY PendingIds, PendingIdsNext
<1>1. /\ ctl' = ctl /\ req' = req /\ writing' = writing
      /\ UNCHANGED <<answers, requests>>
      /\ queue' = <<>> /\ lost' = lost \cup QIds
  BY DEF CloseSocks, workerVars, QIds
<1>2. QIds' = {} /\ Once(queue') /\ CIds' = CIds
  BY <1>1, NoItems DEF CIds, QIds, IdsOf, Once, ItemsOf
<1>3. InOnePlace'
  BY <1>1, <1>2 DEF ServiceInv, InOnePlace, Once
<1>4. /\ QIds \subseteq IdsOf(InFlight)
      /\ IdsOf(InFlight)' = IdsOf(InFlight) \ QIds
  BY <1>1, <1>2, <1>a DEF PendingByPlace, ServiceInv, InOnePlace
<1>5. QED
  BY <1>1, <1>3, <1>4, ItemsDrop

LEMMA WorkerReadStep ==
  ASSUME TypeInv, TypeInv', ServiceInv, NEW w \in Worker, WorkerRead(w)
  PROVE  ServiceStep
<1> DEFINE m == Head(queue)
<1>a. PendingByPlace /\ PendingByPlace'
  BY PendingIds, PendingIdsNext
<1>1. /\ ctl' = ctl /\ writing' = writing /\ UNCHANGED <<answers, lost, requests>>
      /\ queue # <<>> /\ queue' = Tail(queue)
      /\ req' = [req EXCEPT ![w] = m] /\ req[w] = NoItem
  BY DEF WorkerRead, pollVars, TypeInv
<1>2. Once(queue') /\ m.id \in QIds /\ QIds' = QIds \ {m.id}
  <2>1. queue \in Seq(WorkItem) /\ Once(queue)
    BY DEF TypeInv, TypeOK, ServiceInv, InOnePlace
  <2>2. QED
    BY <1>1, <2>1, TakeOnce DEF QIds
<1>3. CIds' = CIds
  BY <1>1 DEF CIds, IdsOf, ItemsOf
<1>4. req'[w] = m /\ \A v \in Worker : v # w => req'[v] = req[v]
  BY <1>1 DEF TypeInv, TypeOK
<1>5. m.id # writing.id /\ m.id \notin CIds /\ \A v \in Worker : req[v].id # m.id
  BY <1>2 DEF ServiceInv, InOnePlace
<1>6. InOnePlace'
  <2>1. Once(queue') /\ Once(ctl') /\ QIds' \cap CIds' = {} /\ writing'.id \notin QIds' \cup CIds'
    BY <1>1, <1>2, <1>3 DEF ServiceInv, InOnePlace, Once
  <2>2. \A v \in Worker : req'[v].id \notin QIds' \cup CIds'
    BY <1>2, <1>3, <1>4, <1>5 DEF ServiceInv, InOnePlace
  <2>3. \A v \in Worker : req'[v] # NoItem => req'[v].id # writing'.id
    BY <1>1, <1>4, <1>5 DEF ServiceInv, InOnePlace
  <2>4. \A u, v \in Worker : req'[v] # NoItem /\ req'[u].id = req'[v].id => u = v
    BY <1>4, <1>5 DEF ServiceInv, InOnePlace
  <2>5. QED
    BY <2>1, <2>2, <2>3, <2>4 DEF InOnePlace
<1>7. IdsOf(InFlight)' = IdsOf(InFlight)
  <2> DEFINE R == {req[v].id : v \in Worker}
  <2>1. req[w].id = 0
    BY <1>1, <1>a DEF PendingByPlace
  <2>2. R' \ {0} = (R \cup {m.id}) \ {0}
    <3>1. ASSUME NEW v \in Worker
          PROVE  /\ req[v].id # 0 => req'[v] = req[v]
                 /\ req'[v].id = req[v].id \/ req'[v].id = m.id
      BY <1>4, <2>1
    <3>2. m.id \in R'
      BY <1>4
    <3>3. R' \ {0} \subseteq R \cup {m.id}
      BY <3>1
    <3>4. R \ {0} \subseteq R'
      BY <3>1
    <3>5. QED
      BY <3>2, <3>3, <3>4
  <2>3. /\ IdsOf(InFlight) = (QIds \cup CIds \cup {writing.id} \cup R) \ {0}
        /\ IdsOf(InFlight)' = (QIds' \cup CIds' \cup {writing'.id} \cup R') \ {0}
    BY <1>a DEF PendingByPlace
  <2>4. /\ QIds' \cup {m.id} = QIds /\ CIds' = CIds /\ writing' = writing
    BY <1>1, <1>2, <1>3
  <2> HIDE DEF R, m
  <2>5. IdsOf(InFlight)' = (QIds' \cup CIds \cup {writing.id} \cup (R \cup {m.id})) \ {0}
    BY <2>2, <2>3, <2>4
  <2>6. QED
    BY <2>3, <2>4, <2>5
<1>8. QED
  BY <1>1, <1>6, <1>7, ItemMoves

LEMMA WorkerSendStep ==
  ASSUME TypeInv, TypeInv', ServiceInv, NEW w \in Worker, WorkerSend(w)
  PROVE  ServiceStep
<1> DEFINE m == req[w]
<1>a. PendingByPlace /\ PendingByPlace'
  BY PendingIds, PendingIdsNext
<1>1. /\ queue' = queue /\ writing' = writing /\ UNCHANGED <<answers, lost, requests>>
      /\ ctl' = Append(ctl, m) /\ m \in WorkItem
      /\ req' = [req EXCEPT ![w] = NoItem]
  BY DEF WorkerSend, pollVars, TypeInv
<1>2. Once(ctl') /\ CIds' = CIds \cup {m.id}
  <2>1. ctl \in Seq(WorkItem) /\ Once(ctl) /\ m.id \notin CIds
    BY DEF TypeInv, TypeOK, ServiceInv, InOnePlace
  <2>2. QED
    BY <1>1, <2>1, AppendOnce DEF CIds
<1>3. QIds' = QIds
  BY <1>1 DEF QIds, IdsOf, ItemsOf
<1>4. req'[w] = NoItem /\ \A v \in Worker : v # w => req'[v] = req[v]
  BY <1>1 DEF TypeInv, TypeOK
<1>5. /\ m # NoItem /\ m.id # 0 /\ m.id # writing.id /\ m.id \notin QIds
      /\ \A v \in Worker : v # w => req[v].id # m.id
  BY <1>1, <1>a, NoItemIsNone DEF ServiceInv, InOnePlace, PendingByPlace
<1>6. InOnePlace'
  <2>1. Once(queue') /\ Once(ctl') /\ QIds' \cap CIds' = {} /\ writing'.id \notin QIds' \cup CIds'
    BY <1>1, <1>2, <1>3, <1>5 DEF ServiceInv, InOnePlace, Once
  <2>2. \A v \in Worker : req'[v].id \notin QIds' \cup CIds'
    BY <1>2, <1>3, <1>4, <1>5, <1>a DEF ServiceInv, InOnePlace, PendingByPlace
  <2>3. \A v \in Worker : req'[v] # NoItem => req'[v].id # writing'.id
    BY <1>1, <1>4 DEF ServiceInv, InOnePlace
  <2>4. \A u, v \in Worker : req'[v] # NoItem /\ req'[u].id = req'[v].id => u = v
    BY <1>4, <1>a DEF ServiceInv, InOnePlace, PendingByPlace
  <2>5. QED
    BY <2>1, <2>2, <2>3, <2>4 DEF InOnePlace
<1>7. IdsOf(InFlight)' = IdsOf(InFlight)
  <2>1. {req[v].id : v \in Worker} \ {0} = ({req'[v].id : v \in Worker} \cup {m.id}) \ {0}
    BY <1>4, <1>a DEF PendingByPlace
  <2>2. QED
    BY <1>1, <1>2, <1>3, <2>1, <1>a DEF PendingByPlace
<1>8. QED
  BY <1>1, <1>6, <1>7, ItemMoves

LEMMA WorkerSendFreedStep ==
  ASSUME TypeInv, TypeInv', ServiceInv, NEW w \in Worker, WorkerSendFreed(w)
  PROVE  ServiceStep
<1> DEFINE m == req[w]
<1>a. PendingByPlace /\ PendingByPlace'
  BY PendingIds, PendingIdsNext
<1>1. /\ queue' = queue /\ ctl' = ctl /\ writing' = writing /\ UNCHANGED <<answers, requests>>
      /\ lost' = lost \cup {m.id} /\ m \in WorkItem
      /\ req' = [req EXCEPT ![w] = NoItem]
  BY DEF WorkerSendFreed, pollVars, TypeInv
<1>2. QIds' = QIds /\ CIds' = CIds
  BY <1>1 DEF QIds, CIds, IdsOf, ItemsOf
<1>3. req'[w] = NoItem /\ \A v \in Worker : v # w => req'[v] = req[v]
  BY <1>1 DEF TypeInv, TypeOK
<1>4. /\ m # NoItem /\ m.id # 0 /\ m.id # writing.id /\ m.id \notin QIds \cup CIds
      /\ \A v \in Worker : v # w => req[v].id # m.id
  BY <1>1, <1>a, NoItemIsNone DEF ServiceInv, InOnePlace, PendingByPlace
<1>5. InOnePlace'
  <2>1. Once(queue') /\ Once(ctl') /\ QIds' \cap CIds' = {} /\ writing'.id \notin QIds' \cup CIds'
    BY <1>1, <1>2 DEF ServiceInv, InOnePlace, Once
  <2>2. \A v \in Worker : req'[v].id \notin QIds' \cup CIds'
    BY <1>2, <1>3, <1>a DEF ServiceInv, InOnePlace, PendingByPlace
  <2>3. \A v \in Worker : req'[v] # NoItem => req'[v].id # writing'.id
    BY <1>1, <1>3 DEF ServiceInv, InOnePlace
  <2>4. \A u, v \in Worker : req'[v] # NoItem /\ req'[u].id = req'[v].id => u = v
    BY <1>3, <1>a DEF ServiceInv, InOnePlace, PendingByPlace
  <2>5. QED
    BY <2>1, <2>2, <2>3, <2>4 DEF InOnePlace
<1>6. /\ {m.id} \subseteq IdsOf(InFlight)
      /\ IdsOf(InFlight)' = IdsOf(InFlight) \ {m.id}
  <2>1. {req'[v].id : v \in Worker} \ {0} = ({req[v].id : v \in Worker} \ {0}) \ {m.id}
    BY <1>3, <1>4, <1>a DEF PendingByPlace
  <2>2. m.id \in IdsOf(InFlight)
    BY <1>4, <1>a DEF PendingByPlace
  <2>3. QED
    BY <1>1, <1>2, <1>4, <2>1, <2>2, <1>a DEF PendingByPlace
<1>7. QED
  BY <1>1, <1>5, <1>6, ItemsDrop

LEMMA ServiceNext == TypeInv /\ ServiceInv /\ [Next]_vars => ServiceStep
<1> SUFFICES ASSUME TypeInv, ServiceInv, [Next]_vars
             PROVE  ServiceStep
  OBVIOUS
<1>1. TypeInv'
  BY TypeStep
<1>2. ASSUME NEW w \in Worker, WorkerStep(w) \/ WorkerStranded(w)
      PROVE  ServiceStep
  BY <1>1, <1>2, WorkerReadStep, WorkerSendStep, WorkerSendFreedStep, ItemsStay
  DEF WorkerStep, WorkerStranded, WorkerTest, WorkerLock, WorkerHandle, WorkerAck,
      WorkerReadFails, WorkerAckFails, pollVars
<1>3. ASSUME NEW c \in Conn, Accept(c) \/ Close(c) \/ HttpRequest(c)
      PROVE  ServiceStep
  BY <1>1, <1>3, ReceiveStep, ItemsStay DEF Accept, Close, workerVars
<1>4. CASE Poll
  BY <1>1, <1>4, WriteSockStep, HandleCtlStep, MgrFreeStep, CloseSocksStep DEF Poll
<1>5. CASE Kill \/ UNCHANGED vars
  BY <1>5, ItemsStay DEF Kill, vars, pollVars, workerVars
<1>6. QED
  BY <1>2, <1>3, <1>4, <1>5 DEF Next

(* The poll thread, the socket pair and the workers implement HttpService, *)
(* for any number of connections, workers and requests: no request is      *)
(* answered or dropped twice, none after it was dropped.                   *)
THEOREM HttpImplementsService == Spec => ImplementsService
<1>1. Init => ServiceInv /\ Service!Init
  <2> SUFFICES ASSUME Init
               PROVE  ServiceInv /\ Service!Init
    OBVIOUS
  <2>1. /\ QIds = {} /\ CIds = {} /\ Once(queue) /\ Once(ctl)
        /\ IdsOf(InFlight) = {}
        /\ IdsOf({a.item : a \in answers}) = {}
    BY NoItems DEF Init, QIds, CIds, IdsOf, Once, InFlight, ItemsOf
  <2>2. QED
    BY <2>1 DEF Init, ServiceInv, InOnePlace, Numbered, Service!Init
<1>2. TypeInv /\ ServiceInv /\ [Next]_vars => ServiceInv' /\ [Service!Next]_(Service!vars)
  BY ServiceNext DEF ServiceStep
<1>3. QED
  BY <1>1, <1>2, Types, PTL DEF Spec, ImplementsService, Service!Spec
=============================================================================

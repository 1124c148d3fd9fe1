------------------------- MODULE TcpService_proof -------------------------
(* Proofs about TcpService: the notification queue of a client thread for any peers, *)
(* the list of clients, and that no notification is stranded if peers are quiet.     *)
EXTENDS TcpService, SequenceTheorems, TLAPS

\* One edge of the eventfd belongs to one filling of the queue: it is pending, or
\* reported and being served, never both.
EdgeInv ==
  /\ cpc \in [Clients -> ThreadPCs]
  /\ queue \in [Clients -> Nat]
  /\ async \subseteq Clients
  /\ \A k \in Clients : cpc[k] = "drain" => k \notin async

\* The inductive invariant behind DrainHasMessage.
DrainInv == EdgeInv /\ DrainHasMessage

\* No connection, no queue.
LEMMA InitDrainInv == Init => DrainInv
  BY DEF Init, DrainInv, EdgeInv, ThreadPCs, DrainHasMessage

\* Steps that leave the queues and edges alone and start no draining.
LEMMA NoDrainStep ==
  ASSUME DrainInv, UNCHANGED <<queue, async>>, NEW k \in Clients, NEW s \in ThreadPCs,
         s # "drain", cpc' = [cpc EXCEPT ![k] = s] \/ cpc' = cpc
  PROVE  DrainInv'
  BY DEF DrainInv, EdgeInv, DrainHasMessage

\* The steps of the server thread.
LEMMA ServerDrainInv == DrainInv /\ Server => DrainInv'
<1> SUFFICES ASSUME DrainInv, Server PROVE DrainInv'
  OBVIOUS
<1> USE DEF DrainInv, EdgeInv, DrainHasMessage, ThreadPCs
<1>1. ASSUME NEW k \in Clients, Accept(k) PROVE DrainInv'
  BY <1>1, NoDrainStep DEF Accept, notifyVars
<1>2. CASE Join
  BY <1>2 DEF Join
<1>3. CASE ServerWait \/ SweepNext \/ SweepEnd \/ DeleteObservers \/ CloseConnection
  <2>1. UNCHANGED <<cpc, queue, async>>
    BY <1>3 DEF ServerWait, SweepNext, SweepEnd, DeleteObservers, CloseConnection,
                threadVars, notifyVars
  <2> QED
    BY <2>1
<1> QED
  BY <1>1, <1>2, <1>3 DEF Server

\* The steps of a client's thread.
LEMMA ThreadDrainInv == ASSUME NEW k \in Clients PROVE DrainInv /\ Thread(k) => DrainInv'
<1> SUFFICES ASSUME DrainInv, Thread(k) PROVE DrainInv'
  OBVIOUS
<1> USE DEF ThreadPCs
<1>1. CASE Wait(k)
  BY <1>1 DEF Wait, AfterWait, DrainInv, EdgeInv, DrainHasMessage
<1>2. CASE Drain(k)
  BY <1>2 DEF Drain, DrainInv, EdgeInv, DrainHasMessage
<1>3. CASE Start(k) \/ RecvClosed(k) \/ RecvAuthenticate(k) \/ RecvOther(k) \/ GetClientsList(k)
  BY <1>3, NoDrainStep
  DEF Start, RecvClosed, Recv, RecvAuthenticate, RecvOther, GetClientsList, notifyVars
<1>4. CASE Loop(k)
  <2>1. CASE k \in running
    BY <1>4, <2>1, NoDrainStep DEF Loop, notifyVars
  <2>2. CASE k \notin running
    BY <1>4, <2>2, NoDrainStep DEF Loop, notifyVars
  <2> QED
    BY <2>1, <2>2
<1>5. CASE RecvListClients(k) \/ Finish(k) \/ Cleanup(k)
  BY <1>5, NoDrainStep DEF RecvListClients, Recv, Finish, Cleanup, notifyVars
<1>6. ASSUME NEW e \in Events, RecvSubscribe(k, e) PROVE DrainInv'
  BY <1>6, NoDrainStep DEF RecvSubscribe, Recv
<1>7. ASSUME NEW e \in Events, Detach(k, e) PROVE DrainInv'
  BY <1>7, NoDrainStep DEF Detach, threadVars
<1> QED
  BY <1>1, <1>2, <1>3, <1>4, <1>5, <1>6, <1>7 DEF Thread

\* All steps, notifications and peers included.
LEMMA NextDrainInv == DrainInv /\ [Next]_vars => DrainInv'
<1> SUFFICES ASSUME DrainInv, [Next]_vars PROVE DrainInv'
  OBVIOUS
<1>1. ASSUME NEW e \in Events, Notify(e) PROVE DrainInv'
  <2>1. /\ queue' = [k \in Clients |-> IF e \in attached[k] THEN queue[k] + 1 ELSE queue[k]]
        /\ async' = async \cup {k \in Clients : e \in attached[k] /\ queue[k] = 0}
        /\ cpc' = cpc
    BY <1>1 DEF Notify, Triggered, threadVars
  <2> QED
    BY <2>1 DEF DrainInv, EdgeInv, DrainHasMessage
<1>2. ASSUME UNCHANGED <<cpc, queue, async>> PROVE DrainInv'
  BY <1>2 DEF DrainInv, EdgeInv, DrainHasMessage
<1>3. ASSUME NEW k \in Clients,
             SendThrows(k) \/ Connect(k) \/ PeerCloses(k) \/ \E r \in Requests : PeerSends(k, r)
      PROVE  DrainInv'
  BY <1>2, <1>3 DEF SendThrows, Connect, PeerCloses, PeerSends, threadVars, notifyVars
<1>4. CASE UNCHANGED vars
  BY <1>2, <1>4 DEF vars, threadVars, notifyVars
<1> QED
  BY <1>1, <1>3, <1>4, ServerDrainInv, ThreadDrainInv DEF Next

\* The assertion in TCPClientThread::thread_send_async_msg never fails, for any number
\* of clients and whatever they send: the edge that starts a drain has a message, and
\* the drain ends with the last one.
THEOREM DrainAssertionHolds == Spec => []DrainHasMessage
<1>1. DrainInv => DrainHasMessage
  BY DEF DrainInv
<1> QED
  BY InitDrainInv, NextDrainInv, <1>1, PTL DEF Spec

-----------------------------------------------------------------------------
(* The list of clients. *)

Listed(k) == \E i \in DOMAIN list : list[i] = k

\* A connection is nowhere, waits to be accepted, or is in the list: one of them.
\* While the server deletes a client, its position in the list is one.
ListOK ==
  /\ \A k \in Clients : peer[k] = "none" => ~Listed(k) /\ k \notin backlog
  /\ \A k \in backlog : ~Listed(k)
  /\ spc \in {"delete", "close", "join"} => it <= Len(list)

\* The inductive invariant behind TypeOK.
TypeInv == TypeOK /\ ListOK

\* There is no client.
LEMMA InitTypeInv == Init => TypeInv
<1> SUFFICES ASSUME Init PROVE TypeInv
  OBVIOUS
<1>1. inbox \in [Clients -> Seq(Requests)] /\ list \in Seq(Clients) /\ DOMAIN list = {}
  <2>1. <<>> \in Seq(Requests) /\ <<>> \in Seq(Clients) /\ DOMAIN <<>> = {}
    BY DEF Requests
  <2> QED
    BY <2>1 DEF Init
<1>2. ListOK
  BY <1>1 DEF Init, ListOK, Listed
<1>3. TypeOK
  <2>1. \A i, j \in DOMAIN list : list[i] = list[j] => i = j
    BY <1>1
  <2>2. sasync \in BOOLEAN
    BY DEF Init
  <2>3. /\ peer \in [Clients -> {"none", "open", "closed"}]
        /\ cpc \in [Clients -> ThreadPCs]
        /\ observers \in [Clients -> SUBSET Events]
        /\ attached \in [Clients -> SUBSET Events]
        /\ queue \in [Clients -> Nat]
    BY DEF Init, ThreadPCs
  <2> QED BY <1>1, <2>1, <2>2, <2>3 DEF Init, TypeOK
<1> QED BY <1>2, <1>3 DEF TypeInv

\* A sequence with one of its elements erased.
LEMMA ErasedFacts ==
  ASSUME NEW S, NEW s \in Seq(S), NEW i \in Nat \ {0}, i <= Len(s)
  PROVE  /\ Erased(s, i) \in Seq(S)
         /\ \A j \in DOMAIN Erased(s, i) :
              \/ j < i /\ j \in DOMAIN s /\ Erased(s, i)[j] = s[j]
              \/ j >= i /\ j + 1 \in DOMAIN s /\ Erased(s, i)[j] = s[j + 1]
<1>1. Len(s) \in Nat /\ DOMAIN s = 1..Len(s) /\ \A j \in 1..Len(s) : s[j] \in S
  BY ElementOfSeq, LenProperties
<1>2. \A j \in 1..(Len(s) - 1) : (IF j < i THEN s[j] ELSE s[j + 1]) \in S
  BY <1>1
<1>3. Len(s) - 1 \in Nat
  BY <1>1
<1>4. Erased(s, i) \in Seq(S)
  BY <1>2, <1>3, IsASeq DEF Erased
<1>5. DOMAIN Erased(s, i) = 1..(Len(s) - 1)
  BY DEF Erased
<1>6. \A j \in 1..(Len(s) - 1) :
        \/ j < i /\ j \in DOMAIN s /\ Erased(s, i)[j] = s[j]
        \/ j >= i /\ j + 1 \in DOMAIN s /\ Erased(s, i)[j] = s[j + 1]
  BY <1>1 DEF Erased
<1> QED BY <1>4, <1>5, <1>6

\* The steps of the server thread that leave the list alone.
LEMMA SweepTypeInv ==
  ASSUME TypeInv, ServerWait \/ SweepNext \/ SweepEnd \/ DeleteObservers \/ CloseConnection
  PROVE  TypeInv'
<1>1. /\ UNCHANGED <<peer, backlog, inbox, list, cpc, thread_running, authenticated, attached,
                     queue, async>>
      /\ sasync' \in {sasync, FALSE} /\ it' \in {it, it + 1, 1}
  BY DEF ServerWait, SweepNext, SweepEnd, DeleteObservers, CloseConnection, peerVars, threadVars,
         notifyVars
<1>2. /\ spc' \in {"wait", "accept", "sweep", "delete", "close", "join", "aborted"}
      /\ spc' \in {"delete", "close", "join"} => it' = it /\ it <= Len(list)
  BY DEF ServerWait, SweepNext, SweepEnd, DeleteObservers, CloseConnection, TypeInv, TypeOK, ListOK
<1>3. /\ observers' \in [Clients -> SUBSET Events]
      /\ running' \subseteq Clients /\ eof' \subseteq Clients
  <2>1. CASE DeleteObservers
    BY <2>1 DEF DeleteObservers, TypeInv, TypeOK, peerVars, threadVars
  <2>2. CASE CloseConnection
    <3>1. list[it] \in Clients
      BY <2>2 DEF CloseConnection, TypeInv, TypeOK, ListOK
    <3> QED BY <2>2, <3>1 DEF CloseConnection, TypeInv, TypeOK, notifyVars
  <2>3. CASE ServerWait \/ SweepNext \/ SweepEnd
    BY <2>3 DEF ServerWait, SweepNext, SweepEnd, TypeInv, TypeOK, peerVars, threadVars, notifyVars
  <2> QED BY <2>1, <2>2, <2>3
<1>4. TypeOK'
  <2>1. sasync' \in BOOLEAN
    BY <1>1, Zenon DEF TypeInv, TypeOK
  <2>2. it' \in Nat \ {0}
    BY <1>1 DEF TypeInv, TypeOK
  <2> QED BY <1>1, <1>2, <1>3, <2>1, <2>2 DEF TypeInv, TypeOK
<1>5. ListOK'
  BY <1>1, <1>2 DEF TypeInv, ListOK, Listed
<1> QED BY <1>4, <1>5 DEF TypeInv

\* A new client goes to the end of the list, where it was not.
LEMMA AcceptTypeInv ==
  ASSUME TypeInv, NEW k \in Clients, Accept(k)
  PROVE  TypeInv'
<1>1. /\ k \in backlog /\ backlog' = backlog \ {k} /\ list' = Append(list, k)
      /\ cpc' = [cpc EXCEPT ![k] = "start"] /\ running' = running \cup {k}
      /\ authenticated' \in {authenticated, authenticated \cup {k}} /\ spc' = "wait"
      /\ UNCHANGED <<sasync, it, peer, inbox, eof, thread_running, observers, attached, queue,
                     async>>
  BY DEF Accept, notifyVars
<1>2. list \in Seq(Clients) /\ ~Listed(k) /\ peer[k] # "none"
  BY <1>1 DEF TypeInv, TypeOK, ListOK
<1>3. /\ list' \in Seq(Clients)
      /\ \A i \in DOMAIN list' :
           \/ i \in DOMAIN list /\ list'[i] = list[i]
           \/ i = Len(list) + 1 /\ list'[i] = k
  BY <1>1, <1>2
<1>4. \A i, j \in DOMAIN list' : list'[i] = list'[j] => i = j
  BY <1>2, <1>3 DEF TypeInv, TypeOK, Listed
<1>5. TypeOK'
  BY <1>1, <1>3, <1>4 DEF TypeInv, TypeOK, ThreadPCs
<1>6. \A l \in Clients : l # k /\ ~Listed(l) => ~Listed(l)'
  BY <1>3 DEF Listed
<1>7. ListOK'
  BY <1>1, <1>2, <1>6 DEF TypeInv, TypeOK, ListOK
<1> QED BY <1>5, <1>7 DEF TypeInv

\* The client that has ended leaves the list, where it was once.
LEMMA JoinTypeInv ==
  ASSUME TypeInv, Join
  PROVE  TypeInv'
<1>0. PICK k : k = list[it]
  OBVIOUS
<1>1. /\ spc = "join" /\ spc' = "sweep" /\ list' = Erased(list, it)
      /\ cpc' = [cpc EXCEPT ![k] = "none"] /\ peer' = [peer EXCEPT ![k] = "none"]
      /\ inbox' = [inbox EXCEPT ![k] = <<>>] /\ eof' = eof \ {k}
      /\ authenticated' = authenticated \ {k} /\ observers' = [observers EXCEPT ![k] = {}]
      /\ queue' = [queue EXCEPT ![k] = 0] /\ async' = async \ {k}
      /\ UNCHANGED <<sasync, it, backlog, running, thread_running, attached>>
  BY <1>0 DEF Join
<1>2. list \in Seq(Clients) /\ it \in Nat \ {0} /\ it <= Len(list)
  BY <1>1 DEF TypeInv, TypeOK, ListOK
<1>3. it \in DOMAIN list /\ k \in Clients
  BY <1>0, <1>2
<1>4. /\ list' \in Seq(Clients)
      /\ \A j \in DOMAIN list' :
           \/ j < it /\ j \in DOMAIN list /\ list'[j] = list[j]
           \/ j >= it /\ j + 1 \in DOMAIN list /\ list'[j] = list[j + 1]
  BY <1>1, <1>2, ErasedFacts
<1>5. DOMAIN list' \subseteq Nat /\ it \in Nat
  BY <1>2, <1>4
<1>6. \A i, j \in DOMAIN list : list[i] = list[j] => i = j
  BY DEF TypeInv, TypeOK
<1>7. \A i, j \in DOMAIN list' : list'[i] = list'[j] => i = j
  <2> SUFFICES ASSUME NEW i \in DOMAIN list', NEW j \in DOMAIN list', list'[i] = list'[j]
               PROVE  i = j
    OBVIOUS
  <2>1. i \in Nat /\ j \in Nat
    BY <1>5
  <2> QED BY <1>4, <1>5, <1>6, <2>1
<1>8. ~Listed(k)'
  <2> SUFFICES ASSUME NEW j \in DOMAIN list', list'[j] = k PROVE FALSE
    BY DEF Listed
  <2>1. j \in Nat
    BY <1>5
  <2> QED BY <1>0, <1>3, <1>4, <1>5, <1>6, <2>1
<1>9. \A l \in Clients : ~Listed(l) => ~Listed(l)'
  BY <1>4 DEF Listed
<1>10. <<>> \in Seq(Requests)
  BY EmptySeq
<1>11. TypeOK'
  BY <1>1, <1>3, <1>4, <1>7, <1>10 DEF TypeInv, TypeOK, ThreadPCs
<1>12. k \notin backlog
  BY <1>0, <1>3 DEF TypeInv, ListOK, Listed
<1>13. ListOK'
  BY <1>1, <1>3, <1>8, <1>9, <1>12 DEF TypeInv, TypeOK, ListOK
<1> QED BY <1>11, <1>13 DEF TypeInv

\* Steps of other threads and of peers that accept and delete nothing.
LEMMA SameList ==
  ASSUME ListOK, UNCHANGED <<backlog, list, it>>, spc' \in {spc, "aborted"},
         \A k \in Clients : peer'[k] = "none" => peer[k] = "none"
  PROVE  ListOK'
  BY DEF ListOK, Listed

\* The steps of a client's thread.
LEMMA ThreadTypeInv == ASSUME TypeInv, NEW k \in Clients, Thread(k) PROVE TypeInv'
<1> USE DEF TypeInv
<1>a. UNCHANGED <<peer, backlog, list, it, eof>> /\ spc' \in {spc, "aborted"}
  BY DEF Thread, Start, Loop, Wait, RecvClosed, RecvAuthenticate, RecvOther, RecvListClients,
         RecvSubscribe, Recv, Detach, GetClientsList, Drain, Finish, Cleanup, peerVars, serverVars,
         threadVars
<1>b. ListOK'
  BY <1>a, SameList
<1>c. k \in Clients /\ cpc \in [Clients -> ThreadPCs] /\ queue \in [Clients -> Nat]
      /\ inbox \in [Clients -> Seq(Requests)]
      /\ observers \in [Clients -> SUBSET Events] /\ attached \in [Clients -> SUBSET Events]
  BY DEF TypeOK
<1>1. cpc' \in [Clients -> ThreadPCs]
  BY <1>c DEF Thread, Start, Loop, Wait, AfterWait, RecvClosed, RecvAuthenticate, RecvOther,
         RecvListClients, RecvSubscribe, Recv, Detach, GetClientsList, Drain, Finish, Cleanup,
         threadVars, ThreadPCs
<1>2. inbox' \in [Clients -> Seq(Requests)]
  <2>1. UNCHANGED inbox \/ (inbox[k] # <<>> /\ inbox' = [inbox EXCEPT ![k] = Tail(@)])
    BY DEF Thread, Start, Loop, Wait, RecvClosed, RecvAuthenticate, RecvOther, RecvListClients,
           RecvSubscribe, Recv, Detach, GetClientsList, Drain, Finish, Cleanup, peerVars
  <2>2. inbox[k] \in Seq(Requests)
    BY <1>c
  <2>3. inbox[k] # <<>> => Tail(inbox[k]) \in Seq(Requests)
    BY <2>2
  <2> QED BY <1>c, <2>1, <2>3
<1>3. queue' \in [Clients -> Nat]
  <2>1. UNCHANGED queue \/ Drain(k)
    BY DEF Thread, Start, Loop, Wait, RecvClosed, RecvAuthenticate, RecvOther, RecvListClients,
           RecvSubscribe, Recv, Detach, GetClientsList, Finish, Cleanup, notifyVars
  <2>2. CASE Drain(k)
    <3>1. queue[k] > 0 /\ queue' = [queue EXCEPT ![k] = queue[k] - 1]
      BY <2>2 DEF Drain
    <3>2. queue[k] \in Nat /\ queue[k] - 1 \in Nat
      BY <1>c, <3>1
    <3> QED BY <1>c, <3>1, <3>2
  <2> QED BY <1>c, <2>1, <2>2
<1>4. observers' \in [Clients -> SUBSET Events] /\ attached' \in [Clients -> SUBSET Events]
  <2>1. \/ UNCHANGED <<observers, attached>>
        \/ \E e \in Events : RecvSubscribe(k, e) \/ Detach(k, e)
    BY DEF Thread, Start, Loop, Wait, RecvClosed, RecvAuthenticate, RecvOther, RecvListClients,
           GetClientsList, Drain, Finish, Cleanup, notifyVars
  <2>2. ASSUME NEW e \in Events, RecvSubscribe(k, e)
        PROVE  observers' \in [Clients -> SUBSET Events] /\ attached' \in [Clients -> SUBSET Events]
    BY <1>c, <2>2 DEF RecvSubscribe
  <2>3. ASSUME NEW e \in Events, Detach(k, e)
        PROVE  observers' \in [Clients -> SUBSET Events] /\ attached' \in [Clients -> SUBSET Events]
    BY <1>c, <2>3 DEF Detach
  <2> QED BY <1>c, <2>1, <2>2, <2>3
<1>5. /\ running' \in {running, running \ {k}}
      /\ thread_running' \in {thread_running, thread_running \cup {k}, thread_running \ {k}}
      /\ authenticated' \in {authenticated, authenticated \cup {k}}
      /\ async' \in {async, async \ {k}}
  BY DEF Thread, Start, Loop, Wait, RecvClosed, RecvAuthenticate, RecvOther, RecvListClients,
         RecvSubscribe, Recv, Detach, GetClientsList, Drain, Finish, Cleanup, threadVars, notifyVars
<1>6. sasync' \in BOOLEAN
  <2>1. sasync' = sasync \/ sasync' = TRUE
    BY DEF Thread, Start, Loop, Wait, RecvClosed, RecvAuthenticate, RecvOther, RecvListClients,
           RecvSubscribe, Recv, Detach, GetClientsList, Drain, Finish, Cleanup, serverVars
  <2> QED BY <2>1, Zenon DEF TypeOK
<1>7. TypeOK'
  BY <1>a, <1>1, <1>2, <1>3, <1>4, <1>5, <1>6 DEF TypeOK
<1> QED BY <1>b, <1>7

\* Notifications and peers.
LEMMA WorldTypeInv ==
  ASSUME TypeInv,
         \/ \E k \in Clients : \/ SendThrows(k) \/ Connect(k) \/ PeerCloses(k)
                               \/ \E r \in Requests : PeerSends(k, r)
         \/ \E e \in Events : Notify(e)
         \/ UNCHANGED vars
  PROVE  TypeInv'
<1> USE DEF TypeInv
<1>1. ASSUME NEW k \in Clients, SendThrows(k) PROVE TypeInv'
  <2>1. spc' = "aborted" /\ UNCHANGED <<peerVars, sasync, list, it, threadVars, notifyVars>>
    BY <1>1 DEF SendThrows
  <2>2. ListOK'
    BY <2>1, SameList DEF peerVars
  <2>3. TypeOK'
    BY <2>1 DEF TypeOK, peerVars, threadVars, notifyVars
  <2> QED BY <2>2, <2>3
<1>2. ASSUME NEW k \in Clients, Connect(k) PROVE TypeInv'
  <2>1. /\ peer[k] = "none" /\ peer' = [peer EXCEPT ![k] = "open"] /\ backlog' = backlog \cup {k}
        /\ UNCHANGED <<inbox, eof, serverVars, threadVars, notifyVars>>
    BY <1>2 DEF Connect
  <2>2. ListOK'
    BY <2>1 DEF TypeOK, ListOK, Listed, serverVars
  <2>3. TypeOK'
    BY <2>1 DEF TypeOK, serverVars, threadVars, notifyVars
  <2> QED BY <2>2, <2>3
<1>3. ASSUME NEW k \in Clients, PeerCloses(k) PROVE TypeInv'
  <2>1. /\ peer[k] = "open" /\ peer' = [peer EXCEPT ![k] = "closed"] /\ eof' = eof \cup {k}
        /\ UNCHANGED <<backlog, inbox, serverVars, threadVars, notifyVars>>
    BY <1>3 DEF PeerCloses
  <2>2. ListOK'
    BY <2>1, SameList DEF TypeOK, serverVars
  <2>3. TypeOK'
    BY <2>1 DEF TypeOK, serverVars, threadVars, notifyVars
  <2> QED BY <2>2, <2>3
<1>4. ASSUME NEW k \in Clients, NEW r \in Requests, PeerSends(k, r) PROVE TypeInv'
  <2>1. /\ inbox' = [inbox EXCEPT ![k] = Append(@, r)]
        /\ UNCHANGED <<peer, backlog, eof, serverVars, threadVars, notifyVars>>
    BY <1>4 DEF PeerSends
  <2>2. ListOK'
    BY <2>1, SameList DEF serverVars
  <2>3. inbox \in [Clients -> Seq(Requests)] /\ Append(inbox[k], r) \in Seq(Requests)
    BY DEF TypeOK
  <2>4. TypeOK'
    BY <2>1, <2>3 DEF TypeOK, serverVars, threadVars, notifyVars
  <2> QED BY <2>2, <2>4
<1>5. ASSUME NEW e \in Events, Notify(e) PROVE TypeInv'
  <2>1. /\ queue' = [k \in Clients |-> IF e \in attached[k] THEN queue[k] + 1 ELSE queue[k]]
        /\ async' = async \cup Triggered(e)
        /\ UNCHANGED <<peerVars, serverVars, threadVars, observers, attached>>
    BY <1>5 DEF Notify
  <2>2. ListOK'
    BY <2>1, SameList DEF peerVars, serverVars
  <2>3. queue' \in [Clients -> Nat] /\ async' \subseteq Clients
    BY <2>1 DEF TypeOK, Triggered
  <2>4. TypeOK'
    BY <2>1, <2>3 DEF TypeOK, peerVars, serverVars, threadVars
  <2> QED BY <2>2, <2>4
<1>6. CASE UNCHANGED vars
  BY <1>6, SameList DEF TypeOK, vars, peerVars, serverVars, threadVars, notifyVars
<1> QED BY <1>1, <1>2, <1>3, <1>4, <1>5, <1>6

\* All steps.
LEMMA NextTypeInv == TypeInv /\ [Next]_vars => TypeInv'
  BY SweepTypeInv, AcceptTypeInv, JoinTypeInv, ThreadTypeInv, WorldTypeInv DEF Next, Server

\* The variables have their types for any number of clients: above all, whatever
\* is accepted, closed and deleted in between, the list holds a client once and
\* what TCPServer::run deletes is in it.
THEOREM TypeCorrect == Spec => []TypeOK
<1>1. TypeInv => TypeOK
  BY DEF TypeInv
<1> QED
  BY InitTypeInv, NextTypeInv, <1>1, PTL DEF Spec

-----------------------------------------------------------------------------
(* Notifications to quiet peers. *)

\* The client is on the way out of its thread, or has no way but out.
Closing(k) ==
  \/ cpc[k] = "recv" /\ inbox[k] = <<>>
  \/ cpc[k] = "loop" /\ k \notin running
  \/ cpc[k] \in {"finish", "detach", "ended"}

\* Of a client whose peer is quiet: it has a thread once accepted; a request and a subscription exclude each other;
\* attached observers are the client's, and only they fill its queue; and a queue that
\* is not empty has its edge pending, is being emptied, or belongs to a closing client.
ClientOK(k) ==
  /\ peer[k] = "none" \/ k \in backlog => cpc[k] = "none"
  /\ cpc[k] = "ended" => attached[k] = {}
  /\ Len(inbox[k]) <= 1
  /\ inbox[k] # <<>> => observers[k] = {}
  /\ Alive => attached[k] \subseteq observers[k]
  /\ queue[k] > 0 => attached[k] # {} \/ cpc[k] \in {"detach", "ended"}
  /\ queue[k] > 0 => k \in async \/ cpc[k] = "drain" \/ Closing(k)

\* The inductive invariant behind NoStalledNotification.
WokenInv == \A k \in Clients : ClientOK(k)

\* No connection, no queue.
LEMMA InitWokenInv == Init => WokenInv
<1>1. Len(<<>>) = 0
  OBVIOUS
<1> QED BY <1>1 DEF Init, WokenInv, ClientOK

\* A step that does not concern the client.
LEMMA SameClient ==
  ASSUME NEW k \in Clients, ClientOK(k), Alive' => Alive,
         peer'[k] = "none" => peer[k] = "none", k \in backlog' => k \in backlog,
         inbox'[k] = inbox[k], observers'[k] = observers[k], attached'[k] = attached[k],
         queue'[k] = queue[k], cpc'[k] = cpc[k],
         k \in async' <=> k \in async, k \in running' => k \in running
  PROVE  ClientOK(k)'
  BY DEF ClientOK, Closing

\* The steps of the server thread.
LEMMA ServerWokenInv == ASSUME TypeInv, WokenInv, Server PROVE WokenInv'
<1> USE DEF WokenInv
<1>a. Alive' => Alive
  BY DEF Server, ServerWait, Accept, SweepNext, SweepEnd, DeleteObservers, CloseConnection, Join,
         Alive
<1>b. /\ cpc \in [Clients -> ThreadPCs] /\ queue \in [Clients -> Nat]
      /\ peer \in [Clients -> {"none", "open", "closed"}]
      /\ inbox \in [Clients -> Seq(Requests)]
      /\ observers \in [Clients -> SUBSET Events] /\ attached \in [Clients -> SUBSET Events]
  BY DEF TypeInv, TypeOK
<1>1. ASSUME NEW k \in Clients, Accept(k) PROVE WokenInv'
  <2>1. /\ cpc' = [cpc EXCEPT ![k] = "start"] /\ running' = running \cup {k}
        /\ UNCHANGED <<peer, inbox, observers, attached, queue, async>>
        /\ k \in backlog /\ backlog' = backlog \ {k}
    BY <1>1 DEF Accept, notifyVars
  <2>2. cpc[k] = "none" /\ peer[k] # "none"
    BY <2>1 DEF ClientOK, TypeInv, ListOK
  <2>3. ClientOK(k)'
    BY <1>a, <1>b, <2>1, <2>2 DEF ClientOK, Closing
  <2>4. ASSUME NEW l \in Clients, l # k PROVE ClientOK(l)'
    BY <1>a, <1>b, <2>1, <2>4, SameClient
  <2> QED BY <2>3, <2>4
<1>2. CASE DeleteObservers
  <2>1. PICK k : k = list[it]
    OBVIOUS
  <2>2. /\ observers' = [observers EXCEPT ![k] = {}]
        /\ UNCHANGED <<peer, backlog, inbox, cpc, running, attached, queue, async>>
        /\ attached[k] = {} \/ ~Alive'
    BY <1>2, <2>1 DEF DeleteObservers, Alive, peerVars, threadVars
  <2>3. ASSUME NEW l \in Clients, l # k PROVE ClientOK(l)'
    BY <1>a, <1>b, <2>2, <2>3, SameClient
  <2>4. ASSUME k \in Clients PROVE ClientOK(k)'
    BY <1>b, <2>2, <2>4, <1>a DEF ClientOK, Closing
  <2> QED BY <2>3, <2>4
<1>3. CASE Join
  <2>1. PICK k : k = list[it]
    OBVIOUS
  <2>2. /\ cpc' = [cpc EXCEPT ![k] = "none"] /\ inbox' = [inbox EXCEPT ![k] = <<>>]
        /\ observers' = [observers EXCEPT ![k] = {}] /\ queue' = [queue EXCEPT ![k] = 0]
        /\ peer' = [peer EXCEPT ![k] = "none"] /\ async' = async \ {k}
        /\ UNCHANGED <<backlog, running, attached>> /\ cpc[k] = "ended"
    BY <1>3, <2>1 DEF Join
  <2>3. ASSUME NEW l \in Clients, l # k PROVE ClientOK(l)'
    BY <1>a, <1>b, <2>2, <2>3, SameClient
  <2>4. ASSUME k \in Clients PROVE ClientOK(k)'
    BY <1>b, <2>2, <2>4 DEF ClientOK, Closing
  <2> QED BY <2>3, <2>4
<1>4. CASE ServerWait \/ SweepNext \/ SweepEnd \/ CloseConnection
  <2>1. /\ UNCHANGED <<peer, backlog, inbox, cpc, observers, attached, queue, async>>
        /\ running' \subseteq running
    BY <1>4 DEF ServerWait, SweepNext, SweepEnd, CloseConnection, peerVars, threadVars, notifyVars
  <2> QED BY <1>a, <2>1, SameClient
<1> QED BY <1>1, <1>2, <1>3, <1>4 DEF Server

\* The steps of a client's thread: only a message of the peer can let the edge of the
\* eventfd go unserved, and a quiet peer sends none while notifications come.
LEMMA ThreadWokenInv ==
  ASSUME TypeInv, WokenInv, NEW k \in Clients, Thread(k)
  PROVE  WokenInv'
<1> USE DEF WokenInv
<1>b. /\ cpc \in [Clients -> ThreadPCs] /\ queue \in [Clients -> Nat]
      /\ peer \in [Clients -> {"none", "open", "closed"}]
      /\ inbox \in [Clients -> Seq(Requests)]
      /\ observers \in [Clients -> SUBSET Events] /\ attached \in [Clients -> SUBSET Events]
  BY DEF TypeInv, TypeOK
<1>c. /\ Alive /\ UNCHANGED <<peer, backlog>> /\ cpc[k] # "none"
      /\ running' \in {running, running \ {k}} /\ async' \in {async, async \ {k}}
  BY DEF Thread, Start, Loop, Wait, RecvClosed, RecvAuthenticate, RecvOther, RecvListClients,
         RecvSubscribe, Recv, Detach, GetClientsList, Drain, Finish, Cleanup, peerVars, threadVars,
         notifyVars
<1>d. ASSUME NEW l \in Clients, l # k
      PROVE  /\ inbox'[l] = inbox[l] /\ observers'[l] = observers[l]
             /\ attached'[l] = attached[l] /\ queue'[l] = queue[l] /\ cpc'[l] = cpc[l]
  BY <1>b, <1>d
  DEF Thread, Start, Loop, Wait, RecvClosed, RecvAuthenticate, RecvOther, RecvListClients,
      RecvSubscribe, Recv, Detach, GetClientsList, Drain, Finish, Cleanup, peerVars, threadVars,
      notifyVars
<1>e. ASSUME NEW l \in Clients, l # k PROVE ClientOK(l)'
  BY <1>c, <1>d, <1>e, SameClient
<1>1. CASE Start(k) \/ GetClientsList(k) \/ Finish(k) \/ Cleanup(k)
  BY <1>1, <1>b, <1>c DEF Start, GetClientsList, Finish, Cleanup, ClientOK, Closing, peerVars,
                          serverVars, notifyVars
<1>2. CASE Loop(k)
  <2>1. /\ UNCHANGED <<inbox, observers, attached, queue, async, running, spc>>
        /\ cpc[k] = "loop" /\ cpc'[k] = (IF k \in running THEN "wait" ELSE "finish")
    BY <1>2, <1>b DEF Loop, peerVars, serverVars, notifyVars
  <2> QED BY <1>b, <1>c, <1>e, <2>1 DEF ClientOK, Closing, Alive
<1>3. CASE Wait(k)
  <2>1. /\ UNCHANGED <<inbox, observers, attached, queue, running, spc>> /\ cpc[k] = "wait"
        /\ cpc'[k] = (IF inbox[k] # <<>> \/ k \in eof THEN "recv" ELSE "drain")
    BY <1>3, <1>b DEF Wait, AfterWait, Readable, peerVars, serverVars
  <2>2. queue[k] > 0 => inbox[k] = <<>>
    BY <1>c, <2>1 DEF ClientOK
  <2> QED BY <1>b, <1>c, <1>e, <2>1, <2>2 DEF ClientOK, Closing, Alive
<1>4. CASE RecvClosed(k)
  <2>1. /\ UNCHANGED <<inbox, observers, attached, queue, async, spc>>
        /\ running' = running \ {k} /\ cpc[k] = "recv" /\ cpc'[k] = "loop"
    BY <1>4, <1>b DEF RecvClosed, peerVars, serverVars, notifyVars
  <2> QED BY <1>b, <1>c, <1>e, <2>1 DEF ClientOK, Closing, Alive
<1>5. ASSUME NEW r, Recv(k, r)
      PROVE  /\ cpc[k] = "recv" /\ inbox[k] # <<>> /\ queue[k] = 0 /\ attached[k] = {}
             /\ inbox'[k] = <<>> /\ UNCHANGED <<queue, async, running>>
  <2>1. /\ cpc[k] = "recv" /\ inbox[k] # <<>> /\ inbox' = [inbox EXCEPT ![k] = Tail(@)]
        /\ UNCHANGED <<queue, async, running>>
    BY <1>5 DEF Recv
  <2>2. observers[k] = {} /\ attached[k] = {} /\ Len(inbox[k]) <= 1
    BY <1>c, <2>1 DEF ClientOK
  <2>3. queue[k] = 0
    <3>1. ~(queue[k] > 0)
      BY <2>1, <2>2 DEF ClientOK
    <3>2. queue[k] \in Nat
      BY <1>b
    <3> QED BY <3>1, <3>2
  <2>4. inbox[k] \in Seq(Requests)
    BY <1>b
  <2>5. Tail(inbox[k]) = <<>>
    <3>1. Len(inbox[k]) \in Nat /\ Len(inbox[k]) # 0
      BY <2>1, <2>4
    <3>2. Tail(inbox[k]) \in Seq(Requests) /\ Len(Tail(inbox[k])) = 0
      <4>1. PICK s \in Seq(Requests) : s = inbox[k]
        BY <2>4
      <4>2. s # <<>> /\ Len(s) = 1
        <5>1. s # <<>> /\ Len(s) <= 1 /\ Len(s) \in Nat /\ Len(s) # 0
          BY <2>1, <2>2, <3>1, <4>1, Zenon
        <5>2. \A n \in Nat : n <= 1 /\ n # 0 => n = 1
          OBVIOUS
        <5> QED BY <5>1, <5>2, Zenon
      <4>3. Tail(s) \in Seq(Requests) /\ Len(Tail(s)) = Len(s) - 1
        BY <4>2, HeadTailProperties
      <4> QED BY <4>1, <4>2, <4>3
    <3> QED BY <3>2, EmptySeq
  <2> QED BY <1>b, <2>1, <2>2, <2>3, <2>5
<1>6. CASE RecvAuthenticate(k) \/ RecvOther(k) \/ RecvListClients(k)
  <2>1. UNCHANGED <<spc, observers, attached>> /\ cpc'[k] \in {"loop", "listing"}
    BY <1>6, <1>b DEF RecvAuthenticate, RecvOther, RecvListClients
  <2>2. \E r : Recv(k, r)
    BY <1>6 DEF RecvAuthenticate, RecvOther, RecvListClients
  <2>3. Len(<<>>) = 0
    OBVIOUS
  <2>4. ClientOK(k)'
    BY <1>b, <1>c, <1>5, <2>1, <2>2, <2>3 DEF ClientOK, Closing, Alive
  <2> QED BY <1>e, <2>4
<1>7. ASSUME NEW e \in Events, RecvSubscribe(k, e) PROVE WokenInv'
  <2>1. /\ observers'[k] = observers[k] \cup {e} /\ attached'[k] = attached[k] \cup {e}
        /\ cpc'[k] = "loop" /\ Recv(k, e)
    BY <1>7, <1>b DEF RecvSubscribe
  <2>2. Len(<<>>) = 0
    OBVIOUS
  <2>3. ClientOK(k)'
    BY <1>b, <1>c, <1>5, <2>1, <2>2 DEF ClientOK, Closing
  <2> QED BY <1>e, <2>3
<1>8. CASE Drain(k)
  <2>1. /\ UNCHANGED <<inbox, observers, attached, running, async, spc>>
        /\ cpc[k] = "drain" /\ queue[k] > 0 /\ queue'[k] = queue[k] - 1
        /\ cpc'[k] = (IF queue[k] = 1 THEN "loop" ELSE "drain")
    BY <1>8, <1>b DEF Drain, peerVars, serverVars
  <2>2. queue[k] \in Nat
    BY <1>b
  <2> QED BY <1>b, <1>c, <1>e, <2>1, <2>2 DEF ClientOK, Closing, Alive
<1>9. ASSUME NEW e \in Events, Detach(k, e) PROVE WokenInv'
  <2>1. /\ UNCHANGED <<inbox, observers, queue, running, async, spc, cpc>>
        /\ cpc[k] = "detach" /\ attached'[k] = attached[k] \ {e}
    BY <1>9, <1>b DEF Detach, peerVars, serverVars, threadVars
  <2> QED BY <1>b, <1>c, <1>e, <2>1 DEF ClientOK, Closing, Alive
<1>10. CASE Start(k) \/ GetClientsList(k) \/ Finish(k) \/ Cleanup(k) \/ Loop(k) \/ Wait(k) \/ RecvClosed(k)
  BY <1>1, <1>2, <1>3, <1>4, <1>10
<1> QED
  BY <1>6, <1>7, <1>8, <1>9, <1>10 DEF Thread

\* Notifications and peers: the first notification of a filling leaves an edge.
LEMMA WorldWokenInv ==
  ASSUME Quiet, TypeInv, WokenInv,
         \/ \E k \in Clients : \/ SendThrows(k) \/ Connect(k) \/ PeerCloses(k)
                               \/ \E r \in Requests : PeerSends(k, r)
         \/ \E e \in Events : Notify(e)
         \/ UNCHANGED vars
  PROVE  WokenInv'
<1> USE DEF WokenInv
<1>b. /\ cpc \in [Clients -> ThreadPCs] /\ queue \in [Clients -> Nat]
      /\ peer \in [Clients -> {"none", "open", "closed"}]
      /\ inbox \in [Clients -> Seq(Requests)]
  BY DEF TypeInv, TypeOK
<1>1. ASSUME NEW k \in Clients, SendThrows(k) PROVE WokenInv'
  BY <1>1, SameClient DEF SendThrows, Alive, peerVars, threadVars, notifyVars
<1>2. ASSUME NEW k \in Clients, Connect(k) PROVE WokenInv'
  <2>1. /\ Alive /\ peer[k] = "none" /\ peer' = [peer EXCEPT ![k] = "open"]
        /\ backlog' = backlog \cup {k}
        /\ UNCHANGED <<inbox, observers, attached, queue, async, running, cpc, spc>>
    BY <1>2 DEF Connect, serverVars, threadVars, notifyVars
  <2>2. ClientOK(k)'
    BY <1>b, <2>1 DEF ClientOK, Closing, Alive
  <2>3. ASSUME NEW l \in Clients, l # k PROVE ClientOK(l)'
    BY <1>b, <2>1, <2>3, SameClient DEF Alive
  <2> QED BY <2>2, <2>3
<1>3. ASSUME NEW k \in Clients, PeerCloses(k) PROVE WokenInv'
  <2>1. /\ Alive /\ peer[k] = "open" /\ peer' = [peer EXCEPT ![k] = "closed"]
        /\ UNCHANGED <<backlog, inbox, observers, attached, queue, async, running, cpc, spc>>
    BY <1>3 DEF PeerCloses, serverVars, threadVars, notifyVars
  <2> QED BY <1>b, <2>1, SameClient DEF Alive
<1>4. ASSUME NEW k \in Clients, NEW r \in Requests, PeerSends(k, r) PROVE WokenInv'
  <2>1. /\ Alive /\ inbox[k] = <<>> /\ observers[k] = {} /\ cpc[k] = "wait"
        /\ inbox' = [inbox EXCEPT ![k] = Append(@, r)]
        /\ UNCHANGED <<peer, backlog, observers, attached, queue, async, running, cpc, spc>>
    BY <1>4 DEF PeerSends, MaySend, serverVars, threadVars, notifyVars
  <2>2. inbox'[k] = <<r>> /\ Len(<<r>>) = 1
    BY <1>b, <2>1
  <2>3. ClientOK(k)'
    <3>1. /\ ClientOK(k) /\ Alive /\ cpc[k] = "wait" /\ observers[k] = {}
          /\ UNCHANGED <<peer, backlog, observers, attached, queue, async, running, cpc, spc>>
          /\ Len(inbox'[k]) = 1
      BY <2>1, <2>2
    <3> QED BY ONLY <3>1 DEF ClientOK, Closing, Alive
  <2>4. ASSUME NEW l \in Clients, l # k PROVE ClientOK(l)'
    BY <1>b, <2>1, <2>4, SameClient DEF Alive
  <2> QED BY <2>3, <2>4
<1>5. ASSUME NEW e \in Events, Notify(e) PROVE WokenInv'
  <2>1. /\ Alive
        /\ queue' = [k \in Clients |-> IF e \in attached[k] THEN queue[k] + 1 ELSE queue[k]]
        /\ async' = async \cup {k \in Clients : e \in attached[k] /\ queue[k] = 0}
        /\ UNCHANGED <<peer, backlog, inbox, observers, attached, running, cpc, spc>>
    BY <1>5 DEF Notify, Triggered, peerVars, serverVars, threadVars
  <2> SUFFICES ASSUME NEW k \in Clients PROVE ClientOK(k)'
    OBVIOUS
  <2>2. queue[k] \in Nat
    BY <1>b
  <2>3. CASE e \in attached[k]
    BY <2>1, <2>2, <2>3 DEF ClientOK, Closing, Alive
  <2>4. CASE e \notin attached[k]
    BY <2>1, <2>2, <2>4, SameClient DEF Alive
  <2> QED BY <2>3, <2>4
<1>6. CASE UNCHANGED vars
  BY <1>6, SameClient DEF vars, peerVars, serverVars, threadVars, notifyVars, Alive
<1> QED BY <1>1, <1>2, <1>3, <1>4, <1>5, <1>6

\* All steps.
LEMMA NextWokenInv ==
  ASSUME Quiet
  PROVE  TypeInv /\ WokenInv /\ [Next]_vars => WokenInv'
  BY ServerWokenInv, ThreadWokenInv, WorldWokenInv DEF Next

\* A client thread that sleeps with notifications queued will be woken, for any
\* number of clients and events, if peers are quiet: wait takes the edge from the
\* eventfd also when it returns for the socket, but then the socket reads as closed
\* and the thread ends.
THEOREM NotificationsNotStalled ==
  ASSUME Quiet
  PROVE  Spec => []NoStalledNotification
<1>1. WokenInv => NoStalledNotification
  BY DEF WokenInv, ClientOK, Closing, NoStalledNotification
<1>2. TypeInv /\ WokenInv /\ [Next]_vars => WokenInv'
  BY NextWokenInv
<1> QED
  BY InitTypeInv, NextTypeInv, InitWokenInv, <1>1, <1>2, PTL DEF Spec
=============================================================================

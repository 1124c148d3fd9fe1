---------------------------- MODULE TcpService ----------------------------
(***************************************************************************)
(* The TCP side of h9d (src/h9d/tcpserver.cc, tcpclientthread.cc and the   *)
(* observers a client subscribes): the server thread accepts connections   *)
(* and removes the clients whose thread has ended; one thread per client   *)
(* reads requests and writes responses and notifications; the bus thread   *)
(* and the device workers queue notifications to the subscribed clients.   *)
(*                                                                         *)
(* Every thread sleeps in Epoll::wait on its socket (level-triggered) and  *)
(* on an eventfd (edge-triggered), and looks at the socket first: an edge  *)
(* reported together with a readable socket is gone.                       *)
(***************************************************************************)
EXTENDS Naturals, Sequences, FiniteSets

CONSTANTS
  Clients,   \* connection slots
  Events,    \* what a client can subscribe to
  Quiet,     \* TRUE: peers send one request at a time and none once subscribed
  MaxQueue,  \* bound: notifications queued for a client
  MaxInbox   \* bound: requests a peer has sent and h9d has not read

ASSUME TcpServiceAssumption ==
  /\ IsFiniteSet(Clients)
  /\ Quiet \in BOOLEAN
  /\ MaxQueue \in Nat \ {0}
  /\ MaxInbox \in Nat \ {0}

VARIABLES
  peer,            \* external: the other end of each connection
  backlog,         \* external: connections not yet accepted
  inbox,           \* external: requests in the socket's receive buffer
  eof,             \* the clients whose socket reads as closed
  spc,             \* where the server thread is
  sasync,          \* an edge of the server's eventfd not yet reported
  list,            \* TCPServer::tcpclientthread_list
  it,              \* the sweep's position in it
  cpc,             \* where each client's thread is
  running,         \* the clients with TCPClientThread::running
  thread_running,  \* the clients with TCPClientThread::thread_running
  authenticated,   \* the clients with TCPClientThread::_authenticated
  observers,       \* per client, the events with an observer object
  attached,        \* per client, the events whose observer is attached
  queue,           \* length of TCPClientThread::async_msg_queue
  async            \* the clients with an edge of their eventfd not yet reported

peerVars   == <<peer, backlog, inbox, eof>>
serverVars == <<spc, sasync, list, it>>
threadVars == <<cpc, running, thread_running, authenticated>>
notifyVars == <<observers, attached, queue, async>>
vars == <<peerVars, serverVars, threadVars, notifyVars>>

Requests == {"authenticate", "get_tcp_clients", "other"} \cup Events

Alive == spc # "aborted"

Init ==
  /\ peer = [k \in Clients |-> "none"]
  /\ backlog = {}
  /\ inbox = [k \in Clients |-> <<>>]
  /\ eof = {}
  /\ spc = "wait"
  /\ sasync = FALSE
  /\ list = <<>>
  /\ it = 1
  /\ cpc = [k \in Clients |-> "none"]
  /\ running = {}
  /\ thread_running = {}
  /\ authenticated = {}
  /\ observers = [k \in Clients |-> {}]
  /\ attached = [k \in Clients |-> {}]
  /\ queue = [k \in Clients |-> 0]
  /\ async = {}

-----------------------------------------------------------------------------
(* The server thread, TCPServer::run. *)

\* The mutex of the list is held from the start of a sweep to its end.
ListLocked == spc \in {"sweep", "delete", "close", "join"}

\* Epoll::wait, then the socket before the eventfd.
ServerWait ==
  /\ spc = "wait"
  /\ backlog # {} \/ sasync
  /\ spc' = IF backlog # {} THEN "accept" ELSE "sweep"
  /\ sasync' = FALSE
  /\ it' = 1
  /\ UNCHANGED <<list, peerVars, threadVars, notifyVars>>

\* accept and TCPClientThread::TCPClientThread: the thread is created, thread_running
\* still false; _authenticated is not initialised.
Accept(k) ==
  /\ spc = "accept"
  /\ k \in backlog
  /\ backlog' = backlog \ {k}
  /\ list' = Append(list, k)
  /\ cpc' = [cpc EXCEPT ![k] = "start"]
  /\ running' = running \cup {k}
  /\ authenticated' \in {authenticated, authenticated \cup {k}}
  /\ spc' = "wait"
  /\ UNCHANGED <<sasync, it, peer, inbox, eof, thread_running, notifyVars>>

\* The sweep looks at the next client: its thread runs, or the client is deleted.
SweepNext ==
  /\ spc = "sweep"
  /\ it <= Len(list)
  /\ IF list[it] \in thread_running
     THEN it' = it + 1 /\ UNCHANGED spc
     ELSE spc' = "delete" /\ UNCHANGED it
  /\ UNCHANGED <<sasync, list, peerVars, threadVars, notifyVars>>

SweepEnd ==
  /\ spc = "sweep"
  /\ it > Len(list)
  /\ spc' = "wait"
  /\ UNCHANGED <<sasync, list, it, peerVars, threadVars, notifyVars>>

\* ~TCPClientThread deletes the observers; the destructor of one that is still
\* attached fails its assertion.
DeleteObservers ==
  /\ spc = "delete"
  /\ spc' = IF attached[list[it]] # {} THEN "aborted" ELSE "close"
  /\ observers' = [observers EXCEPT ![list[it]] = {}]
  /\ UNCHANGED <<sasync, list, it, peerVars, threadVars, attached, queue, async>>

\* ... close_connection ...
CloseConnection ==
  /\ spc = "close"
  /\ spc' = "join"
  /\ running' = running \ {list[it]}
  /\ eof' = eof \cup {list[it]}
  /\ UNCHANGED <<sasync, list, it, peer, backlog, inbox, cpc, thread_running, authenticated,
                 notifyVars>>

\* tcpclientthread_list.erase.
Erased(s, i) == [j \in 1..(Len(s) - 1) |-> IF j < i THEN s[j] ELSE s[j + 1]]

\* ... and joins the thread. The slot is free again once the object is gone.
Join ==
  /\ spc = "join"
  /\ LET k == list[it]
     IN /\ cpc[k] = "ended"
        /\ cpc' = [cpc EXCEPT ![k] = "none"]
        /\ peer' = [peer EXCEPT ![k] = "none"]
        /\ inbox' = [inbox EXCEPT ![k] = <<>>]
        /\ eof' = eof \ {k}
        /\ authenticated' = authenticated \ {k}
        /\ observers' = [observers EXCEPT ![k] = {}]
        /\ queue' = [queue EXCEPT ![k] = 0]
        /\ async' = async \ {k}
  /\ list' = Erased(list, it)
  /\ spc' = "sweep"
  /\ UNCHANGED <<sasync, it, backlog, running, thread_running, attached>>

Server ==
  \/ ServerWait
  \/ \E k \in Clients : Accept(k)
  \/ SweepNext \/ SweepEnd
  \/ DeleteObservers \/ CloseConnection \/ Join

-----------------------------------------------------------------------------
(* A client's thread, TCPClientThread::thread. *)

Start(k) ==
  /\ Alive
  /\ cpc[k] = "start"
  /\ thread_running' = thread_running \cup {k}
  /\ cpc' = [cpc EXCEPT ![k] = "loop"]
  /\ UNCHANGED <<peerVars, serverVars, running, authenticated, notifyVars>>

\* while (running).
Loop(k) ==
  /\ Alive
  /\ cpc[k] = "loop"
  /\ cpc' = [cpc EXCEPT ![k] = IF k \in running THEN "wait" ELSE "finish"]
  /\ UNCHANGED <<peerVars, serverVars, running, thread_running, authenticated, notifyVars>>

Readable(k) == inbox[k] # <<>> \/ k \in eof

\* The socket is looked at first.
AfterWait(k) == IF Readable(k) THEN "recv" ELSE "drain"

\* Epoll::wait reports what is ready, and the edge of the eventfd is consumed.
Wait(k) ==
  /\ Alive
  /\ cpc[k] = "wait"
  /\ Readable(k) \/ k \in async
  /\ cpc' = [cpc EXCEPT ![k] = AfterWait(k)]
  /\ async' = async \ {k}
  /\ UNCHANGED <<peerVars, serverVars, running, thread_running, authenticated, observers,
                 attached, queue>>

\* thread_recv_msg: the peer has closed the connection.
RecvClosed(k) ==
  /\ Alive
  /\ cpc[k] = "recv"
  /\ inbox[k] = <<>>
  /\ k \in eof
  /\ running' = running \ {k}
  /\ cpc' = [cpc EXCEPT ![k] = "loop"]
  /\ UNCHANGED <<peerVars, serverVars, thread_running, authenticated, notifyVars>>

\* thread_recv_msg takes a request. API::call refuses all but authenticate to a
\* client that is not authenticated.
Recv(k, r) ==
  /\ Alive
  /\ cpc[k] = "recv"
  /\ inbox[k] # <<>>
  /\ Head(inbox[k]) = r
  /\ inbox' = [inbox EXCEPT ![k] = Tail(@)]
  /\ UNCHANGED <<peer, backlog, eof, running, thread_running, queue, async, sasync, list, it>>

RecvAuthenticate(k) ==
  /\ Recv(k, "authenticate")
  /\ authenticated' = authenticated \cup {k}
  /\ cpc' = [cpc EXCEPT ![k] = "loop"]
  /\ UNCHANGED <<spc, observers, attached>>

\* Anything that changes nothing here: a refused request, another method, a batch,
\* a message that does not parse.
RecvOther(k) ==
  /\ \E r \in Requests : Recv(k, r) /\ (r = "other" \/ (r # "authenticate" /\ k \notin authenticated))
  /\ cpc' = [cpc EXCEPT ![k] = "loop"]
  /\ UNCHANGED <<spc, authenticated, observers, attached>>

\* API::subscribe: a new observer attaches itself, then takes the place of the old
\* one, which is deleted without being detached: its destructor's assertion fails.
RecvSubscribe(k, e) ==
  /\ Recv(k, e)
  /\ k \in authenticated
  /\ spc' = IF e \in observers[k] THEN "aborted" ELSE spc
  /\ observers' = [observers EXCEPT ![k] = @ \cup {e}]
  /\ attached' = [attached EXCEPT ![k] = @ \cup {e}]
  /\ cpc' = [cpc EXCEPT ![k] = "loop"]
  /\ UNCHANGED authenticated

\* API::get_tcp_clients asks the server for its list ...
RecvListClients(k) ==
  /\ Recv(k, "get_tcp_clients")
  /\ k \in authenticated
  /\ cpc' = [cpc EXCEPT ![k] = "listing"]
  /\ UNCHANGED <<spc, authenticated, observers, attached>>

\* ... and waits for its mutex.
GetClientsList(k) ==
  /\ cpc[k] = "listing"
  /\ Alive
  /\ ~ListLocked
  /\ cpc' = [cpc EXCEPT ![k] = "loop"]
  /\ UNCHANGED <<peerVars, serverVars, running, thread_running, authenticated, notifyVars>>

\* Mutant: the queue is looked at before the message is popped.
DrainLooksEarly(k) ==
  /\ Alive
  /\ cpc[k] = "drain"
  /\ queue' = [queue EXCEPT ![k] = @ - 1]
  /\ cpc' = [cpc EXCEPT ![k] = IF queue[k] = 0 THEN "loop" ELSE "drain"]
  /\ UNCHANGED <<peerVars, serverVars, running, thread_running, authenticated, observers,
                 attached, async>>

\* Mutant: one notification per event.
DrainOne(k) ==
  /\ Alive
  /\ cpc[k] = "drain"
  /\ queue[k] > 0
  /\ queue' = [queue EXCEPT ![k] = @ - 1]
  /\ cpc' = [cpc EXCEPT ![k] = "loop"]
  /\ UNCHANGED <<peerVars, serverVars, running, thread_running, authenticated, observers,
                 attached, async>>

\* thread_send_async_msg: one notification is popped and sent; on until none is left.
Drain(k) ==
  /\ Alive
  /\ cpc[k] = "drain"
  /\ queue[k] > 0
  /\ queue' = [queue EXCEPT ![k] = @ - 1]
  /\ cpc' = [cpc EXCEPT ![k] = IF queue[k] = 1 THEN "loop" ELSE "drain"]
  /\ UNCHANGED <<peerVars, serverVars, running, thread_running, authenticated, observers,
                 attached, async>>

\* send fails once the peer is gone, and nothing catches the exception.
SendThrows(k) ==
  /\ Alive
  /\ cpc[k] = "drain"
  /\ peer[k] = "closed"
  /\ spc' = "aborted"
  /\ UNCHANGED <<peerVars, sasync, list, it, threadVars, notifyVars>>

\* The end of the thread: thread_running is cleared ...
Finish(k) ==
  /\ Alive
  /\ cpc[k] = "finish"
  /\ thread_running' = thread_running \ {k}
  /\ cpc' = [cpc EXCEPT ![k] = "detach"]
  /\ UNCHANGED <<peerVars, serverVars, running, authenticated, notifyVars>>

\* ... then the observers are detached, the frame observer first ...
Detach(k, e) ==
  /\ Alive
  /\ cpc[k] = "detach"
  /\ e \in attached[k]
  /\ "frame" \in attached[k] => e = "frame"
  /\ attached' = [attached EXCEPT ![k] = @ \ {e}]
  /\ UNCHANGED <<peerVars, serverVars, threadVars, observers, queue, async>>

\* ... then the server is told.
Cleanup(k) ==
  /\ Alive
  /\ cpc[k] = "detach"
  /\ attached[k] = {}
  /\ sasync' = TRUE
  /\ cpc' = [cpc EXCEPT ![k] = "ended"]
  /\ UNCHANGED <<peerVars, spc, list, it, running, thread_running, authenticated, notifyVars>>

Thread(k) ==
  \/ Start(k) \/ Loop(k) \/ Wait(k)
  \/ RecvClosed(k) \/ RecvAuthenticate(k) \/ RecvOther(k) \/ RecvListClients(k)
  \/ \E e \in Events : RecvSubscribe(k, e) \/ Detach(k, e)
  \/ GetClientsList(k) \/ Drain(k)
  \/ Finish(k) \/ Cleanup(k)

-----------------------------------------------------------------------------
(* Notifications and peers. *)

\* Mutant: the eventfd is written for the second message of a burst, not the first.
TriggeredSecond(e) == {k \in Clients : e \in attached[k] /\ queue[k] = 1}

\* Mutant: the eventfd is written for every message.
TriggeredAlways(e) == {k \in Clients : e \in attached[k]}

\* send_msg writes the eventfd for the message that finds the queue empty.
Triggered(e) == {k \in Clients : e \in attached[k] /\ queue[k] = 0}

\* An event: every attached observer queues a notification (send_msg, under the mutex).
Notify(e) ==
  /\ Alive
  /\ \E k \in Clients : e \in attached[k]
  /\ \A k \in Clients : e \in attached[k] => queue[k] < MaxQueue
  /\ queue' = [k \in Clients |-> IF e \in attached[k] THEN queue[k] + 1 ELSE queue[k]]
  /\ async' = async \cup Triggered(e)
  /\ UNCHANGED <<peerVars, serverVars, threadVars, observers, attached>>

Connect(k) ==
  /\ Alive
  /\ peer[k] = "none"
  /\ peer' = [peer EXCEPT ![k] = "open"]
  /\ backlog' = backlog \cup {k}
  /\ UNCHANGED <<inbox, eof, serverVars, threadVars, notifyVars>>

\* A quiet peer waits for the response to its last request (its thread is idle again)
\* and is silent once subscribed.
MaySend(k) ==
  Quiet => cpc[k] = "wait" /\ inbox[k] = <<>> /\ observers[k] = {}

PeerSends(k, r) ==
  /\ Alive
  /\ peer[k] = "open"
  /\ Len(inbox[k]) < MaxInbox
  /\ MaySend(k)
  /\ inbox' = [inbox EXCEPT ![k] = Append(@, r)]
  /\ UNCHANGED <<peer, backlog, eof, serverVars, threadVars, notifyVars>>

PeerCloses(k) ==
  /\ Alive
  /\ peer[k] = "open"
  /\ peer' = [peer EXCEPT ![k] = "closed"]
  /\ eof' = eof \cup {k}
  /\ UNCHANGED <<backlog, inbox, serverVars, threadVars, notifyVars>>

Next ==
  \/ Server
  \/ \E k \in Clients :
       \/ Thread(k) \/ SendThrows(k)
       \/ Connect(k) \/ PeerCloses(k)
       \/ \E r \in Requests : PeerSends(k, r)
  \/ \E e \in Events : Notify(e)

Spec == Init /\ [][Next]_vars

\* The threads of a running process are scheduled, and one that waits for a mutex that
\* is released again and again gets it; peers and events owe nothing.
Fairness ==
  /\ WF_vars(Server)
  /\ \A k \in Clients : WF_vars(Thread(k)) /\ SF_vars(GetClientsList(k))

FairSpec == Spec /\ Fairness

-----------------------------------------------------------------------------
(* Properties. *)

ThreadPCs == {"none", "start", "loop", "wait", "recv", "listing", "drain", "finish",
              "detach", "ended"}

\* The variables have their types; in particular the list holds a client once.
TypeOK ==
  /\ peer \in [Clients -> {"none", "open", "closed"}]
  /\ backlog \subseteq Clients
  /\ inbox \in [Clients -> Seq(Requests)]
  /\ eof \subseteq Clients
  /\ spc \in {"wait", "accept", "sweep", "delete", "close", "join", "aborted"}
  /\ sasync \in BOOLEAN
  /\ list \in Seq(Clients)
  /\ \A i, j \in DOMAIN list : list[i] = list[j] => i = j
  /\ it \in Nat \ {0}
  /\ cpc \in [Clients -> ThreadPCs]
  /\ running \subseteq Clients
  /\ thread_running \subseteq Clients
  /\ authenticated \subseteq Clients
  /\ observers \in [Clients -> SUBSET Events]
  /\ attached \in [Clients -> SUBSET Events]
  /\ queue \in [Clients -> Nat]
  /\ async \subseteq Clients

\* assert(!async_msg_queue.empty()) in thread_send_async_msg: the thread never starts,
\* or goes on, sending with nothing to send.
DrainHasMessage ==
  \A k \in Clients : cpc[k] = "drain" \/ k \in async => queue[k] > 0

\* A client thread that sleeps with notifications queued will be woken: send_msg
\* wrote the eventfd for the first of them and the edge is not yet reported.
NoStalledNotification ==
  \A k \in Clients : cpc[k] = "wait" /\ queue[k] > 0 => k \in async

\* assert(subject == nullptr) in ~FrameObserver: when the server deletes a client its
\* observers are detached.
DeletedObserversDetached ==
  spc = "delete" => attached[list[it]] = {}

\* A peer that only listens gets its notifications: its queue is emptied again and
\* again, or messages leave it for ever, unless the connection ends.
NotificationsSent ==
  \A k \in Clients :
    \/ []<>(queue[k] = 0 \/ cpc[k] = "ended" \/ ~Alive)
    \/ []<><<Drain(k)>>_vars

\* A client that asks for the list of clients gets it: the mutex of the list is
\* released again.
ListingReturns ==
  \A k \in Clients : cpc[k] = "listing" ~> (cpc[k] # "listing" \/ ~Alive)
=============================================================================

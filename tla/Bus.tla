-------------------------------- MODULE Bus --------------------------------
(***************************************************************************)
(* The data bus of h9d (src/h9d/bus.cc, busframe.cc, bus_endpoint.cc,      *)
(* epoll.cc): any number of threads call Bus::send_frame and block on a    *)
(* future; one bus thread waits for an event, drains the send and forward  *)
(* queues onto every endpoint, or reads the endpoints that are ready.      *)
(*                                                                         *)
(* An endpoint acknowledges a frame inside the driver's send_data, except  *)
(* an SLCAN endpoint, whose adapter answers later over the serial line.    *)
(* Frames are reused by identity: a caller has one frame at a time (it is  *)
(* blocked until the frame is acknowledged), a received frame has a slot   *)
(* that is free again once no queue holds it.                              *)
(***************************************************************************)
EXTENDS Naturals, Sequences, FiniteSets, FiniteSetsExt

CONSTANTS
  Callers,         \* threads that call Bus::send_frame
  RxFrames,        \* slots of received frames kept for forwarding
  N,               \* number of endpoints; 1..N in the order of their sockets
  Slcan,           \* the endpoints that are SLCAN adapters
  InitString,      \* the SLCAN endpoints with an init command
  Faulty,          \* endpoints whose driver may throw
  SeqMax,          \* H9Frame::SEQNUM_MAX_VALUE
  Forwarding,      \* Bus::_forwarding
  Requests,        \* the frames callers send: records [type, raw]
  EventQueueSize,  \* Epoll::event_queue_size
  MaxRx,           \* bound: frames arrived and not yet delivered
  NoFrame,         \* no current frame
  InitCmd          \* the init command as an item of the serial line

Endpoints == 1..N
Frames == Callers \cup RxFrames

\* The frame types to which recv_thread_send gives a sequence number.
SequencedTypes ==
  {"RES1", "PAGE_START", "QUIT_BOOTLOADER", "PAGE_FILL", "BOOTLOADER_TURNED_ON",
   "SET_REG", "GET_REG", "SET_BIT", "CLEAR_BIT", "NODE_UPGRADE", "NODE_RESET"}

ASSUME ConstantsAssumption ==
  /\ IsFiniteSet(Callers)
  /\ Callers \cap RxFrames = {}
  /\ NoFrame \notin Frames
  /\ InitCmd \notin Frames
  /\ N \in Nat
  /\ Slcan \subseteq Endpoints
  /\ InitString \subseteq Slcan
  /\ Faulty \subseteq Endpoints
  /\ SeqMax \in Nat
  /\ Forwarding \in BOOLEAN
  /\ Requests \subseteq [type : STRING, raw : BOOLEAN]
  /\ EventQueueSize \in Nat \ {0}
  /\ MaxRx \in Nat

VARIABLES
  send_queue,     \* frames pushed by callers, under send_queue_mtx
  forward_queue,  \* received frames to forward; bus thread only
  async,          \* an edge of the eventfd not yet reported by epoll_wait
  next_seqnum,
  req,            \* of a caller's BusFrame: its type and _raw
  origin,         \* of a received BusFrame: the endpoint it came from
  seqnum,         \* H9Frame::_seqnum as given by the bus; 0 when not given
  active,         \* the frames whose promise is activated (_activate_promise)
  sent,           \* BusFrame::_send_counter
  failed,         \* BusFrame::_send_fail_counter
  sets,           \* how often the promise of a frame was set
  by,             \* history: the endpoints that acknowledged a frame
  pending,        \* BusEndpoint::pending_frames
  psc,            \* SlcanDriver::pending_send_count
  wire,           \* external: what the serial line holds for the adapter
  answers,        \* external: the adapter's answers not yet read
  rx,             \* external: number of frames not yet read per socket
  caller,         \* where each caller is in send_frame
  pc,             \* where the bus thread is in recv_thread
  events,         \* what the last epoll_wait reported; 0 is the eventfd
  ep,             \* the endpoint the bus thread's for loop is at
  cur,            \* the frame being sent or forwarded
  ret,            \* "some queue was not empty" of the drain loop
  inbuf           \* frames decoded by the current read, not yet delivered

lineVars  == <<wire, answers, rx>>
ackVars   == <<sent, failed, sets, by>>
frameVars == <<req, origin, seqnum, active, ackVars>>
vars == <<send_queue, forward_queue, async, next_seqnum, frameVars, pending, psc,
          lineVars, caller, pc, events, ep, cur, ret, inbuf>>

Async == 0
Sources == {Async} \cup Endpoints

NoRequest == [type |-> "NOP", raw |-> FALSE]

Init ==
  /\ send_queue = <<>>
  /\ forward_queue = <<>>
  /\ async = FALSE
  /\ next_seqnum = 0
  /\ req = [c \in Callers |-> NoRequest]
  /\ origin = [f \in RxFrames |-> Async]
  /\ seqnum = [c \in Callers |-> 0]
  /\ active = {}
  /\ sent = [f \in Frames |-> 0]
  /\ failed = [f \in Frames |-> 0]
  /\ sets = [f \in Frames |-> 0]
  /\ by = [f \in Frames |-> {}]
  /\ pending = [e \in Endpoints |-> <<>>]
  /\ psc = [e \in Endpoints |-> 0]
  /\ wire = [e \in Endpoints |-> IF e \in InitString THEN <<InitCmd>> ELSE <<>>]
  /\ answers = [e \in Endpoints |-> <<>>]
  /\ rx = [e \in Endpoints |-> 0]
  /\ caller = [c \in Callers |-> "idle"]
  /\ pc = "wait"
  /\ events = {}
  /\ ep = 1
  /\ cur = NoFrame
  /\ ret = FALSE
  /\ inbuf = 0

-----------------------------------------------------------------------------
(* BusFrame. *)

\* Mutant: the promise of the previous frame is kept.
NewFrameKeepsPromise(f) ==
  /\ sent' = [sent EXCEPT ![f] = 0]
  /\ failed' = [failed EXCEPT ![f] = 0]
  /\ by' = [by EXCEPT ![f] = {}]
  /\ UNCHANGED <<active, sets>>

\* BusFrame::BusFrame: counters at zero, the promise neither activated nor set.
NewFrame(f) ==
  /\ active' = active \ {f}
  /\ sent' = [sent EXCEPT ![f] = 0]
  /\ failed' = [failed EXCEPT ![f] = 0]
  /\ sets' = [sets EXCEPT ![f] = 0]
  /\ by' = [by EXCEPT ![f] = {}]

\* Mutants: one endpoint too early, one too late.
SentFinishEarly(f) == sent[f] + failed[f] + 1 >= N - 1
SentFinishLate(f) == sent[f] + failed[f] + 1 > N

\* is_sent_finish, once the acknowledgement being counted is included.
SentFinish(f) == sent[f] + failed[f] + 1 >= N

\* inc_send_counter or inc_send_fail_counter, on behalf of endpoint e: the promise
\* of an activated frame is set when the last of the N endpoints acknowledges.
Ack(f, e, ok) ==
  /\ sent' = IF ok THEN [sent EXCEPT ![f] = @ + 1] ELSE sent
  /\ failed' = IF ok THEN failed ELSE [failed EXCEPT ![f] = @ + 1]
  /\ sets' = IF f \in active /\ SentFinish(f) THEN [sets EXCEPT ![f] = @ + 1] ELSE sets
  /\ by' = [by EXCEPT ![f] = @ \cup {e}]

-----------------------------------------------------------------------------
(* The callers' side of send_frame. *)

\* send_frame_noblock up to the unlock: the push and the emptiness test are
\* atomic, the trigger comes after the mutex is released.
SendFrame(c, r) ==
  /\ pc # "aborted"
  /\ caller[c] = "idle"
  /\ NewFrame(c)
  /\ req' = [req EXCEPT ![c] = r]
  /\ seqnum' = [seqnum EXCEPT ![c] = 0]
  /\ send_queue' = Append(send_queue, c)
  /\ caller' = [caller EXCEPT ![c] = IF send_queue = <<>> THEN "trigger" ELSE "wait"]
  /\ UNCHANGED <<forward_queue, async, next_seqnum, origin, pending, psc, lineVars,
                 pc, events, ep, cur, ret, inbuf>>

\* trigger_async_event, outside the lock.
Trigger(c) ==
  /\ pc # "aborted"
  /\ caller[c] = "trigger"
  /\ async' = TRUE
  /\ caller' = [caller EXCEPT ![c] = "wait"]
  /\ UNCHANGED <<send_queue, forward_queue, next_seqnum, frameVars, pending, psc, lineVars,
                 pc, events, ep, cur, ret, inbuf>>

\* send_future.get() returns once the promise is set.
Return(c) ==
  /\ pc # "aborted"
  /\ caller[c] = "wait"
  /\ sets[c] > 0
  /\ caller' = [caller EXCEPT ![c] = "idle"]
  /\ UNCHANGED <<send_queue, forward_queue, async, next_seqnum, frameVars, pending, psc,
                 lineVars, pc, events, ep, cur, ret, inbuf>>

-----------------------------------------------------------------------------
(* The bus thread: event wait. *)

Ready(s) == IF s = Async THEN async ELSE rx[s] > 0 \/ answers[s] # <<>>

\* The next endpoint after i that the loop over `bus` finds in the events.
LaterEvents(i) == {e \in Endpoints : e > i /\ e \in events}

\* Epoll::wait: reports the ready sources, but no more than EventQueueSize of them.
\* Reporting the edge-triggered eventfd consumes its edge; sockets are level-triggered.
\* An async event takes precedence: the sockets of the same report wait for a later one.
Wait(ev) ==
  /\ pc = "wait"
  /\ ev # {}
  /\ \A s \in ev : Ready(s)
  /\ \/ \A s \in Sources : Ready(s) => s \in ev
     \/ Cardinality(ev) = EventQueueSize
  /\ Cardinality(ev) <= EventQueueSize
  /\ events' = ev
  /\ IF Async \in ev
     THEN /\ async' = FALSE
          /\ pc' = "drain"
          /\ ret' = FALSE
          /\ ep' = 1
     ELSE /\ pc' = "read"
          /\ ep' \in ev
          /\ \A s \in ev : ep' <= s
          /\ UNCHANGED <<async, ret>>
  /\ UNCHANGED <<send_queue, forward_queue, next_seqnum, frameVars, pending, psc, lineVars,
                 caller, cur, inbuf>>

-----------------------------------------------------------------------------
(* The bus thread: draining the queues. *)

\* recv_thread_forward takes a frame, or finds its queue empty.
ForwardPop ==
  /\ pc = "drain"
  /\ IF Forwarding /\ forward_queue # <<>>
     THEN /\ cur' = Head(forward_queue)
          /\ forward_queue' = Tail(forward_queue)
          /\ ret' = TRUE
          /\ pc' = "forward"
     ELSE /\ pc' = "pop"
          /\ UNCHANGED <<cur, forward_queue, ret>>
  /\ ep' = 1
  /\ UNCHANGED <<send_queue, async, next_seqnum, frameVars, pending, psc, lineVars,
                 caller, events, inbuf>>

Numbered(c) == ~req[c].raw /\ req[c].type \in SequencedTypes

\* Mutants: the numbers never wrap, or wrap one too early.
SeqnumUnbounded(s) == s + 1
SeqnumEarlyWrap(s) == IF s + 1 >= SeqMax THEN 0 ELSE s + 1

SeqnumAfter(s) == IF s + 1 > SeqMax THEN 0 ELSE s + 1

\* recv_thread_send up to its loop: pop under the lock, activate the promise,
\* number the frame.
SendPop ==
  /\ pc = "pop"
  /\ send_queue # <<>>
  /\ LET c == Head(send_queue)
     IN /\ cur' = c
        /\ active' = active \cup {c}
        /\ IF Numbered(c)
           THEN /\ seqnum' = [seqnum EXCEPT ![c] = next_seqnum]
                /\ next_seqnum' = SeqnumAfter(next_seqnum)
           ELSE UNCHANGED <<seqnum, next_seqnum>>
  /\ send_queue' = Tail(send_queue)
  /\ ret' = TRUE
  /\ ep' = 1
  /\ pc' = "send"
  /\ UNCHANGED <<forward_queue, async, req, origin, ackVars, pending, psc, lineVars,
                 caller, events, inbuf>>

\* Both queues were found empty in one round: back to epoll_wait.
DrainEnd ==
  /\ pc = "pop"
  /\ send_queue = <<>>
  /\ pc' = IF ret THEN "drain" ELSE "wait"
  /\ ret' = FALSE
  /\ events' = IF ret THEN events ELSE {}
  /\ UNCHANGED <<send_queue, forward_queue, async, next_seqnum, frameVars, pending, psc,
                 lineVars, caller, ep, cur, inbuf>>

\* The loop over `bus` of recv_thread_forward skips the endpoint the frame came from;
\* that of recv_thread_send skips none.
Skips(e) == pc = "forward" /\ origin[cur] = e

\* BusEndpoint::send_frame on an endpoint that is not SLCAN: the driver calls
\* frame_sent_correctly before send_data returns, so the frame just pushed (or an
\* older one still pending) is acknowledged at once.
SendSync ==
  /\ pc \in {"send", "forward"}
  /\ ep \in Endpoints \ Slcan
  /\ ~Skips(ep)
  /\ LET queued == Append(pending[ep], cur)
     IN /\ Ack(Head(queued), ep, TRUE)
        /\ pending' = [pending EXCEPT ![ep] = Tail(queued)]
  /\ ep' = ep + 1
  /\ UNCHANGED <<send_queue, forward_queue, async, next_seqnum, req, origin, seqnum,
                 active, psc, lineVars, caller, pc, events, cur, ret, inbuf>>

\* The same on an SLCAN endpoint: the line is written and the answer awaited.
SendSlcan ==
  /\ pc \in {"send", "forward"}
  /\ ep \in Slcan
  /\ ~Skips(ep)
  /\ pending' = [pending EXCEPT ![ep] = Append(@, cur)]
  /\ psc' = [psc EXCEPT ![ep] = @ + 1]
  /\ wire' = [wire EXCEPT ![ep] = Append(@, cur)]
  /\ ep' = ep + 1
  /\ UNCHANGED <<send_queue, forward_queue, async, next_seqnum, frameVars, answers, rx,
                 caller, pc, events, cur, ret, inbuf>>

SkipOrigin ==
  /\ pc = "forward"
  /\ ep \in Endpoints
  /\ Skips(ep)
  /\ ep' = ep + 1
  /\ UNCHANGED <<send_queue, forward_queue, async, next_seqnum, frameVars, pending, psc,
                 lineVars, caller, pc, events, cur, ret, inbuf>>

\* Mutant: one frame per event; back to epoll_wait without draining the queues.
SendDoneOnce ==
  /\ pc \in {"send", "forward"}
  /\ ep > N
  /\ pc' = "wait"
  /\ ret' = FALSE
  /\ cur' = NoFrame
  /\ ep' = 1
  /\ events' = {}
  /\ UNCHANGED <<send_queue, forward_queue, async, next_seqnum, frameVars, pending, psc,
                 lineVars, caller, inbuf>>

\* The loop over `bus` is done: forwarding goes on with recv_thread_send, sending
\* with the next round.
SendDone ==
  /\ pc \in {"send", "forward"}
  /\ ep > N
  /\ pc' = IF pc = "forward" THEN "pop" ELSE "drain"
  /\ ret' = IF pc = "forward" THEN ret ELSE FALSE
  /\ cur' = NoFrame
  /\ ep' = 1
  /\ UNCHANGED <<send_queue, forward_queue, async, next_seqnum, frameVars, pending, psc,
                 lineVars, caller, events, inbuf>>
-----------------------------------------------------------------------------
(* The bus thread: reading the endpoints of a report without an async event. *)

\* Mutant: a BEL counts the failure but leaves the frame at the head of pending_frames.
ReadAnswerKeepsPending(ok) ==
  /\ pc \in {"read", "more"}
  /\ ep \in Slcan
  /\ answers[ep] # <<>>
  /\ answers' = [answers EXCEPT ![ep] = Tail(@)]
  /\ IF psc[ep] > 0
     THEN /\ psc' = [psc EXCEPT ![ep] = @ - 1]
          /\ Ack(Head(pending[ep]), ep, ok)
          /\ pending' = [pending EXCEPT ![ep] = IF ok THEN Tail(@) ELSE @]
     ELSE UNCHANGED <<psc, ackVars, pending>>
  /\ pc' = "more"
  /\ UNCHANGED <<send_queue, forward_queue, async, next_seqnum, req, origin, seqnum,
                 active, wire, rx, caller, events, ep, cur, ret, inbuf>>

\* SlcanDriver::parse_buf on an answer of the adapter: it is taken for the answer
\* to the oldest pending frame, and dropped when no frame is pending. ok: CR, not BEL.
ReadAnswer(ok) ==
  /\ pc \in {"read", "more"}
  /\ ep \in Slcan
  /\ answers[ep] # <<>>
  /\ answers' = [answers EXCEPT ![ep] = Tail(@)]
  /\ IF psc[ep] > 0
     THEN /\ psc' = [psc EXCEPT ![ep] = @ - 1]
          /\ Ack(Head(pending[ep]), ep, ok)
          /\ pending' = [pending EXCEPT ![ep] = Tail(@)]
     ELSE UNCHANGED <<psc, ackVars, pending>>
  /\ pc' = "more"
  /\ UNCHANGED <<send_queue, forward_queue, async, next_seqnum, req, origin, seqnum,
                 active, wire, rx, caller, events, ep, cur, ret, inbuf>>

\* recv_data decodes a frame. One read of the serial line may hold several
\* messages, a datagram holds one.
ReadFrame ==
  /\ pc \in {"read", "more"}
  /\ ep \in Endpoints
  /\ rx[ep] > 0
  /\ rx' = [rx EXCEPT ![ep] = @ - 1]
  /\ inbuf' = inbuf + 1
  /\ pc' = IF ep \in Slcan THEN "more" ELSE "deliver"
  /\ UNCHANGED <<send_queue, forward_queue, async, next_seqnum, frameVars, pending, psc,
                 wire, answers, caller, events, ep, cur, ret>>

\* The end of what one read of the serial line returned.
ReadEnd ==
  /\ pc = "more"
  /\ pc' = "deliver"
  /\ UNCHANGED <<send_queue, forward_queue, async, next_seqnum, frameVars, pending, psc,
                 lineVars, caller, events, ep, cur, ret, inbuf>>

\* The slots no queue refers to.
InUse(f) ==
  \/ f = cur
  \/ \E i \in DOMAIN forward_queue : forward_queue[i] = f
  \/ \E e \in Endpoints : \E i \in DOMAIN pending[e] : pending[e][i] = f
FreeSlots == {f \in RxFrames : ~InUse(f)}

\* One round of the do-while of recv_thread: the observers are told; with forwarding
\* on, the frame is queued and the eventfd triggered if the queue was empty.
Deliver ==
  /\ pc = "deliver"
  /\ inbuf > 0
  /\ IF Forwarding
     THEN \E f \in FreeSlots :
            /\ NewFrame(f)
            /\ origin' = [origin EXCEPT ![f] = ep]
            /\ forward_queue' = Append(forward_queue, f)
            /\ async' = (async \/ forward_queue = <<>>)
     ELSE UNCHANGED <<origin, active, ackVars, forward_queue, async>>
  /\ inbuf' = inbuf - 1
  /\ UNCHANGED <<send_queue, next_seqnum, req, seqnum, pending, psc, lineVars, caller,
                 pc, events, ep, cur, ret>>

\* The endpoint is read; on to the next one of the report, or back to epoll_wait.
ReadDone ==
  /\ pc = "deliver"
  /\ inbuf = 0
  /\ IF LaterEvents(ep) = {}
     THEN /\ pc' = "wait"
          /\ ep' = 1
          /\ events' = {}
     ELSE /\ pc' = "read"
          /\ ep' \in LaterEvents(ep)
          /\ \A e \in LaterEvents(ep) : ep' <= e
          /\ UNCHANGED events
  /\ UNCHANGED <<send_queue, forward_queue, async, next_seqnum, frameVars, pending, psc,
                 lineVars, caller, cur, ret, inbuf>>

\* A driver's send or receive throws: recv_thread_send does not catch it and
\* recv_thread calls abort, so the daemon ends either way.
DriverThrows ==
  /\ pc \in {"send", "forward", "read"}
  /\ ep \in Faulty
  /\ pc' = "aborted"
  /\ UNCHANGED <<send_queue, forward_queue, async, next_seqnum, frameVars, pending, psc,
                 lineVars, caller, events, ep, cur, ret, inbuf>>

BusThread ==
  \/ \E ev \in SUBSET Sources : Wait(ev)
  \/ ForwardPop \/ SendPop \/ DrainEnd
  \/ SendSync \/ SendSlcan \/ SkipOrigin \/ SendDone
  \/ \E ok \in BOOLEAN : ReadAnswer(ok)
  \/ ReadFrame \/ ReadEnd \/ Deliver \/ ReadDone

-----------------------------------------------------------------------------
(* The outside of the bus. *)

\* The adapter carries out what it was told and answers. Whether with CR or with BEL
\* is left open until the answer is read.
AdapterAnswers(e) ==
  /\ pc # "aborted"
  /\ wire[e] # <<>>
  /\ wire' = [wire EXCEPT ![e] = Tail(@)]
  /\ answers' = [answers EXCEPT ![e] = Append(@, Head(wire[e]))]
  /\ UNCHANGED <<send_queue, forward_queue, async, next_seqnum, frameVars, pending, psc,
                 rx, caller, pc, events, ep, cur, ret, inbuf>>

\* Frames read or waiting to be read: with forwarding on each will need a slot.
Unread == inbuf + MapThenSumSet(LAMBDA e : rx[e], Endpoints)

\* A frame arrives at a socket. MaxRx and the number of slots bound what is unread.
Arrive(e) ==
  /\ pc # "aborted"
  /\ Unread < MaxRx
  /\ Forwarding => Unread < Cardinality(FreeSlots)
  /\ rx' = [rx EXCEPT ![e] = @ + 1]
  /\ UNCHANGED <<send_queue, forward_queue, async, next_seqnum, frameVars, pending, psc,
                 wire, answers, caller, pc, events, ep, cur, ret, inbuf>>

Next ==
  \/ \E c \in Callers : (\E r \in Requests : SendFrame(c, r)) \/ Trigger(c) \/ Return(c)
  \/ BusThread
  \/ DriverThrows
  \/ \E e \in Endpoints : AdapterAnswers(e) \/ Arrive(e)

Spec == Init /\ [][Next]_vars

\* The bus thread and the callers are threads of a running process; an adapter
\* answers what it is sent; epoll serves its ready list first come, first served, so
\* a source that stays ready, or becomes ready again and again, is reported; the
\* bytes of a serial line are read in order, so frames do not overtake an answer
\* for ever.
Fairness ==
  /\ WF_vars(BusThread)
  /\ \A c \in Callers : WF_vars(Trigger(c)) /\ WF_vars(Return(c))
  /\ \A e \in Slcan : WF_vars(AdapterAnswers(e))
  /\ \A s \in {Async} \cup Slcan : SF_vars(\E ev \in SUBSET Sources : s \in ev /\ Wait(ev))
  /\ \A e \in Slcan : SF_vars(ep = e /\ \E ok \in BOOLEAN : ReadAnswer(ok))

FairSpec == Spec /\ Fairness

-----------------------------------------------------------------------------
(* Properties. *)

PCs == {"wait", "drain", "pop", "forward", "send", "read", "more", "deliver", "aborted"}

\* The variables have the types the code gives them; next_seqnum stays within the
\* five bits of the CAN identifier.
TypeOK ==
  /\ send_queue \in Seq(Callers)
  /\ forward_queue \in Seq(RxFrames)
  /\ async \in BOOLEAN
  /\ next_seqnum \in 0..SeqMax
  /\ req \in [Callers -> Requests \cup {NoRequest}]
  /\ origin \in [RxFrames -> Sources]
  /\ seqnum \in [Callers -> 0..SeqMax]
  /\ active \subseteq Callers
  /\ sent \in [Frames -> Nat]
  /\ failed \in [Frames -> Nat]
  /\ sets \in [Frames -> Nat]
  /\ by \in [Frames -> SUBSET Endpoints]
  /\ pending \in [Endpoints -> Seq(Frames)]
  /\ psc \in [Endpoints -> Nat]
  /\ wire \in [Endpoints -> Seq(Frames \cup {InitCmd})]
  /\ answers \in [Endpoints -> Seq(Frames \cup {InitCmd})]
  /\ rx \in [Endpoints -> Nat]
  /\ caller \in [Callers -> {"idle", "trigger", "wait"}]
  /\ pc \in PCs
  /\ events \subseteq Sources
  /\ ep \in 1..(N + 1)
  /\ cur \in Frames \cup {NoFrame}
  /\ ret \in BOOLEAN
  /\ inbuf \in Nat

\* The eventfd is triggered outside the lock and only by the caller that found the
\* queue empty; still no frame can sit in send_queue with the bus thread asleep
\* and nobody about to wake it.
NoLostWakeup ==
  send_queue # <<>> =>
    \/ async
    \/ pc \in {"drain", "pop", "forward", "send", "aborted"}
    \/ \E c \in Callers : caller[c] = "trigger"

\* The same for forward_queue, which the bus thread fills itself while it reads
\* sockets: the edge it leaves behind, or the drain loop it is in, empties it.
NoLostForward ==
  forward_queue # <<>> =>
    \/ async
    \/ pc \in {"drain", "pop", "forward", "send", "aborted"}

\* The promise of a frame is set at most once (a second set_value throws
\* std::future_error, which nothing catches), for a sent frame only, and
\* only when each endpoint acknowledged the frame.
PromiseSetOnceComplete ==
  \A f \in Frames : sets[f] > 0 =>
    /\ sets[f] = 1
    /\ f \in Callers
    /\ by[f] = Endpoints

\* The answer of an SLCAN adapter that the driver will count for the oldest
\* pending frame is the adapter's answer to that frame.
AckIsAboutFrame ==
  \A e \in Slcan :
    answers[e] # <<>> /\ psc[e] > 0 => Head(answers[e]) = Head(pending[e])

\* Frames that were given a number and that some endpoint has not acknowledged.
Outstanding ==
  {c \in Callers : /\ caller[c] # "idle"
                   /\ c \in active
                   /\ sets[c] = 0
                   /\ Numbered(c)}

\* Two requests in flight never carry the same number, as long as no more threads
\* send than there are numbers: send_frame blocks, and every endpoint acknowledges
\* in order, so the numbers cannot lap an unacknowledged frame.
DistinctSeqnums ==
  Cardinality(Callers) <= SeqMax + 1 =>
    \A c, d \in Outstanding : c # d => seqnum[c] # seqnum[d]

\* Every call of send_frame returns, whatever the other threads and the sockets do.
SendReturns ==
  \A c \in Callers : caller[c] # "idle" ~> caller[c] = "idle"

\* Every received frame leaves the forward queue.
ForwardHappens ==
  \A f \in RxFrames :
    (\E i \in DOMAIN forward_queue : forward_queue[i] = f)
      ~> ~(\E i \in DOMAIN forward_queue : forward_queue[i] = f)

-----------------------------------------------------------------------------
(* What the callers see of the bus. *)

CallStatus(c) ==
  CASE caller[c] = "idle" -> "idle"
    [] caller[c] # "idle" /\ c \notin active -> "queued"
    [] caller[c] # "idle" /\ c \in active /\ sets[c] = 0 -> "sent"
    [] OTHER -> "done"

CallNumber(c) == IF caller[c] # "idle" THEN seqnum[c] ELSE 0

Service == INSTANCE SendService WITH
  fifo   <- send_queue,
  status <- [c \in Callers |-> CallStatus(c)],
  number <- [c \in Callers |-> CallNumber(c)],
  next   <- next_seqnum

\* The bus implements the send service: first in first out, consecutive numbers
\* modulo 32, one acknowledgement per call.
ImplementsSendService == Service!Spec
=============================================================================

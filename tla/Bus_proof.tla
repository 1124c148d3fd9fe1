----------------------------- MODULE Bus_proof -----------------------------
(***************************************************************************)
(* Safety of the data bus for any number of callers, endpoints, received   *)
(* frames and sequence numbers: types and wakeups; and then the            *)
(* acknowledgements: the promise of a frame, the pairing of answers with   *)
(* frames, the numbers in flight, and the send service the callers see.    *)
(***************************************************************************)
EXTENDS Bus, FiniteSetTheorems, SequenceTheorems, TLAPS

\* What the bus thread holds at each point of its loop.
CurOK ==
  /\ pc = "send" => cur \in Callers
  /\ pc = "forward" => cur \in RxFrames
  /\ pc \in {"read", "more", "deliver"} => ep \in Endpoints

\* A driver that acknowledges at once leaves nothing pending; an SLCAN driver
\* counts exactly the frames its endpoint holds.
PendingOK ==
  /\ \A e \in Slcan : psc[e] = Len(pending[e])
  /\ \A e \in Endpoints \ Slcan : pending[e] = <<>>

\* The assumptions on the constants that the proofs use.
LEMMA Constants ==
  /\ N \in Nat
  /\ SeqMax \in Nat
  /\ Slcan \subseteq Endpoints
  /\ InitString \subseteq Slcan
BY ConstantsAssumption

\* The inductive strengthening of TypeOK.
TypeInv == TypeOK /\ CurOK /\ PendingOK

\* The daemon starts well typed, with nothing pending.
LEMMA InitTypeInv == Init => TypeInv
<1> SUFFICES ASSUME Init PROVE TypeInv
  OBVIOUS
<1> USE Constants
<1>1. /\ origin \in [RxFrames -> Sources]
      /\ active \subseteq Callers
      /\ by \in [Frames -> SUBSET Endpoints]
      /\ async \in BOOLEAN
      /\ ret \in BOOLEAN
      /\ caller \in [Callers -> {"idle", "trigger", "wait"}]
      /\ pc \in PCs
      /\ events \subseteq Sources
      /\ cur \in Frames \cup {NoFrame}
  BY Zenon DEF Init, PCs, Sources
<1>2. /\ seqnum \in [Callers -> 0..SeqMax]
      /\ sent \in [Frames -> Nat]
      /\ failed \in [Frames -> Nat]
      /\ sets \in [Frames -> Nat]
      /\ next_seqnum \in 0..SeqMax
      /\ psc \in [Endpoints -> Nat]
      /\ rx \in [Endpoints -> Nat]
      /\ ep \in 1..(N + 1)
      /\ inbuf \in Nat
  BY DEF Init
<1>3. req \in [Callers -> Requests \cup {NoRequest}]
  BY DEF Init
<1>4. wire \in [Endpoints -> Seq(Frames \cup {InitCmd})]
  <2>1. <<InitCmd>> \in Seq(Frames \cup {InitCmd}) /\ <<>> \in Seq(Frames \cup {InitCmd})
    OBVIOUS
  <2>2. QED
    BY <2>1 DEF Init
<1>5. /\ send_queue \in Seq(Callers)
      /\ forward_queue \in Seq(RxFrames)
      /\ pending \in [Endpoints -> Seq(Frames)]
      /\ answers \in [Endpoints -> Seq(Frames \cup {InitCmd})]
  BY DEF Init
<1>6. CurOK /\ PendingOK
  BY DEF Init, CurOK, PendingOK
<1>7. QED
  BY <1>1, <1>2, <1>3, <1>4, <1>5, <1>6, Zenon DEF TypeOK, TypeInv

\* A new BusFrame has well-typed counters.
LEMMA NewFrameType ==
  ASSUME TypeOK, NEW f \in Frames, NewFrame(f)
  PROVE  /\ (active \subseteq Callers)'
         /\ (sent \in [Frames -> Nat])'
         /\ (failed \in [Frames -> Nat])'
         /\ (sets \in [Frames -> Nat])'
         /\ (by \in [Frames -> SUBSET Endpoints])'
BY DEF TypeOK, NewFrame

\* Counting an acknowledgement keeps the counters well typed.
LEMMA AckType ==
  ASSUME TypeOK, NEW f \in Frames, NEW e \in Endpoints, NEW ok \in BOOLEAN, Ack(f, e, ok)
  PROVE  /\ (sent \in [Frames -> Nat])'
         /\ (failed \in [Frames -> Nat])'
         /\ (sets \in [Frames -> Nat])'
         /\ (by \in [Frames -> SUBSET Endpoints])'
<1>1. /\ sent \in [Frames -> Nat]
      /\ failed \in [Frames -> Nat]
      /\ sets \in [Frames -> Nat]
      /\ by \in [Frames -> SUBSET Endpoints]
  BY DEF TypeOK
<1>2. sent' \in [Frames -> Nat]
  BY <1>1 DEF Ack
<1>3. failed' \in [Frames -> Nat]
  BY <1>1 DEF Ack
<1>4. sets' \in [Frames -> Nat]
  BY <1>1 DEF Ack
<1>5. by' \in [Frames -> SUBSET Endpoints]
  BY <1>1 DEF Ack
<1>6. QED
  BY <1>2, <1>3, <1>4, <1>5

\* No step of a caller, of the bus thread or of the outside breaks the type invariant.
LEMMA NextTypeInv == TypeInv /\ [Next]_vars => TypeInv'
<1> SUFFICES ASSUME TypeInv, [Next]_vars PROVE TypeInv'
  OBVIOUS
<1>a. pending \in [Endpoints -> Seq(Frames)] /\ psc \in [Endpoints -> Nat]
  BY DEF TypeInv, TypeOK
<1>b. /\ wire \in [Endpoints -> Seq(Frames \cup {InitCmd})]
      /\ answers \in [Endpoints -> Seq(Frames \cup {InitCmd})]
      /\ rx \in [Endpoints -> Nat]
      /\ inbuf \in Nat
  BY DEF TypeInv, TypeOK
<1>c. next_seqnum \in 0..SeqMax /\ seqnum \in [Callers -> 0..SeqMax]
  BY DEF TypeInv, TypeOK
<1>d. PendingOK
  BY DEF TypeInv
<1>e. ep \in 1..(N + 1) /\ events \subseteq Sources /\ ret \in BOOLEAN
  BY DEF TypeInv, TypeOK
<1> USE DEF TypeInv, CurOK, PCs, lineVars, frameVars, ackVars
<1>1. ASSUME NEW c \in Callers, NEW r \in Requests, SendFrame(c, r)
      PROVE  TypeInv'
  <2>1. c \in Frames /\ 0 \in 0..SeqMax
    BY Constants DEF Frames
  <2>2. NewFrame(c)
    BY <1>1 DEF SendFrame
  <2>3. /\ send_queue' \in Seq(Callers)
        /\ caller' \in [Callers -> {"idle", "trigger", "wait"}]
        /\ req' \in [Callers -> Requests \cup {NoRequest}]
        /\ seqnum' \in [Callers -> 0..SeqMax]
    BY <1>1, <2>1 DEF SendFrame, TypeOK, PendingOK
  <2>4. QED
    BY <1>1, <2>1, <2>2, <2>3, NewFrameType DEF SendFrame, TypeOK, PendingOK
<1>2. ASSUME NEW c \in Callers, Trigger(c) PROVE TypeInv'
  BY <1>2 DEF Trigger, TypeOK, PendingOK
<1>3. ASSUME NEW c \in Callers, Return(c) PROVE TypeInv'
  BY <1>3 DEF Return, TypeOK, PendingOK
<1>4. ASSUME NEW ev \in SUBSET Sources, Wait(ev) PROVE TypeInv'
  <2>1. ep' \in 1..(N + 1) /\ (pc' = "read" => ep' \in Endpoints)
    <3>1. (ep' = 1 /\ pc' # "read") \/ (ep' \in ev /\ Async \notin ev)
      BY <1>4, Zenon DEF Wait
    <3>2. \A s \in Sources : s # Async => s \in Endpoints /\ s \in 1..(N + 1)
      BY Constants DEF Sources, Endpoints
    <3>3. 1 \in 1..(N + 1)
      BY Constants
    <3>4. QED
      BY <3>1, <3>2, <3>3, Zenon
  <2>2. async' \in BOOLEAN /\ ret' \in BOOLEAN /\ pc' \in {"drain", "read"}
    BY <1>4, Zenon DEF Wait, TypeOK, PendingOK
  <2>3. QED
    BY <1>4, <2>1, <2>2 DEF Wait, TypeOK, PendingOK
<1>5. ASSUME ForwardPop PROVE TypeInv'
  <2>1. CASE Forwarding /\ forward_queue # <<>>
    <3>1. /\ forward_queue' = Tail(forward_queue)
          /\ cur' = Head(forward_queue)
          /\ ret' = TRUE /\ pc' = "forward"
      BY <1>5, <2>1, Zenon DEF ForwardPop
    <3>2. forward_queue' \in Seq(RxFrames) /\ cur' \in RxFrames
      BY <2>1, <3>1 DEF TypeOK
    <3>3. ep' \in 1..(N + 1)
      BY <1>5, Constants DEF ForwardPop
    <3>4. QED
      BY <1>5, <3>1, <3>2, <3>3 DEF ForwardPop, TypeOK, Frames, PendingOK
  <2>2. CASE ~(Forwarding /\ forward_queue # <<>>)
    <3>1. pc' = "pop" /\ UNCHANGED <<cur, forward_queue, ret>>
      BY <1>5, <2>2, Zenon DEF ForwardPop
    <3>2. ep' \in 1..(N + 1)
      BY <1>5, Constants DEF ForwardPop
    <3>3. QED
      BY <1>5, <3>1, <3>2 DEF ForwardPop, TypeOK, PendingOK
  <2>3. QED
    BY <2>1, <2>2
<1>6. ASSUME SendPop PROVE TypeInv'
  <2>1. /\ cur' \in Callers
        /\ send_queue' \in Seq(Callers)
        /\ active' \subseteq Callers
    BY <1>6 DEF SendPop, TypeOK, PendingOK
  <2>2. seqnum' \in [Callers -> 0..SeqMax] /\ next_seqnum' \in 0..SeqMax
    <3>1. SeqnumAfter(next_seqnum) \in 0..SeqMax
      BY <1>c, Constants DEF SeqnumAfter
    <3>2. Head(send_queue) \in Callers
      BY <1>6 DEF SendPop, TypeOK, PendingOK
    <3>3. QED
      BY <1>6, <1>c, <3>1, <3>2 DEF SendPop
  <2>3. ep' \in 1..(N + 1) /\ pc' = "send" /\ ret' = TRUE
    BY <1>6, Constants DEF SendPop
  <2>4. QED
    BY <1>6, <2>1, <2>2, <2>3 DEF SendPop, TypeOK, Frames, PendingOK
<1>7. ASSUME DrainEnd PROVE TypeInv'
  BY <1>7 DEF DrainEnd, TypeOK, PendingOK
<1>8. ASSUME SendSync PROVE TypeInv'
  <2> DEFINE q == Append(pending[ep], cur)
  <2>1. cur \in Frames /\ ep \in Endpoints /\ ep + 1 \in 1..(N + 1) /\ pending[ep] = <<>>
    BY <1>8, <1>d, Constants DEF SendSync, Endpoints, Frames, PendingOK
  <2>2. q = <<cur>> /\ Head(q) = cur /\ Tail(q) = <<>>
    BY <2>1
  <2>3. Ack(cur, ep, TRUE) /\ pending' = [pending EXCEPT ![ep] = <<>>]
    BY <1>8, <2>2 DEF SendSync
  <2>4. pending' \in [Endpoints -> Seq(Frames)] /\ PendingOK'
    BY <1>8, <2>1, <2>3, Constants DEF SendSync, TypeOK, PendingOK
  <2>5. QED
    BY <1>8, <2>1, <2>3, <2>4, AckType DEF SendSync, TypeOK, PendingOK
<1>9. ASSUME SendSlcan PROVE TypeInv'
  <2>1. cur \in Frames /\ ep \in Endpoints /\ ep + 1 \in 1..(N + 1)
    BY <1>9, Constants DEF SendSlcan, Endpoints, Frames
  <2>2. /\ pending' \in [Endpoints -> Seq(Frames)]
        /\ psc' \in [Endpoints -> Nat]
        /\ wire' \in [Endpoints -> Seq(Frames \cup {InitCmd})]
    BY <1>9, <1>a, <1>b, <2>1 DEF SendSlcan
  <2>3. PendingOK'
    BY <1>9, <1>a, <1>d, <2>1, Constants DEF SendSlcan, PendingOK
  <2>4. QED
    BY <1>9, <2>1, <2>2, <2>3 DEF SendSlcan, TypeOK, PendingOK
<1>10. ASSUME SkipOrigin PROVE TypeInv'
  <2>1. ep' \in 1..(N + 1)
    BY <1>10, Constants DEF SkipOrigin, Endpoints
  <2>2. QED
    BY <1>10, <2>1 DEF SkipOrigin, TypeOK, PendingOK
<1>11. ASSUME SendDone PROVE TypeInv'
  <2>1. ep' \in 1..(N + 1)
    BY <1>11, Constants DEF SendDone
  <2>2. ret' \in BOOLEAN /\ pc' \in {"pop", "drain"}
    BY <1>11, <1>e, Zenon DEF SendDone
  <2>3. QED
    BY <1>11, <2>1, <2>2 DEF SendDone, TypeOK, PendingOK
<1>12. ASSUME NEW ok \in BOOLEAN, ReadAnswer(ok) PROVE TypeInv'
  <2>1. ep \in Endpoints
    BY <1>12, Constants DEF ReadAnswer
  <2>2. /\ answers' \in [Endpoints -> Seq(Frames \cup {InitCmd})]
    BY <1>12, <1>b, <2>1 DEF ReadAnswer
  <2>3. CASE psc[ep] > 0
    <3>1. /\ psc' = [psc EXCEPT ![ep] = @ - 1]
          /\ Ack(Head(pending[ep]), ep, ok)
          /\ pending' = [pending EXCEPT ![ep] = Tail(@)]
      BY <1>12, <2>3 DEF ReadAnswer
    <3>2. pending[ep] # <<>> /\ Head(pending[ep]) \in Frames
      BY <1>12, <2>1, <2>3 DEF ReadAnswer, TypeOK, PendingOK
    <3>3. psc' \in [Endpoints -> Nat] /\ pending' \in [Endpoints -> Seq(Frames)]
      BY <1>a, <2>1, <2>3, <3>1, <3>2
    <3>4. PendingOK'
      <4>1. \A e \in Slcan : psc'[e] = Len(pending'[e])
        BY <1>12, <1>a, <1>d, <2>1, <3>1, <3>2, Constants DEF ReadAnswer, PendingOK
      <4>2. \A e \in Endpoints \ Slcan : pending'[e] = <<>>
        BY <1>12, <1>a, <1>d, <2>1, <3>1, Constants DEF ReadAnswer, PendingOK
      <4>3. QED
        BY <4>1, <4>2 DEF PendingOK
    <3>5. /\ (sent \in [Frames -> Nat])'
          /\ (failed \in [Frames -> Nat])'
          /\ (sets \in [Frames -> Nat])'
          /\ (by \in [Frames -> SUBSET Endpoints])'
      BY <2>1, <3>1, <3>2, AckType
    <3>6. QED
      BY <1>12, <2>2, <3>3, <3>4, <3>5 DEF ReadAnswer, TypeOK, PendingOK
  <2>4. CASE ~(psc[ep] > 0)
    BY <1>12, <2>2, <2>4 DEF ReadAnswer, TypeOK, PendingOK
  <2>5. QED
    BY <2>3, <2>4
<1>13. ASSUME ReadFrame PROVE TypeInv'
  <2>1. rx' \in [Endpoints -> Nat] /\ inbuf' \in Nat
    BY <1>13, <1>b DEF ReadFrame
  <2>2. pc' \in {"more", "deliver"}
    BY <1>13 DEF ReadFrame
  <2>3. QED
    BY <1>13, <2>1, <2>2 DEF ReadFrame, TypeOK, PendingOK
<1>14. ASSUME ReadEnd PROVE TypeInv'
  BY <1>14 DEF ReadEnd, TypeOK, PendingOK
<1>15. ASSUME Deliver PROVE TypeInv'
  <2>1. inbuf' \in Nat
    BY <1>15 DEF Deliver, TypeOK, PendingOK
  <2>0. ep \in Sources
    BY <1>15 DEF Deliver, Sources
  <2>2. CASE Forwarding
    <3>1. PICK f \in FreeSlots :
            /\ NewFrame(f)
            /\ origin' = [origin EXCEPT ![f] = ep]
            /\ forward_queue' = Append(forward_queue, f)
            /\ async' = (async \/ forward_queue = <<>>)
      BY <1>15, <2>2, Zenon DEF Deliver
    <3>2. f \in RxFrames /\ f \in Frames
      BY DEF FreeSlots, Frames
    <3>3. /\ forward_queue' \in Seq(RxFrames)
          /\ origin' \in [RxFrames -> Sources]
          /\ async' \in BOOLEAN
      BY <3>1, <3>2, <2>0 DEF TypeOK
    <3>4. /\ (active \subseteq Callers)'
          /\ (sent \in [Frames -> Nat])'
          /\ (failed \in [Frames -> Nat])'
          /\ (sets \in [Frames -> Nat])'
          /\ (by \in [Frames -> SUBSET Endpoints])'
      BY <3>1, <3>2, NewFrameType
    <3>5. QED
      BY <1>15, <2>1, <3>3, <3>4 DEF Deliver, TypeOK, PendingOK
  <2>3. CASE ~Forwarding
    <3>1. UNCHANGED <<origin, active, ackVars, forward_queue, async>>
      BY <1>15, <2>3, Zenon DEF Deliver
    <3>2. QED
      BY <1>15, <2>1, <3>1 DEF Deliver, TypeOK, PendingOK
  <2>4. QED
    BY <2>2, <2>3
<1>16. ASSUME ReadDone PROVE TypeInv'
  <2>1. /\ ep' \in 1..(N + 1)
        /\ events' \subseteq Sources
        /\ pc' = "read" => ep' \in Endpoints
    BY <1>16, <1>e, Constants DEF ReadDone, LaterEvents, Endpoints
  <2>2. pc' \in {"wait", "read"}
    BY <1>16 DEF ReadDone
  <2>3. QED
    BY <1>16, <2>1, <2>2 DEF ReadDone, TypeOK, PendingOK
<1>17. ASSUME DriverThrows PROVE TypeInv'
  BY <1>17 DEF DriverThrows, TypeOK, PendingOK
<1>18. ASSUME NEW e \in Endpoints, AdapterAnswers(e) PROVE TypeInv'
  <2>1. /\ wire' \in [Endpoints -> Seq(Frames \cup {InitCmd})]
        /\ answers' \in [Endpoints -> Seq(Frames \cup {InitCmd})]
    BY <1>18, <1>b DEF AdapterAnswers
  <2>2. QED
    BY <1>18, <2>1 DEF AdapterAnswers, TypeOK, PendingOK
<1>19. ASSUME NEW e \in Endpoints, Arrive(e) PROVE TypeInv'
  <2>1. rx' \in [Endpoints -> Nat]
    BY <1>19, <1>b DEF Arrive
  <2>2. QED
    BY <1>19, <2>1 DEF Arrive, TypeOK, PendingOK
<1>20. CASE UNCHANGED vars
  BY <1>20 DEF vars, TypeOK, PendingOK
<1>21. QED
  BY <1>1, <1>2, <1>3, <1>4, <1>5, <1>6, <1>7, <1>8, <1>9, <1>10, <1>11, <1>12, <1>13,
     <1>14, <1>15, <1>16, <1>17, <1>18, <1>19, <1>20 DEF Next, BusThread

\* Every variable keeps its type: in particular next_seqnum and the numbers given to
\* frames stay within 0..SeqMax, and a driver never acknowledges out of an empty queue.
THEOREM TypeCorrect == Spec => []TypeOK
<1>1. TypeInv => TypeOK
  BY DEF TypeInv
<1>2. QED
  BY <1>1, InitTypeInv, NextTypeInv, PTL DEF Spec

\* The strengthened type invariant holds throughout, for use in the theorems below.
LEMMA TypeInvariant == Spec => []TypeInv
BY InitTypeInv, NextTypeInv, PTL DEF Spec

-----------------------------------------------------------------------------
(* No lost wakeup. NoLostWakeup is inductive by itself: a caller that finds the  *)
(* queue empty is between its push and its trigger until it has triggered, and   *)
(* the bus thread leaves its drain loop only from a state with an empty queue.   *)

\* No step leaves a frame in send_queue with nobody to wake the bus thread.
LEMMA NextNoLostWakeup == TypeInv /\ NoLostWakeup /\ [Next]_vars => NoLostWakeup'
<1> SUFFICES ASSUME TypeInv, NoLostWakeup, [Next]_vars PROVE NoLostWakeup'
  OBVIOUS
<1>a. send_queue \in Seq(Callers) /\ caller \in [Callers -> {"idle", "trigger", "wait"}]
  BY DEF TypeInv, TypeOK
<1> USE DEF NoLostWakeup
<1>1. ASSUME NEW c \in Callers, NEW r \in Requests, SendFrame(c, r)
      PROVE  NoLostWakeup'
  <2>1. CASE send_queue = <<>>
    <3>1. caller'[c] = "trigger"
      BY <1>1, <1>a, <2>1 DEF SendFrame
    <3>2. QED
      BY <3>1
  <2>2. CASE send_queue # <<>>
    <3>1. \A d \in Callers : caller[d] = "trigger" => caller'[d] = "trigger"
      BY <1>1, <1>a, <2>2 DEF SendFrame
    <3>2. UNCHANGED <<async, pc>>
      BY <1>1 DEF SendFrame
    <3>3. QED
      BY <2>2, <3>1, <3>2
  <2>3. QED
    BY <2>1, <2>2
<1>2. ASSUME NEW c \in Callers, Trigger(c) PROVE NoLostWakeup'
  BY <1>2 DEF Trigger
<1>3. ASSUME NEW c \in Callers, Return(c) PROVE NoLostWakeup'
  <2>1. \A d \in Callers : caller[d] = "trigger" => caller'[d] = "trigger"
    BY <1>3, <1>a DEF Return
  <2>2. UNCHANGED <<async, pc, send_queue>>
    BY <1>3 DEF Return
  <2>3. QED
    BY <2>1, <2>2
<1>4. ASSUME NEW ev \in SUBSET Sources, Wait(ev) PROVE NoLostWakeup'
  <2>1. pc = "wait" /\ UNCHANGED <<send_queue, caller>> /\ (pc' = "drain" \/ UNCHANGED async)
    BY <1>4, Zenon DEF Wait
  <2>2. QED
    BY <2>1
<1>5. ASSUME ForwardPop PROVE NoLostWakeup'
  <2>1. pc' \in {"forward", "pop"}
    BY <1>5, Zenon DEF ForwardPop
  <2>2. QED
    BY <2>1
<1>6. ASSUME SendPop PROVE NoLostWakeup'
  BY <1>6 DEF SendPop
<1>7. ASSUME DrainEnd PROVE NoLostWakeup'
  BY <1>7 DEF DrainEnd
<1>8. ASSUME SendSync \/ SendSlcan \/ SkipOrigin PROVE NoLostWakeup'
  BY <1>8 DEF SendSync, SendSlcan, SkipOrigin
<1>9. ASSUME SendDone PROVE NoLostWakeup'
  <2>1. pc' \in {"pop", "drain"}
    BY <1>9, Zenon DEF SendDone
  <2>2. QED
    BY <2>1
<1>10. ASSUME NEW ok \in BOOLEAN, ReadAnswer(ok) PROVE NoLostWakeup'
  BY <1>10 DEF ReadAnswer
<1>11. ASSUME ReadFrame \/ ReadEnd \/ ReadDone PROVE NoLostWakeup'
  BY <1>11 DEF ReadFrame, ReadEnd, ReadDone
<1>12. ASSUME Deliver PROVE NoLostWakeup'
  <2>1. UNCHANGED <<send_queue, caller, pc>> /\ (async => async')
    BY <1>12, Zenon DEF Deliver
  <2>2. QED
    BY <2>1
<1>13. ASSUME DriverThrows PROVE NoLostWakeup'
  BY <1>13 DEF DriverThrows
<1>14. ASSUME NEW e \in Endpoints, AdapterAnswers(e) \/ Arrive(e) PROVE NoLostWakeup'
  BY <1>14 DEF AdapterAnswers, Arrive
<1>15. CASE UNCHANGED vars
  BY <1>15 DEF vars
<1>16. QED
  BY <1>1, <1>2, <1>3, <1>4, <1>5, <1>6, <1>7, <1>8, <1>9, <1>10, <1>11, <1>12, <1>13,
     <1>14, <1>15 DEF Next, BusThread

\* Bus::send_frame never leaves a frame in send_queue with the bus thread asleep and
\* no trigger under way, although the eventfd is written outside the lock and only by
\* the caller that found the queue empty.
THEOREM WakeupSafe == Spec => []NoLostWakeup
<1>1. Init => NoLostWakeup
  BY DEF Init, NoLostWakeup
<1>2. QED
  BY <1>1, NextNoLostWakeup, TypeInvariant, PTL DEF Spec

-----------------------------------------------------------------------------
(* The forward queue. The drain loop goes back to epoll_wait only after a round in *)
(* which recv_thread_forward found its queue empty: `ret` remembers whether it did. *)

DrainOK ==
  /\ ~Forwarding => forward_queue = <<>>
  /\ pc = "pop" => ret \/ forward_queue = <<>>
  /\ pc = "forward" => ret

\* The inductive strengthening of NoLostForward.
ForwardInv == NoLostForward /\ DrainOK

\* No step leaves a frame in forward_queue with nobody to wake the bus thread.
LEMMA NextForwardInv == TypeInv /\ ForwardInv /\ [Next]_vars => ForwardInv'
<1> SUFFICES ASSUME TypeInv, ForwardInv, [Next]_vars PROVE ForwardInv'
  OBVIOUS
<1>a. forward_queue \in Seq(RxFrames) /\ pc \in PCs
  BY DEF TypeInv, TypeOK
<1> USE DEF ForwardInv, NoLostForward, DrainOK
<1>1. ASSUME NEW c \in Callers, NEW r \in Requests, SendFrame(c, r)
      PROVE  ForwardInv'
  BY <1>1 DEF SendFrame
<1>2. ASSUME NEW c \in Callers, Trigger(c) \/ Return(c) PROVE ForwardInv'
  BY <1>2 DEF Trigger, Return
<1>4. ASSUME NEW ev \in SUBSET Sources, Wait(ev) PROVE ForwardInv'
  <2>1. pc = "wait" /\ UNCHANGED forward_queue
    BY <1>4 DEF Wait
  <2>2. pc' = "drain" \/ (pc' = "read" /\ UNCHANGED async)
    BY <1>4, Zenon DEF Wait
  <2>3. QED
    BY <2>1, <2>2
<1>5. ASSUME ForwardPop PROVE ForwardInv'
  <2>1. CASE Forwarding /\ forward_queue # <<>>
    <3>1. pc' = "forward" /\ ret' = TRUE
      BY <1>5, <2>1, Zenon DEF ForwardPop
    <3>2. QED
      BY <2>1, <3>1
  <2>2. CASE ~(Forwarding /\ forward_queue # <<>>)
    <3>1. pc' = "pop" /\ forward_queue' = forward_queue
      BY <1>5, <2>2, Zenon DEF ForwardPop
    <3>2. QED
      BY <2>2, <3>1
  <2>3. QED
    BY <2>1, <2>2
<1>6. ASSUME SendPop PROVE ForwardInv'
  BY <1>6 DEF SendPop
<1>7. ASSUME DrainEnd PROVE ForwardInv'
  <2>1. (ret /\ pc' = "drain") \/ (~ret /\ pc' = "wait")
    BY <1>7, Zenon DEF DrainEnd
  <2>2. pc = "pop" /\ UNCHANGED forward_queue
    BY <1>7 DEF DrainEnd
  <2>3. QED
    BY <2>1, <2>2
<1>8. ASSUME SendSync \/ SendSlcan \/ SkipOrigin PROVE ForwardInv'
  BY <1>8 DEF SendSync, SendSlcan, SkipOrigin
<1>9. ASSUME SendDone PROVE ForwardInv'
  <2>1. (pc = "forward" /\ pc' = "pop" /\ ret' = ret) \/ pc' = "drain"
    BY <1>9, Zenon DEF SendDone
  <2>2. UNCHANGED forward_queue
    BY <1>9 DEF SendDone
  <2>3. QED
    BY <2>1, <2>2
<1>10. ASSUME NEW ok \in BOOLEAN, ReadAnswer(ok) PROVE ForwardInv'
  BY <1>10 DEF ReadAnswer
<1>11. ASSUME ReadFrame \/ ReadEnd PROVE ForwardInv'
  BY <1>11 DEF ReadFrame, ReadEnd
<1>12. ASSUME Deliver PROVE ForwardInv'
  <2>1. pc = "deliver" /\ UNCHANGED pc
    BY <1>12 DEF Deliver
  <2>2. CASE Forwarding
    <3>1. async' = (async \/ forward_queue = <<>>)
      BY <1>12, <2>2, Zenon DEF Deliver
    <3>2. QED
      BY <2>1, <2>2, <3>1
  <2>3. CASE ~Forwarding
    <3>1. UNCHANGED <<forward_queue, async>>
      BY <1>12, <2>3, Zenon DEF Deliver
    <3>2. QED
      BY <2>1, <3>1
  <2>4. QED
    BY <2>2, <2>3
<1>13. ASSUME ReadDone PROVE ForwardInv'
  <2>1. pc = "deliver" /\ pc' \in {"wait", "read"} /\ UNCHANGED <<forward_queue, async>>
    BY <1>13, Zenon DEF ReadDone
  <2>2. QED
    BY <2>1
<1>14. ASSUME DriverThrows PROVE ForwardInv'
  BY <1>14 DEF DriverThrows
<1>15. ASSUME NEW e \in Endpoints, AdapterAnswers(e) \/ Arrive(e) PROVE ForwardInv'
  BY <1>15 DEF AdapterAnswers, Arrive
<1>16. CASE UNCHANGED vars
  BY <1>16 DEF vars
<1>17. QED
  BY <1>1, <1>2, <1>4, <1>5, <1>6, <1>7, <1>8, <1>9, <1>10, <1>11, <1>12, <1>13,
     <1>14, <1>15, <1>16 DEF Next, BusThread

\* No received frame is left in forward_queue with the bus thread asleep and no
\* event pending: the edge the reading loop leaves behind is consumed only by a
\* drain loop that empties the queue.
THEOREM ForwardWakeupSafe == Spec => []NoLostForward
<1>1. Init => ForwardInv
  BY DEF Init, ForwardInv, NoLostForward, DrainOK
<1>2. ForwardInv => NoLostForward
  BY DEF ForwardInv
<1>3. QED
  BY <1>1, <1>2, NextForwardInv, TypeInvariant, PTL DEF Spec

-----------------------------------------------------------------------------
(* Queues. *)

In(x, s) == \E i \in DOMAIN s : s[i] = x

NoDup(s) == \A i, j \in DOMAIN s : s[i] = s[j] => i = j

Precedes(x, y, s) == \E i, j \in DOMAIN s : i < j /\ s[i] = x /\ s[j] = y

\* The queues at the start.
LEMMA EmptyQueue == NoDup(<<>>) /\ \A x, y : ~In(x, <<>>) /\ ~Precedes(x, y, <<>>)
  BY DEF In, NoDup, Precedes

\* push_back.
LEMMA Pushed ==
  ASSUME NEW S, NEW s \in Seq(S), NEW x \in S
  PROVE  /\ \A y : In(y, Append(s, x)) <=> In(y, s) \/ y = x
         /\ NoDup(s) /\ ~In(x, s) => NoDup(Append(s, x))
         /\ \A y, z : Precedes(y, z, Append(s, x)) <=> Precedes(y, z, s) \/ (In(y, s) /\ z = x)
<1> DEFINE t == Append(s, x)
<1>1. /\ Len(s) \in Nat /\ DOMAIN s = 1..Len(s)
      /\ DOMAIN t = 1..Len(s) + 1 /\ t[Len(s) + 1] = x
      /\ \A i \in 1..Len(s) : t[i] = s[i]
  OBVIOUS
<1> HIDE DEF t
<1>2. \A y : In(y, t) <=> In(y, s) \/ y = x
  BY <1>1 DEF In
<1>3. NoDup(s) /\ ~In(x, s) => NoDup(t)
  BY <1>1 DEF In, NoDup
<1>4. \A y, z : Precedes(y, z, t) <=> Precedes(y, z, s) \/ (In(y, s) /\ z = x)
  BY <1>1 DEF In, Precedes
<1> QED BY <1>2, <1>3, <1>4 DEF t

\* front and pop_front, of a queue that holds nothing twice.
LEMMA Popped ==
  ASSUME NEW S, NEW s \in Seq(S), s # <<>>, NoDup(s)
  PROVE  /\ Head(s) \in S /\ In(Head(s), s)
         /\ \A y : In(y, Tail(s)) <=> In(y, s) /\ y # Head(s)
         /\ NoDup(Tail(s))
         /\ \A y, z : Precedes(y, z, Tail(s)) <=> Precedes(y, z, s) /\ y # Head(s)
         /\ \A y : ~Precedes(y, Head(s), s)
         /\ \A y : In(y, s) /\ y # Head(s) => Precedes(Head(s), y, s)
<1> DEFINE t == Tail(s)
<1>1. /\ Len(s) \in Nat /\ Len(s) > 0 /\ DOMAIN s = 1..Len(s)
      /\ DOMAIN t = 1..Len(s) - 1
      /\ \A i \in 1..Len(s) - 1 : t[i] = s[i + 1]
      /\ Head(s) = s[1] /\ s[1] \in S
  OBVIOUS
<1> HIDE DEF t
<1>2. \A y : In(y, t) <=> In(y, s) /\ y # s[1]
  <2>1. ASSUME NEW y, In(y, t) PROVE In(y, s) /\ y # s[1]
    BY <1>1, <2>1 DEF In, NoDup
  <2>2. ASSUME NEW y, In(y, s), y # s[1] PROVE In(y, t)
    <3>1. PICK i \in 1..Len(s) : s[i] = y
      BY <1>1, <2>2 DEF In
    <3>2. i - 1 \in 1..Len(s) - 1 /\ t[i - 1] = y
      BY <1>1, <2>2, <3>1
    <3> QED BY <1>1, <3>2 DEF In
  <2> QED BY <2>1, <2>2
<1>3. NoDup(t)
  BY <1>1 DEF NoDup
<1>4. \A y, z : Precedes(y, z, t) <=> Precedes(y, z, s) /\ y # s[1]
  <2>1. ASSUME NEW y, NEW z, Precedes(y, z, t) PROVE Precedes(y, z, s) /\ y # s[1]
    <3>1. PICK i, j \in 1..Len(s) - 1 : i < j /\ t[i] = y /\ t[j] = z
      BY <1>1, <2>1 DEF Precedes
    <3>2. /\ i + 1 \in 1..Len(s) /\ j + 1 \in 1..Len(s) /\ i + 1 < j + 1
          /\ s[i + 1] = y /\ s[j + 1] = z
      BY <1>1, <3>1
    <3>3. y # s[1]
      BY <1>1, <3>1, <3>2 DEF NoDup
    <3> QED BY <1>1, <3>2, <3>3 DEF Precedes
  <2>2. ASSUME NEW y, NEW z, Precedes(y, z, s), y # s[1] PROVE Precedes(y, z, t)
    <3>1. PICK i, j \in 1..Len(s) : i < j /\ s[i] = y /\ s[j] = z
      BY <1>1, <2>2 DEF Precedes
    <3>2. /\ i - 1 \in 1..Len(s) - 1 /\ j - 1 \in 1..Len(s) - 1 /\ i - 1 < j - 1
          /\ t[i - 1] = y /\ t[j - 1] = z
      BY <1>1, <2>2, <3>1
    <3> QED BY <1>1, <3>2 DEF Precedes
  <2> QED BY <2>1, <2>2
<1>5. \A y : ~Precedes(y, s[1], s)
  BY <1>1 DEF Precedes, NoDup
<1>6. \A y : In(y, s) /\ y # s[1] => Precedes(s[1], y, s)
  BY <1>1 DEF Precedes, In
<1>7. In(s[1], s)
  BY <1>1 DEF In
<1> QED BY <1>1, <1>2, <1>3, <1>4, <1>5, <1>6, <1>7 DEF t

-----------------------------------------------------------------------------
(* Counting acknowledgements. *)

\* The counters of a BusFrame count the endpoints that acknowledged it, and its
\* promise is set by the last of them.
CountOK ==
  \A f \in Frames :
    /\ sent[f] + failed[f] = Cardinality(by[f])
    /\ sets[f] = IF f \in active /\ by[f] = Endpoints /\ N > 0 THEN 1 ELSE 0

\* An endpoint holds a frame once, and only until it acknowledges it.
HoldOK ==
  \A e \in Endpoints :
    /\ NoDup(pending[e])
    /\ \A f \in Frames : In(f, pending[e]) => e \notin by[f]

\* The frame in the bus thread's hand has not reached the endpoints that the loop
\* has not come to.
CursorOK ==
  /\ pc \notin {"send", "forward", "aborted"} => cur = NoFrame
  /\ cur # NoFrame => \A e \in Endpoints : e >= ep => e \notin by[cur] /\ ~In(cur, pending[e])

\* A frame in send_queue is new: its caller waits and no endpoint knows it.
SendQueueOK ==
  /\ NoDup(send_queue)
  /\ \A c \in Callers : In(c, send_queue) =>
       /\ c \notin active /\ by[c] = {} /\ caller[c] # "idle"
       /\ ~(cur = c /\ ep <= N)
       /\ \A e \in Endpoints : ~In(c, pending[e])

\* The same for forward_queue.
ForwardQueueOK ==
  /\ NoDup(forward_queue)
  /\ \A f \in RxFrames : In(f, forward_queue) =>
       by[f] = {} /\ cur # f /\ \A e \in Endpoints : ~In(f, pending[e])

\* When send_frame has returned, no endpoint will acknowledge the frame any more, so
\* the next BusFrame of the thread is not confused with it.
IdleOK ==
  \A c \in Callers : caller[c] = "idle" =>
    ~(cur = c /\ ep <= N) /\ \A e \in Endpoints : ~In(c, pending[e])

\* The inductive invariant behind PromiseSetOnceComplete.
AckInv == CountOK /\ HoldOK /\ CursorOK /\ SendQueueOK /\ ForwardQueueOK /\ IdleOK

LEMMA Identities == Callers \cap RxFrames = {} /\ NoFrame \notin Frames
  BY ConstantsAssumption

\* Sets of endpoints are finite, and only all of them are N.
LEMMA EndpointSets ==
  \A S \in SUBSET Endpoints :
    /\ IsFiniteSet(S) /\ Cardinality(S) \in Nat /\ Cardinality(S) <= N
    /\ Cardinality(S) = N <=> S = Endpoints
<1>1. IsFiniteSet(Endpoints) /\ Cardinality(Endpoints) = N
  BY Constants, FS_Interval DEF Endpoints
<1> QED BY <1>1, FS_Subset, FS_CardinalityType

\* inc_send_counter and inc_send_fail_counter, for an endpoint that has not
\* acknowledged the frame before.
LEMMA AckCounts ==
  ASSUME TypeInv, CountOK, NEW f \in Frames, NEW e \in Endpoints, NEW ok \in BOOLEAN,
         e \notin by[f], Ack(f, e, ok), active' = active
  PROVE  CountOK' /\ by' = [by EXCEPT ![f] = @ \cup {e}]
<1>1. /\ sent \in [Frames -> Nat] /\ failed \in [Frames -> Nat] /\ sets \in [Frames -> Nat]
      /\ by \in [Frames -> SUBSET Endpoints]
  BY DEF TypeInv, TypeOK
<1>2. by' = [by EXCEPT ![f] = @ \cup {e}]
  BY DEF Ack
<1>3. N > 0 /\ N \in Nat
  BY Constants DEF Endpoints
<1>4. /\ Cardinality(by'[f]) = Cardinality(by[f]) + 1 /\ Cardinality(by[f]) \in Nat
      /\ by'[f] \in SUBSET Endpoints
  BY <1>1, <1>2, EndpointSets, FS_AddElement
<1>5. sent'[f] + failed'[f] = sent[f] + failed[f] + 1
  BY <1>1 DEF Ack
<1>6. sent[f] + failed[f] = Cardinality(by[f]) /\ sets[f] = 0
  BY DEF CountOK
<1>7. SentFinish(f) <=> by'[f] = Endpoints
  BY <1>3, <1>4, <1>6, EndpointSets DEF SentFinish
<1>8. sets'[f] = IF f \in active /\ by'[f] = Endpoints THEN 1 ELSE 0
  BY <1>1, <1>6, <1>7 DEF Ack
<1>9. \A g \in Frames : g # f =>
        sent'[g] = sent[g] /\ failed'[g] = failed[g] /\ sets'[g] = sets[g] /\ by'[g] = by[g]
  BY <1>1, <1>2 DEF Ack
<1>10. ASSUME NEW g \in Frames
       PROVE  /\ sent'[g] + failed'[g] = Cardinality(by'[g])
              /\ sets'[g] = IF g \in active /\ by'[g] = Endpoints /\ N > 0 THEN 1 ELSE 0
  BY <1>3, <1>4, <1>5, <1>6, <1>8, <1>9 DEF CountOK
<1> QED BY <1>2, <1>10 DEF CountOK

\* The variables that AckInv is about.
heldVars == <<ackVars, active, pending>>

LEMMA InitAckInv == Init => AckInv
<1> SUFFICES ASSUME Init PROVE AckInv
  OBVIOUS
<1>1. CountOK
  BY EndpointSets, FS_EmptySet, Constants DEF Init, CountOK
<1>2. HoldOK /\ SendQueueOK /\ ForwardQueueOK
  BY EmptyQueue, Identities DEF Init, HoldOK, SendQueueOK, ForwardQueueOK, Frames
<1>3. CursorOK /\ IdleOK
  BY EmptyQueue, Identities DEF Init, CursorOK, IdleOK, Frames
<1> QED BY <1>1, <1>2, <1>3 DEF AckInv

\* Steps without a frame in hand that change neither a queue nor a frame.
LEMMA EmptyHandStep ==
  ASSUME AckInv, cur = NoFrame, cur' = NoFrame,
         UNCHANGED <<heldVars, send_queue, forward_queue, caller>>
  PROVE  AckInv'
<1>1. NoFrame \notin Callers /\ NoFrame \notin RxFrames
  BY Identities DEF Frames
<1> QED
  BY <1>1 DEF AckInv, CountOK, HoldOK, CursorOK, SendQueueOK, ForwardQueueOK, IdleOK, heldVars, ackVars

\* Steps of the bus thread that leave all this alone.
LEMMA OtherStep ==
  ASSUME AckInv, UNCHANGED <<heldVars, send_queue, forward_queue, cur, ep>>,
         \A c \in Callers : caller[c] # "idle" => caller'[c] # "idle",
         \A c \in Callers : caller'[c] = "idle" => caller[c] = "idle",
         pc' \in {pc, "aborted"} \/ cur = NoFrame
  PROVE  AckInv'
  BY DEF AckInv, CountOK, HoldOK, CursorOK, SendQueueOK, ForwardQueueOK, IdleOK, heldVars, ackVars

\* send_frame_noblock.
LEMMA SendFrameAck ==
  ASSUME TypeInv, AckInv, NEW c \in Callers, NEW r \in Requests, SendFrame(c, r)
  PROVE  AckInv'
<1>1. /\ NewFrame(c) /\ send_queue' = Append(send_queue, c)
      /\ UNCHANGED <<forward_queue, pending, pc, ep, cur>>
      /\ caller[c] = "idle" /\ caller'[c] # "idle"
      /\ \A d \in Callers : d # c => caller'[d] = caller[d]
  BY DEF SendFrame, TypeInv, TypeOK
<1>2. /\ send_queue \in Seq(Callers) /\ c \in Frames /\ cur \in Frames \cup {NoFrame}
      /\ pending \in [Endpoints -> Seq(Frames)] /\ by \in [Frames -> SUBSET Endpoints]
      /\ sent \in [Frames -> Nat] /\ failed \in [Frames -> Nat] /\ sets \in [Frames -> Nat]
      /\ ep \in 1..(N + 1) /\ N \in Nat
  BY Constants DEF TypeInv, TypeOK, Frames
<1>3. /\ c \notin active' /\ \A f \in Frames : f # c => (f \in active' <=> f \in active)
      /\ by'[c] = {} /\ sent'[c] = 0 /\ failed'[c] = 0 /\ sets'[c] = 0
      /\ \A f \in Frames : f # c =>
           by'[f] = by[f] /\ sent'[f] = sent[f] /\ failed'[f] = failed[f] /\ sets'[f] = sets[f]
  BY <1>1, <1>2 DEF NewFrame
<1>4. ~(cur = c /\ ep <= N) /\ (\A e \in Endpoints : ~In(c, pending[e])) /\ ~In(c, send_queue)
  BY <1>1 DEF AckInv, IdleOK, SendQueueOK
<1>5. CountOK'
  <2>1. Cardinality({}) = 0
    BY FS_EmptySet
  <2>2. /\ sent'[c] + failed'[c] = Cardinality(by'[c])
        /\ sets'[c] = IF c \in active' /\ by'[c] = Endpoints /\ N > 0 THEN 1 ELSE 0
    BY <1>3, <2>1
  <2>3. ASSUME NEW f \in Frames, f # c
        PROVE  /\ sent'[f] + failed'[f] = Cardinality(by'[f])
               /\ sets'[f] = IF f \in active' /\ by'[f] = Endpoints /\ N > 0 THEN 1 ELSE 0
    BY <1>3, <2>3 DEF AckInv, CountOK
  <2> QED BY <2>2, <2>3, Zenon DEF CountOK
<1>6. HoldOK'
  BY <1>1, <1>3, <1>4 DEF AckInv, HoldOK
<1>7. CursorOK'
  <2>1. \A e \in Endpoints : e >= ep => ep <= N
    BY <1>2 DEF Endpoints
  <2> QED BY <1>1, <1>2, <1>3, <1>4, <2>1 DEF AckInv, CursorOK
<1>8. SendQueueOK'
  <2>1. /\ \A d : In(d, send_queue') <=> In(d, send_queue) \/ d = c
        /\ NoDup(send_queue')
    BY <1>1, <1>2, <1>4, Pushed DEF AckInv, SendQueueOK
  <2> QED BY <1>1, <1>3, <1>4, <2>1 DEF AckInv, SendQueueOK, Frames
<1>9. ForwardQueueOK'
  BY <1>1, <1>3, Identities DEF AckInv, ForwardQueueOK, Frames
<1>10. IdleOK'
  BY <1>1 DEF AckInv, IdleOK
<1> QED BY <1>5, <1>6, <1>7, <1>8, <1>9, <1>10 DEF AckInv

\* send_future.get() returns: all endpoints have acknowledged.
LEMMA ReturnAck ==
  ASSUME TypeInv, AckInv, NEW c \in Callers, Return(c)
  PROVE  AckInv'
<1>1. /\ UNCHANGED <<heldVars, send_queue, forward_queue, pc, cur, ep>>
      /\ \A d \in Callers : d # c => caller'[d] = caller[d]
      /\ sets[c] > 0
  BY DEF Return, heldVars, frameVars, TypeInv, TypeOK
<1>2. c \in Frames /\ ep \in 1..(N + 1) /\ N \in Nat /\ NoFrame # c
  BY Constants, Identities DEF TypeInv, TypeOK, Frames
<1>3. by[c] = Endpoints /\ c \in active
  BY <1>1, <1>2 DEF AckInv, CountOK
<1>4. ~(cur = c /\ ep <= N)
  <2>1. ep <= N => ep \in Endpoints /\ ep >= ep
    BY <1>2 DEF Endpoints
  <2> QED BY <1>2, <1>3, <2>1 DEF AckInv, CursorOK
<1>5. \A e \in Endpoints : ~In(c, pending[e])
  BY <1>2, <1>3 DEF AckInv, HoldOK
<1>6. SendQueueOK' /\ IdleOK'
  BY <1>1, <1>3, <1>4, <1>5 DEF AckInv, SendQueueOK, IdleOK, heldVars, ackVars
<1>7. CountOK' /\ HoldOK' /\ CursorOK' /\ ForwardQueueOK'
  BY <1>1 DEF AckInv, CountOK, HoldOK, CursorOK, ForwardQueueOK, heldVars, ackVars
<1> QED BY <1>6, <1>7 DEF AckInv

\* recv_thread_forward takes a frame.
LEMMA ForwardPopAck ==
  ASSUME TypeInv, AckInv, ForwardPop
  PROVE  AckInv'
<1>1. /\ UNCHANGED <<heldVars, send_queue, caller>> /\ pc = "drain" /\ ep' = 1
  BY DEF ForwardPop, heldVars, frameVars
<1>2. cur = NoFrame
  BY <1>1 DEF AckInv, CursorOK
<1>3. CASE ~(Forwarding /\ forward_queue # <<>>)
  <2>1. UNCHANGED <<cur, forward_queue>>
    BY <1>3, Zenon DEF ForwardPop
  <2> QED BY <1>1, <1>2, <2>1, EmptyHandStep
<1>4. CASE Forwarding /\ forward_queue # <<>>
  <2>1. cur' = Head(forward_queue) /\ forward_queue' = Tail(forward_queue) /\ pc' = "forward"
    BY <1>4, Zenon DEF ForwardPop
  <2>2. forward_queue \in Seq(RxFrames) /\ NoDup(forward_queue)
    BY DEF TypeInv, TypeOK, AckInv, ForwardQueueOK
  <2>3. /\ cur' \in RxFrames /\ In(cur', forward_queue) /\ NoDup(forward_queue')
        /\ \A f : In(f, forward_queue') <=> In(f, forward_queue) /\ f # cur'
    BY <1>4, <2>1, <2>2, Popped
  <2>4. cur' \notin Callers /\ cur' \in Frames
    BY <2>3, Identities DEF Frames
  <2>5. CountOK' /\ HoldOK' /\ SendQueueOK' /\ IdleOK'
    BY <1>1, <2>4 DEF AckInv, CountOK, HoldOK, SendQueueOK, IdleOK, heldVars, ackVars
  <2>6. CursorOK' /\ ForwardQueueOK'
    BY <1>1, <2>1, <2>3 DEF AckInv, CursorOK, ForwardQueueOK, heldVars, ackVars
  <2> QED BY <2>5, <2>6 DEF AckInv
<1> QED BY <1>3, <1>4

\* recv_thread_send takes a frame and activates its promise.
LEMMA SendPopAck ==
  ASSUME TypeInv, AckInv, SendPop
  PROVE  AckInv'
<1> DEFINE c == Head(send_queue)
<1>1. /\ UNCHANGED <<ackVars, pending, forward_queue, caller>>
      /\ pc = "pop" /\ pc' = "send" /\ ep' = 1 /\ cur' = c
      /\ active' = active \cup {c} /\ send_queue' = Tail(send_queue) /\ send_queue # <<>>
  BY DEF SendPop
<1>2. send_queue \in Seq(Callers) /\ NoDup(send_queue)
  BY DEF TypeInv, TypeOK, AckInv, SendQueueOK
<1>3. /\ c \in Callers /\ In(c, send_queue) /\ NoDup(send_queue')
      /\ \A f : In(f, send_queue') <=> In(f, send_queue) /\ f # c
  BY <1>1, <1>2, Popped
<1> HIDE DEF c
<1>4. c \in Frames /\ c \notin RxFrames /\ c # NoFrame /\ N \in Nat
  BY <1>3, Identities, Constants DEF Frames
<1>5. by[c] = {} /\ caller[c] # "idle" /\ c \notin active /\ \A e \in Endpoints : ~In(c, pending[e])
  BY <1>3 DEF AckInv, SendQueueOK
<1>6. CountOK'
  <2>1. N > 0 => Endpoints # {}
    BY <1>4 DEF Endpoints
  <2> QED BY <1>1, <1>4, <1>5, <2>1 DEF AckInv, CountOK, ackVars
<1>7. HoldOK' /\ CursorOK'
  BY <1>1, <1>4, <1>5 DEF AckInv, HoldOK, CursorOK, ackVars
<1>8. SendQueueOK' /\ ForwardQueueOK' /\ IdleOK'
  BY <1>1, <1>3, <1>4, <1>5 DEF AckInv, SendQueueOK, ForwardQueueOK, IdleOK, ackVars
<1> QED BY <1>6, <1>7, <1>8 DEF AckInv

\* An endpoint acknowledges the frame f at the head of its queue, or one that it
\* was just given: the other endpoints and the queues are not concerned.
LEMMA AckStep ==
  ASSUME TypeInv, AckInv, NEW f \in Frames, NEW e \in Endpoints, NEW ok \in BOOLEAN,
         e \notin by[f], Ack(f, e, ok), UNCHANGED <<active, send_queue, forward_queue, caller>>,
         ~In(f, send_queue), ~In(f, forward_queue)
  PROVE  /\ CountOK' /\ by' = [by EXCEPT ![f] = @ \cup {e}]
         /\ \A c \in Callers : In(c, send_queue') => by'[c] = {}
         /\ \A g \in RxFrames : In(g, forward_queue') => by'[g] = {}
<1>1. CountOK' /\ by' = [by EXCEPT ![f] = @ \cup {e}]
  BY AckCounts DEF AckInv
<1>2. \A g \in Frames : g # f => by'[g] = by[g]
  BY <1>1 DEF TypeInv, TypeOK
<1> QED BY <1>1, <1>2 DEF AckInv, SendQueueOK, ForwardQueueOK, Frames

\* A driver that acknowledges inside send_data.
LEMMA SendSyncAck ==
  ASSUME TypeInv, AckInv, SendSync
  PROVE  AckInv'
<1>1. /\ cur \in Frames /\ cur # NoFrame /\ ep \in Endpoints /\ pending[ep] = <<>>
      /\ N \in Nat /\ ep \in 1..N /\ pc \in {"send", "forward"}
      /\ by \in [Frames -> SUBSET Endpoints] /\ pending \in [Endpoints -> Seq(Frames)]
  BY Constants, Identities DEF SendSync, TypeInv, TypeOK, PendingOK, CurOK, Frames, Endpoints
<1> DEFINE q == Append(pending[ep], cur)
<1>2. q = <<cur>> /\ Head(q) = cur /\ Tail(q) = <<>>
  BY <1>1
<1>3. /\ Ack(cur, ep, TRUE) /\ pending' = [pending EXCEPT ![ep] = <<>>] /\ ep' = ep + 1
      /\ UNCHANGED <<active, send_queue, forward_queue, caller, pc, cur>>
  BY <1>2 DEF SendSync
<1>4. ep \notin by[cur] /\ pending' = pending
  BY <1>1, <1>3 DEF AckInv, CursorOK
<1>5. ~In(cur, send_queue) /\ ~In(cur, forward_queue)
  <2>1. In(cur, send_queue) => cur \in Callers
    BY DEF In, TypeInv, TypeOK
  <2>2. In(cur, forward_queue) => cur \in RxFrames
    BY DEF In, TypeInv, TypeOK
  <2> QED BY <1>1, <2>1, <2>2 DEF AckInv, SendQueueOK, ForwardQueueOK
<1>6. /\ CountOK' /\ by' = [by EXCEPT ![cur] = @ \cup {ep}]
      /\ \A c \in Callers : In(c, send_queue') => by'[c] = {}
      /\ \A g \in RxFrames : In(g, forward_queue') => by'[g] = {}
  BY <1>1, <1>3, <1>4, <1>5, AckStep
<1>7. HoldOK'
  BY <1>1, <1>4, <1>6, EmptyQueue DEF AckInv, HoldOK
<1>8. CursorOK'
  <2>1. \A e \in Endpoints : e >= ep + 1 => e >= ep /\ e # ep
    BY <1>1 DEF Endpoints
  <2> QED BY <1>1, <1>3, <1>4, <1>6, <2>1 DEF AckInv, CursorOK
<1>9. SendQueueOK' /\ ForwardQueueOK' /\ IdleOK'
  BY <1>1, <1>3, <1>4, <1>6 DEF AckInv, SendQueueOK, ForwardQueueOK, IdleOK
<1> QED BY <1>6, <1>7, <1>8, <1>9 DEF AckInv

\* An SLCAN driver: the frame is pending until the adapter answers.
LEMMA SendSlcanAck ==
  ASSUME TypeInv, AckInv, SendSlcan
  PROVE  AckInv'
<1>1. /\ cur \in Frames /\ cur # NoFrame /\ ep \in Endpoints
      /\ N \in Nat /\ ep \in 1..N /\ pc \in {"send", "forward"}
      /\ pending \in [Endpoints -> Seq(Frames)]
  BY Constants, Identities DEF SendSlcan, TypeInv, TypeOK, CurOK, Frames, Endpoints
<1>2. /\ pending' = [pending EXCEPT ![ep] = Append(@, cur)] /\ ep' = ep + 1
      /\ UNCHANGED <<ackVars, active, send_queue, forward_queue, caller, pc, cur>>
  BY DEF SendSlcan, frameVars
<1>3. ep \notin by[cur] /\ ~In(cur, pending[ep]) /\ NoDup(pending[ep])
  BY <1>1 DEF AckInv, CursorOK, HoldOK
<1>4. /\ NoDup(pending'[ep]) /\ \A f : In(f, pending'[ep]) <=> In(f, pending[ep]) \/ f = cur
      /\ \A e \in Endpoints : e # ep => pending'[e] = pending[e]
  BY <1>1, <1>2, <1>3, Pushed
<1>5. CountOK' /\ HoldOK'
  BY <1>2, <1>3, <1>4 DEF AckInv, CountOK, HoldOK, ackVars
<1>6. CursorOK'
  <2>1. \A e \in Endpoints : e >= ep + 1 => e >= ep /\ e # ep
    BY <1>1 DEF Endpoints
  <2> QED BY <1>1, <1>2, <1>4, <2>1 DEF AckInv, CursorOK, ackVars
<1>7. /\ \A c \in Callers : cur = c => ~In(c, send_queue) /\ caller[c] # "idle"
      /\ \A f \in RxFrames : cur = f => ~In(f, forward_queue)
  BY <1>1 DEF AckInv, SendQueueOK, IdleOK, ForwardQueueOK
<1>8. SendQueueOK' /\ ForwardQueueOK' /\ IdleOK'
  <2>1. ep' <= N => ep <= N
    BY <1>1, <1>2
  <2> QED BY <1>2, <1>4, <1>7, <2>1 DEF AckInv, SendQueueOK, ForwardQueueOK, IdleOK, ackVars
<1> QED BY <1>5, <1>6, <1>8 DEF AckInv

\* The loop goes on to the next endpoint, or is done.
LEMMA LoopAck ==
  ASSUME TypeInv, AckInv, SkipOrigin \/ SendDone
  PROVE  AckInv'
<1>1. UNCHANGED <<heldVars, send_queue, forward_queue, caller>>
  BY DEF SkipOrigin, SendDone, heldVars, frameVars
<1>2. ep \in 1..(N + 1) /\ N \in Nat /\ NoFrame \notin Callers /\ NoFrame \notin RxFrames
  BY Constants, Identities DEF TypeInv, TypeOK, Frames
<1>3. CountOK' /\ HoldOK'
  BY <1>1 DEF AckInv, CountOK, HoldOK, heldVars, ackVars
<1>4. CASE SkipOrigin
  <2>1. UNCHANGED <<cur, pc>> /\ ep' = ep + 1
    BY <1>4 DEF SkipOrigin
  <2>2. (\A e \in Endpoints : e >= ep' => e >= ep) /\ (ep' <= N => ep <= N)
    BY <1>2, <2>1 DEF Endpoints
  <2>3. CursorOK'
    BY <1>1, <2>1, <2>2 DEF AckInv, CursorOK, heldVars, ackVars
  <2>4. SendQueueOK' /\ ForwardQueueOK' /\ IdleOK'
    BY <1>1, <2>1, <2>2 DEF AckInv, SendQueueOK, ForwardQueueOK, IdleOK, heldVars, ackVars
  <2> QED BY <1>3, <2>3, <2>4 DEF AckInv
<1>5. CASE SendDone
  <2>1. cur' = NoFrame
    BY <1>5 DEF SendDone
  <2>2. CursorOK' /\ SendQueueOK' /\ ForwardQueueOK' /\ IdleOK'
    BY <1>1, <1>2, <2>1
    DEF AckInv, CursorOK, SendQueueOK, ForwardQueueOK, IdleOK, heldVars, ackVars
  <2> QED BY <1>3, <2>2 DEF AckInv
<1> QED BY <1>4, <1>5

\* The answer of an adapter is read.
LEMMA ReadAnswerAck ==
  ASSUME TypeInv, AckInv, NEW ok \in BOOLEAN, ReadAnswer(ok)
  PROVE  AckInv'
<1>1. /\ UNCHANGED <<active, send_queue, forward_queue, caller, ep, cur>>
      /\ pc \in {"read", "more"} /\ ep \in Slcan /\ ep \in Endpoints
  BY Constants DEF ReadAnswer
<1>2. cur = NoFrame /\ NoFrame \notin Callers /\ NoFrame \notin RxFrames
  BY <1>1, Identities DEF AckInv, CursorOK, Frames
<1>3. CASE ~(psc[ep] > 0)
  BY <1>1, <1>2, <1>3, EmptyHandStep DEF ReadAnswer, heldVars
<1>4. CASE psc[ep] > 0
  <2> DEFINE f == Head(pending[ep])
  <2>1. Ack(f, ep, ok) /\ pending' = [pending EXCEPT ![ep] = Tail(@)]
    BY <1>4 DEF ReadAnswer
  <2>2. /\ pending \in [Endpoints -> Seq(Frames)] /\ pending[ep] \in Seq(Frames)
        /\ pending[ep] # <<>> /\ NoDup(pending[ep])
    BY <1>1, <1>4 DEF TypeInv, TypeOK, PendingOK, AckInv, HoldOK
  <2>3. /\ f \in Frames /\ In(f, pending[ep]) /\ NoDup(Tail(pending[ep]))
        /\ \A g : In(g, Tail(pending[ep])) <=> In(g, pending[ep]) /\ g # f
    BY <2>2, Popped
  <2> HIDE DEF f
  <2>4. /\ NoDup(pending'[ep]) /\ \A g : In(g, pending'[ep]) <=> In(g, pending[ep]) /\ g # f
        /\ \A e \in Endpoints : e # ep => pending'[e] = pending[e]
    BY <1>1, <2>1, <2>2, <2>3
  <2>5. ep \notin by[f]
    BY <1>1, <2>3 DEF AckInv, HoldOK
  <2>6. ~In(f, send_queue) /\ ~In(f, forward_queue)
    <3>1. In(f, send_queue) => f \in Callers
      BY DEF In, TypeInv, TypeOK
    <3>2. In(f, forward_queue) => f \in RxFrames
      BY DEF In, TypeInv, TypeOK
    <3> QED BY <1>1, <2>3, <3>1, <3>2 DEF AckInv, SendQueueOK, ForwardQueueOK
  <2>7. /\ CountOK' /\ by' = [by EXCEPT ![f] = @ \cup {ep}]
        /\ \A c \in Callers : In(c, send_queue') => by'[c] = {}
        /\ \A g \in RxFrames : In(g, forward_queue') => by'[g] = {}
    BY <1>1, <2>1, <2>3, <2>5, <2>6, AckStep
  <2>8. HoldOK'
    BY <1>1, <2>4, <2>7 DEF AckInv, HoldOK, TypeInv, TypeOK
  <2>9. CursorOK'
    BY <1>1, <1>2 DEF CursorOK
  <2>10. SendQueueOK' /\ ForwardQueueOK' /\ IdleOK'
    BY <1>1, <2>4, <2>7 DEF AckInv, SendQueueOK, ForwardQueueOK, IdleOK
  <2> QED BY <2>7, <2>8, <2>9, <2>10 DEF AckInv
<1> QED BY <1>3, <1>4

\* A received frame is queued for forwarding in a slot that nothing refers to.
LEMMA DeliverAck ==
  ASSUME TypeInv, AckInv, Deliver
  PROVE  AckInv'
<1>1. UNCHANGED <<send_queue, pending, caller, pc, ep, cur>> /\ pc = "deliver"
  BY DEF Deliver
<1>2. cur = NoFrame
  BY <1>1 DEF AckInv, CursorOK
<1>3. CASE ~Forwarding
  <2>1. UNCHANGED <<active, ackVars, forward_queue>>
    BY <1>3, Zenon DEF Deliver
  <2> QED BY <1>1, <1>2, <2>1, EmptyHandStep DEF heldVars
<1>4. CASE Forwarding
  <2>1. PICK f \in FreeSlots : NewFrame(f) /\ forward_queue' = Append(forward_queue, f)
    BY <1>4, Zenon DEF Deliver
  <2>2. /\ f \in RxFrames /\ f \in Frames /\ f \notin Callers /\ f # NoFrame
        /\ ~In(f, forward_queue) /\ \A e \in Endpoints : ~In(f, pending[e])
    BY Identities DEF FreeSlots, InUse, In, Frames
  <2>3. /\ f \notin active' /\ \A g \in Frames : g # f => (g \in active' <=> g \in active)
        /\ by'[f] = {} /\ sent'[f] = 0 /\ failed'[f] = 0 /\ sets'[f] = 0
        /\ \A g \in Frames : g # f =>
             by'[g] = by[g] /\ sent'[g] = sent[g] /\ failed'[g] = failed[g] /\ sets'[g] = sets[g]
    BY <2>1, <2>2 DEF NewFrame, TypeInv, TypeOK
  <2>4. CountOK'
    <3>1. ASSUME NEW g \in Frames
          PROVE  /\ sent'[g] + failed'[g] = Cardinality(by'[g])
                 /\ sets'[g] = IF g \in active' /\ by'[g] = Endpoints /\ N > 0 THEN 1 ELSE 0
      <4>1. CASE g = f
        <5>1. by'[g] = {} /\ sent'[g] = 0 /\ failed'[g] = 0 /\ sets'[g] = 0 /\ g \notin active'
          BY <2>3, <4>1
        <5>2. Cardinality(by'[g]) = 0
          BY <5>1, FS_EmptySet
        <5> QED BY <5>1, <5>2
      <4>2. CASE g # f
        BY <2>3, <4>2 DEF AckInv, CountOK
      <4> QED BY <4>1, <4>2
    <3> QED BY <3>1 DEF CountOK
  <2>5. HoldOK' /\ CursorOK'
    BY <1>1, <1>2, <2>2, <2>3 DEF AckInv, HoldOK, CursorOK
  <2>6. SendQueueOK' /\ IdleOK'
    BY <1>1, <2>2, <2>3 DEF AckInv, SendQueueOK, IdleOK, Frames
  <2>7. ForwardQueueOK'
    <3>1. forward_queue \in Seq(RxFrames) /\ NoDup(forward_queue)
      BY DEF TypeInv, TypeOK, AckInv, ForwardQueueOK
    <3>2. /\ \A g : In(g, forward_queue') <=> In(g, forward_queue) \/ g = f
          /\ NoDup(forward_queue')
      BY <2>1, <2>2, <3>1, Pushed
    <3> QED BY <1>1, <1>2, <2>2, <2>3, <3>2 DEF AckInv, ForwardQueueOK, Frames
  <2> QED BY <2>4, <2>5, <2>6, <2>7 DEF AckInv
<1> QED BY <1>3, <1>4

\* All steps.
LEMMA NextAckInv == TypeInv /\ AckInv /\ [Next]_vars => AckInv'
<1> SUFFICES ASSUME TypeInv, AckInv, [Next]_vars PROVE AckInv'
  OBVIOUS
<1>a. caller \in [Callers -> {"idle", "trigger", "wait"}]
  BY DEF TypeInv, TypeOK
<1>1. ASSUME NEW c \in Callers, Trigger(c) PROVE AckInv'
  BY <1>1, <1>a, OtherStep DEF Trigger, heldVars, frameVars
<1>2. ASSUME NEW ev \in SUBSET Sources, Wait(ev) PROVE AckInv'
  <2>1. /\ pc = "wait" /\ cur' = cur
        /\ UNCHANGED <<heldVars, send_queue, forward_queue, caller>>
    BY <1>2 DEF Wait, heldVars, frameVars
  <2>2. cur = NoFrame
    BY <2>1 DEF AckInv, CursorOK
  <2> QED BY <2>1, <2>2, EmptyHandStep
<1>3. CASE DrainEnd \/ ReadFrame \/ ReadEnd \/ ReadDone
  <2>1. /\ pc \in {"pop", "read", "more", "deliver"} /\ cur' = cur
        /\ UNCHANGED <<heldVars, send_queue, forward_queue, caller>>
    BY <1>3 DEF DrainEnd, ReadFrame, ReadEnd, ReadDone, heldVars, frameVars
  <2>2. cur = NoFrame
    BY <2>1 DEF AckInv, CursorOK
  <2> QED BY <2>1, <2>2, EmptyHandStep
<1>4. CASE DriverThrows
  BY <1>4, OtherStep DEF DriverThrows, heldVars, frameVars
<1>5. ASSUME NEW e \in Endpoints, AdapterAnswers(e) \/ Arrive(e) PROVE AckInv'
  BY <1>5, OtherStep DEF AdapterAnswers, Arrive, heldVars, frameVars
<1>6. CASE UNCHANGED vars
  BY <1>6, OtherStep DEF vars, heldVars, frameVars
<1> QED
  BY <1>1, <1>2, <1>3, <1>4, <1>5, <1>6, SendFrameAck, ReturnAck, ForwardPopAck, SendPopAck,
     SendSyncAck, SendSlcanAck, LoopAck, ReadAnswerAck, DeliverAck
  DEF Next, BusThread

\* The invariant holds throughout, for use in the theorems below.
LEMMA AckInvariant == Spec => []AckInv
BY InitAckInv, NextAckInv, TypeInvariant, PTL DEF Spec

\* BusFrame sets its promise once, when the last endpoint acknowledges the frame, and
\* never for a forwarded frame: for any number of callers and endpoints, whichever
\* acknowledge inside send_data and whichever later, with success or failure.
THEOREM PromiseSetOnce == Spec => []PromiseSetOnceComplete
<1>1. TypeInv /\ AckInv => PromiseSetOnceComplete
  BY DEF TypeInv, TypeOK, AckInv, CountOK, PromiseSetOnceComplete
<1> QED BY <1>1, TypeInvariant, AckInvariant, PTL

-----------------------------------------------------------------------------
(* Answers. Without an init command, what a serial line holds are the frames that *)
(* its endpoint waits for: first the answers not yet read, then what the adapter   *)
(* has still to carry out. The driver counts, and the count agrees.                *)

LineOK == \A e \in Slcan \ InitString : pending[e] = answers[e] \o wire[e]

\* A line moves from the adapter's input to its output, enters, and leaves.
LEMMA LineMoves ==
  ASSUME NEW S, NEW a \in Seq(S), NEW w \in Seq(S)
  PROVE  /\ w # <<>> => Append(a, Head(w)) \o Tail(w) = a \o w
         /\ \A x \in S : a \o Append(w, x) = Append(a \o w, x)
         /\ a # <<>> => /\ Tail(a) \o w = Tail(a \o w)
                        /\ Head(a \o w) = Head(a) /\ a \o w # <<>>
<1>1. ASSUME w # <<>> PROVE Append(a, Head(w)) \o Tail(w) = a \o w
  <2>1. /\ Append(a, Head(w)) \in Seq(S) /\ Tail(w) \in Seq(S) /\ Head(w) \in S
        /\ Len(Append(a, Head(w))) = Len(a) + 1
        /\ Len(Tail(w)) = Len(w) - 1 /\ Len(w) \in Nat /\ Len(a) \in Nat
    BY <1>1
  <2>2. /\ Append(a, Head(w)) \o Tail(w) \in Seq(S) /\ a \o w \in Seq(S)
        /\ Len(Append(a, Head(w)) \o Tail(w)) = Len(a \o w)
        /\ Len(a \o w) = Len(a) + Len(w)
    BY <2>1, ConcatProperties
  <2>3. ASSUME NEW i \in 1..Len(a \o w)
        PROVE  (Append(a, Head(w)) \o Tail(w))[i] = (a \o w)[i]
    BY <1>1, <2>1, <2>2
  <2> QED BY <2>2, <2>3, SeqEqual
<1>2. ASSUME NEW x \in S PROVE a \o Append(w, x) = Append(a \o w, x)
  <2>1. /\ a \o Append(w, x) \in Seq(S) /\ Append(a \o w, x) \in Seq(S)
        /\ Len(a \o Append(w, x)) = Len(Append(a \o w, x))
    OBVIOUS
  <2>2. ASSUME NEW i \in 1..Len(a \o Append(w, x))
        PROVE  (a \o Append(w, x))[i] = Append(a \o w, x)[i]
    OBVIOUS
  <2> QED BY <2>1, <2>2, SeqEqual
<1>3. ASSUME a # <<>> PROVE Tail(a) \o w = Tail(a \o w) /\ Head(a \o w) = Head(a) /\ a \o w # <<>>
  <2>1. /\ a \o w \in Seq(S) /\ a \o w # <<>> /\ Head(a \o w) = Head(a)
        /\ Tail(a) \o w \in Seq(S) /\ Tail(a \o w) \in Seq(S)
        /\ Len(Tail(a) \o w) = Len(Tail(a \o w))
    BY <1>3
  <2>2. ASSUME NEW i \in 1..Len(Tail(a) \o w)
        PROVE  (Tail(a) \o w)[i] = Tail(a \o w)[i]
    BY <1>3, <2>1
  <2> QED BY <2>1, <2>2, SeqEqual
<1> QED BY <1>1, <1>2, <1>3

\* No step puts a line out of step with its endpoint.
LEMMA NextLineOK == TypeInv /\ LineOK /\ [Next]_vars => LineOK'
<1> SUFFICES ASSUME TypeInv, LineOK, [Next]_vars PROVE LineOK'
  OBVIOUS
<1> DEFINE Items == Frames \cup {InitCmd}
<1>1. /\ pending \in [Endpoints -> Seq(Frames)] /\ wire \in [Endpoints -> Seq(Items)]
      /\ answers \in [Endpoints -> Seq(Items)] /\ Slcan \subseteq Endpoints
  BY Constants DEF TypeInv, TypeOK
<1> HIDE DEF Items
<1>2. ASSUME UNCHANGED <<pending, answers, wire>> PROVE LineOK'
  BY <1>2 DEF LineOK
<1>3. CASE SendSync
  <2>1. pending' = [pending EXCEPT ![ep] = Tail(Append(pending[ep], cur))]
        /\ ep \notin Slcan /\ UNCHANGED <<answers, wire>>
    BY <1>3 DEF SendSync, lineVars
  <2> QED BY <1>1, <2>1 DEF LineOK
<1>4. CASE SendSlcan
  <2>1. /\ pending' = [pending EXCEPT ![ep] = Append(@, cur)] /\ answers' = answers
        /\ wire' = [wire EXCEPT ![ep] = Append(@, cur)] /\ ep \in Slcan /\ cur \in Items
    BY <1>4 DEF SendSlcan, TypeInv, CurOK, Frames, Items
  <2>2. answers[ep] \o Append(wire[ep], cur) = Append(answers[ep] \o wire[ep], cur)
    BY <1>1, <2>1, LineMoves
  <2> QED BY <1>1, <2>1, <2>2 DEF LineOK
<1>5. ASSUME NEW ok \in BOOLEAN, ReadAnswer(ok) PROVE LineOK'
  <2>1. /\ ep \in Slcan /\ ep \in Endpoints /\ answers[ep] # <<>> /\ wire' = wire
        /\ answers' = [answers EXCEPT ![ep] = Tail(@)]
        /\ psc[ep] > 0 => pending' = [pending EXCEPT ![ep] = Tail(@)]
        /\ ~(psc[ep] > 0) => pending' = pending
    BY <1>1, <1>5 DEF ReadAnswer
  <2>2. /\ Tail(answers[ep]) \o wire[ep] = Tail(answers[ep] \o wire[ep])
        /\ answers[ep] \o wire[ep] # <<>>
    BY <1>1, <2>1, LineMoves
  <2>3. ep \notin InitString => psc[ep] > 0
    <3>1. psc[ep] = Len(pending[ep]) /\ pending[ep] \in Seq(Frames)
      BY <1>1, <2>1 DEF TypeInv, PendingOK
    <3>2. ep \notin InitString => pending[ep] # <<>>
      BY <2>1, <2>2 DEF LineOK
    <3>3. pending[ep] # <<>> => Len(pending[ep]) > 0
      BY <3>1
    <3> QED BY <3>1, <3>2, <3>3
  <2> QED BY <1>1, <2>1, <2>2, <2>3 DEF LineOK
<1>6. ASSUME NEW e \in Endpoints, AdapterAnswers(e) PROVE LineOK'
  <2>1. /\ wire[e] # <<>> /\ pending' = pending
        /\ wire' = [wire EXCEPT ![e] = Tail(@)]
        /\ answers' = [answers EXCEPT ![e] = Append(@, Head(wire[e]))]
        /\ answers[e] \in Seq(Items) /\ wire[e] \in Seq(Items)
    BY <1>1, <1>6 DEF AdapterAnswers
  <2>2. Append(answers[e], Head(wire[e])) \o Tail(wire[e]) = answers[e] \o wire[e]
    BY <2>1, LineMoves, Zenon
  <2> QED BY <1>1, <2>1, <2>2 DEF LineOK
<1>7. ASSUME NEW c \in Callers, NEW r \in Requests, SendFrame(c, r) PROVE LineOK'
  BY <1>2, <1>7 DEF SendFrame, lineVars
<1>8. ASSUME NEW c \in Callers, Trigger(c) \/ Return(c) PROVE LineOK'
  BY <1>2, <1>8 DEF Trigger, Return, lineVars
<1>9. ASSUME NEW ev \in SUBSET Sources, Wait(ev) PROVE LineOK'
  BY <1>2, <1>9 DEF Wait, lineVars
<1>10. CASE ForwardPop \/ SendPop \/ DrainEnd \/ SkipOrigin \/ SendDone
  BY <1>2, <1>10 DEF ForwardPop, SendPop, DrainEnd, SkipOrigin, SendDone, lineVars
<1>11. CASE ReadFrame \/ ReadEnd \/ Deliver \/ ReadDone \/ DriverThrows
  BY <1>2, <1>11 DEF ReadFrame, ReadEnd, Deliver, ReadDone, DriverThrows, lineVars
<1>12. ASSUME NEW e \in Endpoints, Arrive(e) PROVE LineOK'
  BY <1>2, <1>12 DEF Arrive
<1>13. CASE UNCHANGED vars
  BY <1>2, <1>13 DEF vars, lineVars
<1> QED
  BY <1>3, <1>4, <1>5, <1>6, <1>7, <1>8, <1>9, <1>10, <1>11, <1>12, <1>13 DEF Next, BusThread

\* SlcanDriver only counts the frames it waits for. Where no endpoint has an init
\* command, the answer it counts for the oldest pending frame is the answer to that
\* frame. (With an init command it is not: BusInit.cfg.)
THEOREM AnswerPaired ==
  ASSUME InitString = {}
  PROVE  Spec => []AckIsAboutFrame
<1>1. Init => LineOK
  BY Constants, ConcatEmptySeq DEF Init, LineOK
<1>2. ASSUME TypeInv, LineOK PROVE AckIsAboutFrame
  <2> SUFFICES ASSUME NEW e \in Slcan, answers[e] # <<>>
               PROVE  Head(answers[e]) = Head(pending[e])
    BY DEF AckIsAboutFrame
  <2>1. /\ pending[e] = answers[e] \o wire[e]
        /\ answers[e] \in Seq(Frames \cup {InitCmd}) /\ wire[e] \in Seq(Frames \cup {InitCmd})
    BY <1>2, Constants DEF TypeInv, TypeOK, LineOK
  <2> QED BY <2>1, LineMoves
<1> QED BY <1>1, <1>2, NextLineOK, TypeInvariant, PTL DEF Spec

-----------------------------------------------------------------------------
(* The send service. *)

Status == [c \in Callers |-> CallStatus(c)]
Number == [c \in Callers |-> CallNumber(c)]

\* Where a caller is, before and after a step.
LEMMA StatusOf ==
  ASSUME NEW c \in Callers
  PROVE  /\ caller[c] = "idle" => Status[c] = "idle" /\ Number[c] = 0
         /\ caller[c] # "idle" => Number[c] = seqnum[c]
         /\ caller[c] # "idle" /\ c \notin active => Status[c] = "queued"
         /\ caller[c] # "idle" /\ c \in active /\ sets[c] = 0 => Status[c] = "sent"
         /\ caller[c] # "idle" /\ c \in active /\ sets[c] # 0 => Status[c] = "done"
BY DEF Status, Number, CallStatus, CallNumber

LEMMA StatusOfNext ==
  ASSUME NEW c \in Callers
  PROVE  /\ caller'[c] = "idle" => Status'[c] = "idle" /\ Number'[c] = 0
         /\ caller'[c] # "idle" => Number'[c] = seqnum'[c]
         /\ caller'[c] # "idle" /\ c \notin active' => Status'[c] = "queued"
         /\ caller'[c] # "idle" /\ c \in active' /\ sets'[c] = 0 => Status'[c] = "sent"
         /\ caller'[c] # "idle" /\ c \in active' /\ sets'[c] # 0 => Status'[c] = "done"
BY DEF Status, Number, CallStatus, CallNumber

LEMMA StatusSame ==
  ASSUME NEW c \in Callers, caller'[c] = caller[c], sets'[c] = sets[c], seqnum'[c] = seqnum[c],
         c \in active' <=> c \in active
  PROVE  Status'[c] = Status[c] /\ Number'[c] = Number[c]
BY StatusOf, StatusOfNext

LEMMA StatusType == /\ DOMAIN Status = Callers /\ DOMAIN Number = Callers
                    /\ DOMAIN Status' = Callers /\ DOMAIN Number' = Callers
                    /\ Status = [c \in Callers |-> Status[c]]
                    /\ Number = [c \in Callers |-> Number[c]]
                    /\ Status' = [c \in Callers |-> Status'[c]]
                    /\ Number' = [c \in Callers |-> Number'[c]]
BY DEF Status, Number

\* Steps that a caller does not see.
LEMMA StatusUnchanged ==
  ASSUME UNCHANGED <<send_queue, next_seqnum>>,
         \A c \in Callers : Status'[c] = Status[c] /\ Number'[c] = Number[c]
  PROVE  UNCHANGED Service!svars
<1>1. Status' = Status /\ Number' = Number
  BY StatusType
<1> QED BY <1>1 DEF Service!svars, Status, Number

\* The step of the service in terms of Status and Number.
LEMMA StatusChanged ==
  ASSUME NEW c \in Callers, NEW s, NEW n, Status'[c] = s, Number'[c] = n,
         \A d \in Callers : d # c => Status'[d] = Status[d] /\ Number'[d] = Number[d]
  PROVE  /\ Status' = [Status EXCEPT ![c] = s]
         /\ Number' = [Number EXCEPT ![c] = n]
         /\ n = Number[c] => Number' = Number
BY StatusType

\* send_frame_noblock accepts the call.
LEMMA AcceptStep ==
  ASSUME TypeInv, AckInv, NEW c \in Callers, NEW r \in Requests, SendFrame(c, r)
  PROVE  Service!Accept(c)
<1>1. /\ send_queue' = Append(send_queue, c) /\ next_seqnum' = next_seqnum
      /\ caller[c] = "idle" /\ caller'[c] # "idle" /\ c \notin active' /\ seqnum'[c] = 0
      /\ \A d \in Callers : d # c =>
           /\ caller'[d] = caller[d] /\ sets'[d] = sets[d] /\ seqnum'[d] = seqnum[d]
           /\ d \in active' <=> d \in active
  BY DEF SendFrame, NewFrame, TypeInv, TypeOK, Frames
<1>2. /\ Status[c] = "idle" /\ Number[c] = 0 /\ Status'[c] = "queued" /\ Number'[c] = 0
      /\ \A d \in Callers : d # c => Status'[d] = Status[d] /\ Number'[d] = Number[d]
  BY <1>1, StatusOf, StatusOfNext, StatusSame
<1>3. Status' = [Status EXCEPT ![c] = "queued"] /\ Number' = Number
  BY <1>2, StatusChanged
<1> QED BY <1>1, <1>2, <1>3 DEF Service!Accept, Status, Number

\* SeqnumAfter counts modulo SeqMax + 1.
LEMMA SeqnumModulo == \A n \in 0..SeqMax : SeqnumAfter(n) = (n + 1) % (SeqMax + 1)
<1> SUFFICES ASSUME NEW n \in 0..SeqMax PROVE SeqnumAfter(n) = (n + 1) % (SeqMax + 1)
  OBVIOUS
<1> DEFINE M == SeqMax + 1
<1>1. M \in Nat \ {0} /\ n \in Nat /\ n + 1 <= M
  BY Constants
<1>2. CASE n + 1 = M
  BY <1>1, <1>2, Constants DEF SeqnumAfter
<1>3. CASE n + 1 < M
  BY <1>1, <1>3, Constants DEF SeqnumAfter
<1> QED BY <1>1, <1>2, <1>3

\* recv_thread_send transmits the oldest call.
LEMMA TransmitStep ==
  ASSUME TypeInv, AckInv, SendPop
  PROVE  \E numbered \in BOOLEAN : Service!Transmit(numbered)
<1> DEFINE c == Head(send_queue)
<1>1. /\ send_queue # <<>> /\ send_queue' = Tail(send_queue) /\ active' = active \cup {c}
      /\ UNCHANGED <<caller, sets>>
      /\ Numbered(c) => /\ seqnum' = [seqnum EXCEPT ![c] = next_seqnum]
                        /\ next_seqnum' = SeqnumAfter(next_seqnum)
      /\ ~Numbered(c) => UNCHANGED <<seqnum, next_seqnum>>
  BY DEF SendPop, ackVars
<1>2. send_queue \in Seq(Callers) /\ NoDup(send_queue)
  BY DEF TypeInv, TypeOK, AckInv, SendQueueOK
<1>3. c \in Callers /\ In(c, send_queue)
  BY <1>1, <1>2, Popped
<1> HIDE DEF c
<1>4. /\ c \notin active /\ caller[c] # "idle" /\ sets[c] = 0 /\ next_seqnum \in 0..SeqMax
      /\ seqnum \in [Callers -> 0..SeqMax]
  BY <1>3 DEF AckInv, SendQueueOK, CountOK, Frames, TypeInv, TypeOK
<1>5. /\ Status'[c] = "sent" /\ Number'[c] = seqnum'[c] /\ Number[c] = seqnum[c]
      /\ \A d \in Callers : d # c => Status'[d] = Status[d] /\ Number'[d] = Number[d]
  <2>1. \A d \in Callers : d # c => seqnum'[d] = seqnum[d] /\ (d \in active' <=> d \in active)
    BY <1>1, <1>4
  <2>2. c \in active' /\ caller'[c] # "idle" /\ sets'[c] = 0
    BY <1>1, <1>4
  <2>3. Status'[c] = "sent" /\ Number'[c] = seqnum'[c] /\ Number[c] = seqnum[c]
    BY <1>3, <1>4, <2>2, StatusOf, StatusOfNext
  <2> QED BY <1>1, <2>1, <2>3, StatusSame
<1>6. Status' = [Status EXCEPT ![c] = "sent"]
  BY <1>3, <1>5, StatusChanged
<1>7. CASE Numbered(c)
  <2>1. Number'[c] = next_seqnum /\ next_seqnum' = (next_seqnum + 1) % (SeqMax + 1)
    BY <1>1, <1>3, <1>4, <1>5, <1>7, SeqnumModulo
  <2>2. Number' = [Number EXCEPT ![c] = next_seqnum]
    BY <1>3, <1>5, <2>1, StatusChanged
  <2>3. Service!Transmit(TRUE)
    BY <1>1, <1>6, <2>1, <2>2 DEF Service!Transmit, Status, Number, c
  <2> QED BY <2>3
<1>8. CASE ~Numbered(c)
  <2>1. Number' = Number /\ next_seqnum' = next_seqnum
    BY <1>1, <1>3, <1>5, <1>8, StatusChanged
  <2>2. Service!Transmit(FALSE)
    BY <1>1, <1>6, <2>1 DEF Service!Transmit, Status, Number, c
  <2> QED BY <2>2
<1> QED BY <1>7, <1>8

\* An endpoint acknowledges a frame: the last one acknowledges the call.
LEMMA AcknowledgeStep ==
  ASSUME TypeInv, AckInv, NEW f \in Frames, NEW e \in Endpoints, NEW ok \in BOOLEAN,
         e \notin by[f], Ack(f, e, ok), f \in Callers => caller[f] # "idle",
         UNCHANGED <<active, caller, seqnum, send_queue, next_seqnum>>
  PROVE  (\E c \in Callers : Service!Acknowledge(c)) \/ UNCHANGED Service!svars
<1>1. sets[f] = 0 /\ sets \in [Frames -> Nat] /\ active \subseteq Callers /\ Callers \subseteq Frames
  BY DEF AckInv, CountOK, TypeInv, TypeOK, Frames
<1>2. CASE f \in active /\ SentFinish(f)
  <2>1. sets'[f] = 1 /\ \A d \in Callers : d # f => sets'[d] = sets[d]
    BY <1>1, <1>2 DEF Ack
  <2>2. f \in Callers
    BY <1>1, <1>2
  <2>3. Status[f] = "sent" /\ Status'[f] = "done" /\ Number'[f] = Number[f]
    BY <1>1, <1>2, <2>1, <2>2, StatusOf, StatusOfNext
  <2>4. \A d \in Callers : d # f => Status'[d] = Status[d] /\ Number'[d] = Number[d]
    BY <2>1, StatusSame
  <2>5. Status' = [Status EXCEPT ![f] = "done"] /\ Number' = Number
    BY <2>2, <2>3, <2>4, StatusChanged
  <2>6. Service!Acknowledge(f)
    BY <2>3, <2>5 DEF Service!Acknowledge, Status, Number
  <2> QED BY <2>2, <2>6
<1>3. CASE ~(f \in active /\ SentFinish(f))
  <2>1. sets' = sets
    BY <1>3 DEF Ack
  <2> QED BY <2>1, StatusSame, StatusUnchanged
<1> QED BY <1>2, <1>3

\* send_future.get() returns.
LEMMA ReturnStep ==
  ASSUME TypeInv, AckInv, NEW c \in Callers, Return(c)
  PROVE  Service!Return(c)
<1>1. /\ caller[c] = "wait" /\ sets[c] > 0 /\ caller'[c] = "idle"
      /\ UNCHANGED <<send_queue, next_seqnum, seqnum, active, sets>>
      /\ \A d \in Callers : d # c => caller'[d] = caller[d]
  BY DEF Return, frameVars, ackVars, TypeInv, TypeOK
<1>2. c \in active /\ sets[c] # 0
  BY <1>1 DEF AckInv, CountOK, Frames
<1>3. /\ Status[c] = "done" /\ Status'[c] = "idle" /\ Number'[c] = 0
      /\ \A d \in Callers : d # c => Status'[d] = Status[d] /\ Number'[d] = Number[d]
  BY <1>1, <1>2, StatusOf, StatusOfNext, StatusSame
<1>4. Status' = [Status EXCEPT ![c] = "idle"] /\ Number' = [Number EXCEPT ![c] = 0]
  BY <1>3, StatusChanged
<1> QED BY <1>1, <1>3, <1>4 DEF Service!Return, Status, Number

\* What a driver that acknowledges inside send_data does: it acknowledges the frame in
\* the bus thread's hand, for the first time.
LEMMA SyncAcks ==
  ASSUME TypeInv, AckInv, SendSync
  PROVE  /\ cur \in Frames /\ ep \in Endpoints /\ Ack(cur, ep, TRUE) /\ ep \notin by[cur]
         /\ cur \in Callers => caller[cur] # "idle"
         /\ pending' = pending /\ ep' = ep + 1
         /\ UNCHANGED <<active, caller, req, seqnum, send_queue, next_seqnum, cur>>
<1> DEFINE q == Append(pending[ep], cur)
<1>1. /\ cur \in Frames /\ cur # NoFrame /\ ep \in Endpoints /\ pending[ep] = <<>>
      /\ N \in Nat /\ ep \in 1..N /\ pending \in [Endpoints -> Seq(Frames)]
  BY Constants, Identities DEF SendSync, TypeInv, TypeOK, PendingOK, CurOK, Frames, Endpoints
<1>2. q = <<cur>> /\ Head(q) = cur /\ Tail(q) = <<>>
  BY <1>1
<1>3. /\ Ack(cur, ep, TRUE) /\ pending' = [pending EXCEPT ![ep] = <<>>] /\ ep' = ep + 1
      /\ UNCHANGED <<active, caller, req, seqnum, send_queue, next_seqnum, cur>>
  BY <1>2 DEF SendSync
<1>4. pending' = pending
  BY <1>1, <1>3
<1>5. ep \notin by[cur] /\ (cur \in Callers => caller[cur] # "idle")
  BY <1>1 DEF AckInv, CursorOK, IdleOK
<1> QED BY <1>1, <1>3, <1>4, <1>5

\* What an answer of an adapter does while frames are pending: it acknowledges the
\* oldest of them, for the first time.
LEMMA AnswerAcks ==
  ASSUME TypeInv, AckInv, NEW ok \in BOOLEAN, ReadAnswer(ok), psc[ep] > 0
  PROVE  \E f \in Frames :
           /\ f = Head(pending[ep]) /\ pending[ep] # <<>> /\ In(f, pending[ep])
           /\ ep \in Endpoints /\ Ack(f, ep, ok) /\ ep \notin by[f]
           /\ f \in Callers => caller[f] # "idle"
           /\ pending' = [pending EXCEPT ![ep] = Tail(@)]
           /\ UNCHANGED <<active, caller, req, seqnum, send_queue, next_seqnum, cur, ep>>
<1> DEFINE f == Head(pending[ep])
<1>1. /\ Ack(f, ep, ok) /\ pending' = [pending EXCEPT ![ep] = Tail(@)] /\ ep \in Endpoints
      /\ UNCHANGED <<active, caller, req, seqnum, send_queue, next_seqnum, cur, ep>>
  BY Constants DEF ReadAnswer
<1>2. pending[ep] \in Seq(Frames) /\ pending[ep] # <<>> /\ NoDup(pending[ep])
  BY <1>1, Constants DEF TypeInv, TypeOK, PendingOK, AckInv, HoldOK, ReadAnswer
<1>3. f \in Frames /\ In(f, pending[ep])
  BY <1>2, Popped
<1> HIDE DEF f
<1>4. ep \notin by[f] /\ (f \in Callers => caller[f] # "idle")
  BY <1>1, <1>3 DEF AckInv, HoldOK, IdleOK
<1>5. f = Head(pending[ep])
  BY DEF f
<1> QED BY <1>1, <1>2, <1>3, <1>4, <1>5

\* Every step of the bus is a step of the service, or none.
LEMMA ServiceStep == TypeInv /\ AckInv /\ [Next]_vars => [Service!Next]_(Service!svars)
<1> SUFFICES ASSUME TypeInv, AckInv, [Next]_vars
             PROVE  Service!Next \/ UNCHANGED Service!svars
  OBVIOUS
<1>a. caller \in [Callers -> {"idle", "trigger", "wait"}]
  BY DEF TypeInv, TypeOK
<1>1. ASSUME UNCHANGED <<send_queue, next_seqnum, caller, active, sets, seqnum>>
      PROVE  UNCHANGED Service!svars
  BY <1>1, StatusSame, StatusUnchanged
<1>2. ASSUME NEW c \in Callers, NEW r \in Requests, SendFrame(c, r) PROVE Service!Next
  BY <1>2, AcceptStep DEF Service!Next
<1>3. ASSUME NEW c \in Callers, Return(c) PROVE Service!Next
  BY <1>3, ReturnStep DEF Service!Next
<1>4. CASE SendPop
  BY <1>4, TransmitStep DEF Service!Next
<1>5. CASE SendSync
  BY <1>5, SyncAcks, AcknowledgeStep DEF Service!Next
<1>6. ASSUME NEW ok \in BOOLEAN, ReadAnswer(ok) PROVE Service!Next \/ UNCHANGED Service!svars
  <2>1. CASE psc[ep] > 0
    BY <1>6, <2>1, AnswerAcks, AcknowledgeStep DEF Service!Next
  <2>2. CASE ~(psc[ep] > 0)
    BY <1>1, <1>6, <2>2 DEF ReadAnswer, ackVars
  <2> QED BY <2>1, <2>2
<1>7. ASSUME NEW c \in Callers, Trigger(c) PROVE UNCHANGED Service!svars
  <2>1. /\ UNCHANGED <<send_queue, next_seqnum, active, sets, seqnum>>
        /\ \A d \in Callers : d # c => caller'[d] = caller[d]
        /\ caller[c] # "idle" /\ caller'[c] # "idle"
    BY <1>7, <1>a DEF Trigger, frameVars, ackVars
  <2>2. \A d \in Callers : Status'[d] = Status[d] /\ Number'[d] = Number[d]
    BY <2>1, StatusOf, StatusOfNext
  <2> QED BY <2>1, <2>2, StatusUnchanged
<1>8. CASE Deliver
  <2>1. UNCHANGED <<send_queue, next_seqnum, caller, seqnum>>
    BY <1>8 DEF Deliver
  <2>2. \A c \in Callers : sets'[c] = sets[c] /\ (c \in active' <=> c \in active)
    <3>1. CASE Forwarding
      <4>1. PICK f \in FreeSlots : NewFrame(f)
        BY <1>8, <3>1, Zenon DEF Deliver
      <4>2. f \in RxFrames /\ f \notin Callers
        BY Identities DEF FreeSlots
      <4> QED BY <4>1, <4>2 DEF NewFrame, TypeInv, TypeOK, Frames
    <3>2. CASE ~Forwarding
      <4>1. UNCHANGED <<active, ackVars>>
        BY <1>8, <3>2, Zenon DEF Deliver
      <4> QED BY <4>1 DEF ackVars
    <3> QED BY <3>1, <3>2
  <2> QED BY <2>1, <2>2, StatusSame, StatusUnchanged
<1>9. ASSUME NEW ev \in SUBSET Sources, Wait(ev) PROVE UNCHANGED Service!svars
  BY <1>1, <1>9 DEF Wait, frameVars, ackVars
<1>10. CASE ForwardPop \/ DrainEnd \/ SendSlcan \/ SkipOrigin \/ SendDone
  BY <1>1, <1>10 DEF ForwardPop, DrainEnd, SendSlcan, SkipOrigin, SendDone, frameVars, ackVars
<1>11. CASE ReadFrame \/ ReadEnd \/ ReadDone \/ DriverThrows
  BY <1>1, <1>11 DEF ReadFrame, ReadEnd, ReadDone, DriverThrows, frameVars, ackVars
<1>12. ASSUME NEW e \in Endpoints, AdapterAnswers(e) \/ Arrive(e) PROVE UNCHANGED Service!svars
  BY <1>1, <1>12 DEF AdapterAnswers, Arrive, frameVars, ackVars
<1>13. CASE UNCHANGED vars
  BY <1>1, <1>13 DEF vars, frameVars, ackVars
<1> QED
  BY <1>2, <1>3, <1>4, <1>5, <1>6, <1>7, <1>8, <1>9, <1>10, <1>11, <1>12, <1>13
  DEF Next, BusThread

\* Bus implements SendService for any callers, endpoints and numbers: calls are
\* transmitted in the order in which they were accepted, numbers are consecutive modulo
\* SeqMax + 1, and a call is acknowledged once, after its transmission and before it
\* returns.
THEOREM BusImplementsSendService == Spec => ImplementsSendService
<1>1. Init => Service!Init
  <2> SUFFICES ASSUME Init PROVE Service!Init
    OBVIOUS
  <2>1. \A c \in Callers : Status[c] = "idle" /\ Number[c] = 0
    BY StatusOf DEF Init
  <2>2. Status = [c \in Callers |-> "idle"] /\ Number = [c \in Callers |-> 0]
    BY <2>1, StatusType
  <2> QED BY <2>2 DEF Init, Service!Init, Status, Number
<1> QED
  BY <1>1, ServiceStep, TypeInvariant, AckInvariant, PTL
  DEF Spec, ImplementsSendService, Service!Spec

-----------------------------------------------------------------------------
(***************************************************************************)
(* The sequence numbers in flight. recv_thread_send gives consecutive      *)
(* numbers, send_frame blocks its caller, and an endpoint acknowledges in  *)
(* the order in which it was given the frames. So a frame overtakes no     *)
(* other: the frames that were given a number after an unacknowledged      *)
(* frame c, and that are not acknowledged either, are all the numbers      *)
(* given since c, and they are fewer than there are callers.               *)
(***************************************************************************)

\* The sent frames that some endpoint has not acknowledged.
Open == {c \in Callers : c \in active /\ by[c] # Endpoints}

\* Endpoint e has been given frame c, or will be by the loop under way, and has not
\* acknowledged it.
Waits(c, e) == In(c, pending[e]) \/ (c = cur /\ ep <= e)

\* ... and c before d.
Before(c, d, e) == Precedes(c, d, pending[e]) \/ (In(c, pending[e]) /\ d = cur /\ ep <= e)

\* The numbered frames sent after c.
Later(c) == {d \in Open : Numbered(d) /\ \E e \in Endpoints : Before(c, d, e)}

OpenOK == \A c \in Open : \A e \in Endpoints : e \in by[c] \/ Waits(c, e)

ComparableOK == \A c, d \in Open : by[c] \subseteq by[d] \/ by[d] \subseteq by[c]

BeforeOK ==
  \A c, d \in Open : \A e \in Endpoints : Before(c, d, e) =>
    by[d] \subseteq by[c] /\ \A g \in Endpoints : ~Before(d, c, g)

\* No endpoint sees the frames in another order, or acknowledges out of order.
OrderInv == OpenOK /\ ComparableOK /\ BeforeOK

\* The number of a frame and of those sent after it lead up to next_seqnum, with at
\* most one wrap.
NumbersOK ==
  Cardinality(Callers) <= SeqMax + 1 =>
    \A c \in Open : Numbered(c) =>
      \/ seqnum[c] + Cardinality(Later(c)) + 1 = next_seqnum
      \/ seqnum[c] + Cardinality(Later(c)) + 1 = next_seqnum + SeqMax + 1

-----------------------------------------------------------------------------
(* The order of the frames at one endpoint. *)

\* Precedes is a linear order on a queue that holds nothing twice.
LEMMA QueueOrder ==
  ASSUME NEW S, NEW s \in Seq(S), NoDup(s)
  PROVE  /\ \A x, y : Precedes(x, y, s) => In(x, s) /\ In(y, s)
         /\ \A x, y : In(x, s) /\ In(y, s) /\ x # y => Precedes(x, y, s) \/ Precedes(y, x, s)
         /\ \A x, y, z : Precedes(x, y, s) /\ Precedes(y, z, s) => Precedes(x, z, s)
<1>1. DOMAIN s = 1..Len(s) /\ Len(s) \in Nat
  OBVIOUS
<1>2. \A x, y : Precedes(x, y, s) => In(x, s) /\ In(y, s)
  BY DEF Precedes, In
<1>3. ASSUME NEW x, NEW y, In(x, s), In(y, s), x # y PROVE Precedes(x, y, s) \/ Precedes(y, x, s)
  <2>1. PICK i \in 1..Len(s) : s[i] = x
    BY <1>1, <1>3 DEF In
  <2>2. PICK j \in 1..Len(s) : s[j] = y
    BY <1>1, <1>3 DEF In
  <2>3. i < j \/ j < i
    BY <1>3, <2>1, <2>2
  <2> QED BY <1>1, <2>1, <2>2, <2>3 DEF Precedes
<1>4. ASSUME NEW x, NEW y, NEW z, Precedes(x, y, s), Precedes(y, z, s) PROVE Precedes(x, z, s)
  <2>1. PICK i, j \in 1..Len(s) : i < j /\ s[i] = x /\ s[j] = y
    BY <1>1, <1>4 DEF Precedes
  <2>2. PICK k, l \in 1..Len(s) : k < l /\ s[k] = y /\ s[l] = z
    BY <1>1, <1>4 DEF Precedes
  <2>3. j = k
    BY <1>1, <2>1, <2>2 DEF NoDup
  <2>4. i < l
    BY <1>1, <2>1, <2>2, <2>3
  <2> QED BY <1>1, <2>1, <2>2, <2>4 DEF Precedes
<1> QED BY <1>2, <1>3, <1>4

\* Two frames that an endpoint waits for are ordered; it acknowledged neither.
LEMMA WaitOrder ==
  ASSUME TypeInv, AckInv, NEW e \in Endpoints, NEW c \in Callers
  PROVE  /\ Waits(c, e) => e \notin by[c] /\ caller[c] # "idle"
         /\ \A d \in Callers : Before(c, d, e) => Waits(c, e) /\ Waits(d, e)
         /\ \A d \in Callers : Waits(c, e) /\ Waits(d, e) /\ c # d => Before(c, d, e) \/ Before(d, c, e)
         /\ \A d, x \in Callers : Before(c, d, e) /\ Before(d, x, e) => Before(c, x, e)
<1>1. /\ pending[e] \in Seq(Frames) /\ NoDup(pending[e]) /\ c \in Frames /\ N \in Nat
      /\ ep \in 1..(N + 1) /\ e \in 1..N /\ c # NoFrame
  BY Constants, Identities DEF TypeInv, TypeOK, AckInv, HoldOK, Frames, Endpoints
<1>2. /\ \A x, y : Precedes(x, y, pending[e]) => In(x, pending[e]) /\ In(y, pending[e])
      /\ \A x, y : In(x, pending[e]) /\ In(y, pending[e]) /\ x # y =>
           Precedes(x, y, pending[e]) \/ Precedes(y, x, pending[e])
      /\ \A x, y, z : Precedes(x, y, pending[e]) /\ Precedes(y, z, pending[e]) =>
           Precedes(x, z, pending[e])
  BY <1>1, QueueOrder
<1>3. ~(In(cur, pending[e]) /\ ep <= e) \/ cur = NoFrame
  <2>1. ep <= e => e >= ep
    BY <1>1
  <2> QED BY <2>1 DEF AckInv, CursorOK
<1>4. Waits(c, e) => e \notin by[c] /\ caller[c] # "idle"
  <2>1. ep <= e => e >= ep /\ ep <= N
    BY <1>1
  <2>2. In(c, pending[e]) => e \notin by[c] /\ caller[c] # "idle"
    BY <1>1 DEF AckInv, HoldOK, IdleOK
  <2>3. c = cur /\ ep <= e => e \notin by[c] /\ caller[c] # "idle"
    BY <1>1, <2>1 DEF AckInv, CursorOK, IdleOK
  <2> QED BY <2>2, <2>3 DEF Waits
<1>5. \A d \in Callers : Before(c, d, e) => Waits(c, e) /\ Waits(d, e)
  BY <1>2 DEF Before, Waits
<1>6. \A d \in Callers : Waits(c, e) /\ Waits(d, e) /\ c # d => Before(c, d, e) \/ Before(d, c, e)
  BY <1>2 DEF Before, Waits
<1>7. \A d, x \in Callers : Before(c, d, e) /\ Before(d, x, e) => Before(c, x, e)
  <2>1. NoFrame \notin Callers
    BY Identities DEF Frames
  <2> QED BY <1>2, <1>3, <2>1 DEF Before
<1> QED BY <1>4, <1>5, <1>6, <1>7

\* Two open frames have an endpoint that waits for both.
LEMMA OpenOrdered ==
  ASSUME TypeInv, AckInv, OrderInv, NEW c \in Open, NEW d \in Open, c # d
  PROVE  \E e \in Endpoints : Before(c, d, e) \/ Before(d, c, e)
<1>1. /\ c \in Callers /\ d \in Callers /\ by[c] # Endpoints /\ by[d] # Endpoints
      /\ by[c] \subseteq Endpoints /\ by[d] \subseteq Endpoints
  BY DEF Open, TypeInv, TypeOK, Frames
<1>2. PICK e \in Endpoints : e \notin by[c] /\ e \notin by[d]
  BY <1>1 DEF OrderInv, ComparableOK
<1>3. Waits(c, e) /\ Waits(d, e)
  BY <1>2 DEF OrderInv, OpenOK
<1> QED BY <1>1, <1>3, WaitOrder

\* What was sent after d was sent after c, if d was.
LEMMA LaterNested ==
  ASSUME TypeInv, AckInv, OrderInv, NEW c \in Open, NEW d \in Open, NEW e \in Endpoints,
         Before(c, d, e), Numbered(d)
  PROVE  Later(d) \cup {d} \subseteq Later(c) /\ d \notin Later(d)
<1>1. d \in Later(c)
  BY DEF Later
<1>2. d \notin Later(d)
  BY DEF Later, OrderInv, BeforeOK
<1>3. ASSUME NEW x \in Later(d) PROVE x \in Later(c)
  <2>1. PICK g \in Endpoints : x \in Open /\ Numbered(x) /\ Before(d, x, g)
    BY DEF Later
  <2>2. x # c
    BY <2>1 DEF OrderInv, BeforeOK
  <2>3. (\E h \in Endpoints : Before(c, x, h)) \/ (\E h \in Endpoints : Before(x, c, h))
    BY <2>1, <2>2, OpenOrdered
  <2>4. ASSUME NEW h \in Endpoints, Before(x, c, h) PROVE FALSE
    <3>1. by[c] \subseteq by[x] /\ by[x] \subseteq by[d] /\ by[d] \subseteq by[c]
      BY <2>1, <2>4 DEF OrderInv, BeforeOK
    <3>2. /\ c \in Callers /\ d \in Callers /\ x \in Callers
          /\ by[c] # Endpoints /\ by[c] \subseteq Endpoints
      BY <2>1 DEF Open, TypeInv, TypeOK, Frames
    <3>3. PICK k \in Endpoints : k \notin by[c] /\ k \notin by[d] /\ k \notin by[x]
      BY <3>1, <3>2
    <3>4. Waits(c, k) /\ Waits(d, k) /\ Waits(x, k)
      BY <2>1, <3>3 DEF OrderInv, OpenOK
    <3>5. ~Before(d, c, k) /\ ~Before(x, d, k) /\ ~Before(c, x, k) /\ c # d /\ d # x
      BY <2>1, <2>4 DEF OrderInv, BeforeOK
    <3>6. Before(c, d, k) /\ Before(d, x, k)
      BY <3>2, <3>4, <3>5, WaitOrder
    <3> QED BY <3>2, <3>5, <3>6, WaitOrder
  <2> QED BY <2>1, <2>3, <2>4 DEF Later
<1> QED BY <1>1, <1>2, <1>3

\* Sets of callers are finite.
LEMMA CallerSets ==
  ASSUME NEW S, S \subseteq Callers
  PROVE  /\ IsFiniteSet(S) /\ Cardinality(S) \in Nat /\ Cardinality(Callers) \in Nat
         /\ Cardinality(S) <= Cardinality(Callers)
         /\ \A c \in Callers : c \notin S => Cardinality(S) < Cardinality(Callers)
         /\ \A c, d \in Callers : c # d /\ c \notin S /\ d \notin S =>
              Cardinality(S) + 1 < Cardinality(Callers)
<1>1. IsFiniteSet(Callers)
  BY ConstantsAssumption
<1>2. /\ \A T \in SUBSET Callers : IsFiniteSet(T) /\ Cardinality(T) \in Nat
      /\ \A T \in SUBSET Callers : Cardinality(T) <= Cardinality(Callers)
      /\ \A T \in SUBSET Callers : Cardinality(T) = Cardinality(Callers) => T = Callers
  BY <1>1, FS_Subset, FS_CardinalityType
<1>3. ASSUME NEW c \in Callers, NEW d \in Callers, c # d, c \notin S, d \notin S
      PROVE  Cardinality(S) + 1 < Cardinality(Callers)
  <2>1. Cardinality(S \cup {c}) = Cardinality(S) + 1
    BY <1>2, <1>3, FS_AddElement
  <2>2. S \cup {c} \in SUBSET Callers /\ S \cup {c} # Callers
    BY <1>3
  <2>3. /\ Cardinality(S \cup {c}) <= Cardinality(Callers)
        /\ Cardinality(S \cup {c}) # Cardinality(Callers)
    BY <1>2, <2>2
  <2>4. Cardinality(S) \in Nat /\ Cardinality(Callers) \in Nat
    BY <1>2
  <2> QED BY <2>1, <2>3, <2>4
<1>4. ASSUME NEW c \in Callers, c \notin S PROVE Cardinality(S) < Cardinality(Callers)
  BY <1>2, <1>4
<1> QED BY <1>2, <1>3, <1>4

\* Two requests in flight carry different numbers.
LEMMA NumbersDistinct ==
  ASSUME N > 0, TypeInv, AckInv, OrderInv, NumbersOK
  PROVE  DistinctSeqnums
<1> SUFFICES ASSUME Cardinality(Callers) <= SeqMax + 1,
                    NEW c \in Outstanding, NEW d \in Outstanding, c # d
             PROVE  seqnum[c] # seqnum[d]
  BY DEF DistinctSeqnums
<1>1. \A x \in Outstanding : x \in Callers /\ Numbered(x) /\ x \in Open
  BY DEF Outstanding, Open, AckInv, CountOK, Frames
<1>2. ASSUME NEW x \in Outstanding, NEW y \in Outstanding, NEW e \in Endpoints, Before(x, y, e)
      PROVE  seqnum[x] # seqnum[y]
  <2>1. SeqMax \in Nat
    BY Constants
  <2>2. x \in Open /\ y \in Open /\ Numbered(x) /\ Numbered(y) /\ x \in Callers /\ y \in Callers
    BY <1>1
  <2>3. Later(y) \cup {y} \subseteq Later(x) /\ y \notin Later(y)
    BY <1>2, <2>2, LaterNested
  <2>4. Later(x) \subseteq Callers /\ Later(y) \subseteq Callers /\ x \notin Later(x)
    BY <2>2 DEF Later, Open, OrderInv, BeforeOK
  <2>5. /\ Cardinality(Later(x)) \in Nat /\ Cardinality(Later(y)) \in Nat
        /\ Cardinality(Callers) \in Nat
        /\ Cardinality(Later(x)) < Cardinality(Callers)
        /\ IsFiniteSet(Later(x)) /\ IsFiniteSet(Later(y))
    BY <2>2, <2>4, CallerSets
  <2>6. Cardinality(Later(y)) + 1 <= Cardinality(Later(x))
    <3>1. Cardinality(Later(y) \cup {y}) = Cardinality(Later(y)) + 1
      BY <2>3, <2>5, FS_AddElement
    <3>2. Cardinality(Later(y) \cup {y}) <= Cardinality(Later(x))
      BY <2>3, <2>5, FS_Subset
    <3> QED BY <3>1, <3>2
  <2>7. /\ seqnum[x] \in Nat /\ seqnum[y] \in Nat /\ next_seqnum \in Nat
    BY <2>2, Constants DEF TypeInv, TypeOK
  <2>8. /\ \/ seqnum[x] + Cardinality(Later(x)) + 1 = next_seqnum
           \/ seqnum[x] + Cardinality(Later(x)) + 1 = next_seqnum + SeqMax + 1
        /\ \/ seqnum[y] + Cardinality(Later(y)) + 1 = next_seqnum
           \/ seqnum[y] + Cardinality(Later(y)) + 1 = next_seqnum + SeqMax + 1
    BY <2>2 DEF NumbersOK
  <2> QED BY <2>1, <2>5, <2>6, <2>7, <2>8
<1>3. \E e \in Endpoints : Before(c, d, e) \/ Before(d, c, e)
  BY <1>1, OpenOrdered
<1> QED BY <1>2, <1>3

-----------------------------------------------------------------------------
(* What the steps do to the order. *)

\* Steps that neither send nor acknowledge.
LEMMA SameOrder ==
  ASSUME OrderInv, NumbersOK, Open' = Open, next_seqnum' = next_seqnum,
         \A c \in Open : by'[c] = by[c] /\ seqnum'[c] = seqnum[c] /\ (Numbered(c)' <=> Numbered(c)),
         \A c \in Open : \A e \in Endpoints : Waits(c, e)' <=> Waits(c, e),
         \A c, d \in Open : \A e \in Endpoints : Before(c, d, e)' <=> Before(c, d, e)
  PROVE  OrderInv' /\ NumbersOK'
<1>1. OrderInv'
  BY DEF OrderInv, OpenOK, ComparableOK, BeforeOK
<1>2. \A c \in Open : Later(c)' = Later(c)
  BY DEF Later
<1>3. NumbersOK'
  BY <1>2 DEF NumbersOK
<1> QED BY <1>1, <1>3

\* An endpoint acknowledges the first frame it waits for.
LEMMA AckOrder ==
  ASSUME TypeInv, AckInv, OrderInv, NumbersOK, NEW f \in Frames, NEW e \in Endpoints,
         by' = [by EXCEPT ![f] = @ \cup {e}], UNCHANGED <<active, req, seqnum, next_seqnum>>,
         \A c \in Callers : \A g \in Endpoints :
           Waits(c, g)' <=> Waits(c, g) /\ ~(g = e /\ c = f),
         \A c, d \in Callers : \A g \in Endpoints :
           Before(c, d, g)' <=> Before(c, d, g) /\ ~(g = e /\ c = f),
         \A c \in Callers : Waits(c, e) /\ c # f => Before(f, c, e)
  PROVE  OrderInv' /\ NumbersOK'
<1>1. /\ by \in [Frames -> SUBSET Endpoints] /\ Callers \subseteq Frames
      /\ by'[f] = by[f] \cup {e} /\ \A c \in Frames : c # f => by'[c] = by[c]
  BY DEF TypeInv, TypeOK, Frames
<1>2. /\ \A c \in Open : c \in Callers /\ c \in Frames
      /\ Open' \subseteq Open /\ \A c \in Open : c # f => c \in Open'
      /\ \A c \in Open : c \in Open' <=> by'[c] # Endpoints
  BY <1>1 DEF Open
<1>3. ASSUME NEW c \in Open, f \in Open, c # f, e \notin by[c]
      PROVE  by[c] \subseteq by[f] /\ \A g \in Endpoints : ~Before(c, f, g)
  <2>1. Before(f, c, e)
    BY <1>2, <1>3 DEF OrderInv, OpenOK
  <2> QED BY <1>3, <2>1 DEF OrderInv, BeforeOK
<1>4. OpenOK'
  <2> SUFFICES ASSUME NEW c \in Open', NEW g \in Endpoints PROVE g \in by'[c] \/ Waits(c, g)'
    BY DEF OpenOK
  <2>1. c \in Open /\ (g \in by[c] \/ Waits(c, g))
    BY <1>2 DEF OrderInv, OpenOK
  <2> QED BY <1>1, <1>2, <2>1
<1>5. ComparableOK'
  <2> SUFFICES ASSUME NEW c \in Open', NEW d \in Open'
               PROVE  by'[c] \subseteq by'[d] \/ by'[d] \subseteq by'[c]
    BY DEF ComparableOK
  <2>1. c \in Open /\ d \in Open /\ (by[c] \subseteq by[d] \/ by[d] \subseteq by[c])
    BY <1>2 DEF OrderInv, ComparableOK
  <2>2. CASE c # f /\ d # f
    BY <1>1, <1>2, <2>1, <2>2
  <2>3. CASE c = f /\ d # f
    BY <1>1, <1>2, <1>3, <2>1, <2>3
  <2>4. CASE c # f /\ d = f
    BY <1>1, <1>2, <1>3, <2>1, <2>4
  <2> QED BY <2>2, <2>3, <2>4
<1>6. BeforeOK'
  <2> SUFFICES ASSUME NEW c \in Open', NEW d \in Open', NEW g \in Endpoints, Before(c, d, g)'
               PROVE  by'[d] \subseteq by'[c] /\ \A h \in Endpoints : ~Before(d, c, h)'
    BY DEF BeforeOK
  <2>1. c \in Open /\ d \in Open /\ Before(c, d, g)
    BY <1>2
  <2>2. by[d] \subseteq by[c] /\ \A h \in Endpoints : ~Before(d, c, h)
    BY <2>1 DEF OrderInv, BeforeOK
  <2>3. d = f => e \in by'[c]
    BY <1>1, <1>2, <1>3, <2>1
  <2> QED BY <1>1, <1>2, <2>1, <2>2, <2>3
<1>7. ASSUME NEW c \in Open' PROVE Later(c)' = Later(c)
  <2>0. c \in Open /\ c \in Callers
    BY <1>2
  <2>1. ASSUME NEW d \in Later(c)' PROVE d \in Later(c)
    <3>1. d \in Open' /\ d \in Open /\ Numbered(d) /\ \E g \in Endpoints : Before(c, d, g)'
      BY <1>2 DEF Later, Numbered
    <3>2. \E g \in Endpoints : Before(c, d, g)
      BY <1>2, <2>0, <3>1
    <3> QED BY <3>1, <3>2 DEF Later
  <2>2. ASSUME NEW d \in Later(c) PROVE d \in Later(c)'
    <3>1. PICK g \in Endpoints : d \in Open /\ Numbered(d) /\ Before(c, d, g)
      BY DEF Later
    <3>2. by[d] \subseteq by[c] /\ (\A h \in Endpoints : ~Before(d, c, h)) /\ c # d
      BY <2>0, <3>1 DEF OrderInv, BeforeOK
    <3>3. d \in Open'
      <4>1. d = f => e \in by[c]
        BY <1>3, <2>0, <3>1, <3>2
      <4>2. by'[c] # Endpoints /\ by[c] \subseteq by'[c] /\ by'[c] \subseteq Endpoints
        BY <1>1, <1>2, <2>0
      <4>3. d = f => by'[d] \subseteq by'[c]
        BY <1>1, <3>2, <4>1, <4>2
      <4> QED BY <1>2, <3>1, <4>2, <4>3
    <3>4. \E h \in Endpoints : Before(c, d, h)'
      <4>1. CASE ~(g = e /\ c = f)
        BY <1>2, <2>0, <3>1, <4>1
      <4>2. CASE g = e /\ c = f
        <5>1. by'[c] # Endpoints /\ by'[c] \subseteq Endpoints /\ by'[c] = by[c] \cup {e}
          BY <1>1, <1>2, <2>0, <4>2
        <5>2. PICK h \in Endpoints : h # e /\ h \notin by[c] /\ h \notin by[d]
          BY <3>2, <5>1
        <5>3. Waits(c, h) /\ Waits(d, h)
          BY <2>0, <3>1, <5>2 DEF OrderInv, OpenOK
        <5>4. Before(c, d, h)
          BY <1>2, <2>0, <3>1, <3>2, <5>3, WaitOrder
        <5> QED BY <1>2, <2>0, <3>1, <5>2, <5>4
      <4> QED BY <4>1, <4>2
    <3> QED BY <3>1, <3>3, <3>4 DEF Later, Numbered
  <2> QED BY <2>1, <2>2
<1>8. NumbersOK'
  <2>1. \A c \in Open' : (Numbered(c)' <=> Numbered(c)) /\ c \in Open
    BY <1>2 DEF Numbered
  <2> QED BY <1>7, <2>1 DEF NumbersOK
<1> QED BY <1>4, <1>5, <1>6, <1>8 DEF OrderInv

\* recv_thread_send takes a frame: it comes after all that are open, with the next number.
LEMMA PopOrder ==
  ASSUME TypeInv, AckInv, OrderInv, NumbersOK, SendPop
  PROVE  OrderInv' /\ NumbersOK'
<1>0. PICK n : n = Head(send_queue)
  OBVIOUS
<1>1. /\ pc = "pop" /\ cur' = n /\ ep' = 1 /\ active' = active \cup {n} /\ send_queue # <<>>
      /\ UNCHANGED <<pending, by, req>>
      /\ Numbered(n) => /\ seqnum' = [seqnum EXCEPT ![n] = next_seqnum]
                        /\ next_seqnum' = SeqnumAfter(next_seqnum)
      /\ ~Numbered(n) => UNCHANGED <<seqnum, next_seqnum>>
  BY <1>0 DEF SendPop, ackVars
<1>2. send_queue \in Seq(Callers) /\ NoDup(send_queue)
  BY DEF TypeInv, TypeOK, AckInv, SendQueueOK
<1>3. n \in Callers /\ In(n, send_queue)
  BY <1>0, <1>1, <1>2, Popped
<1>4. /\ n \notin active /\ by[n] = {} /\ \A e \in Endpoints : ~In(n, pending[e])
      /\ cur = NoFrame /\ NoFrame \notin Callers /\ n \notin Open
  BY <1>1, <1>3, Identities DEF AckInv, SendQueueOK, CursorOK, Frames, Open
<1>5. \A e \in Endpoints : 1 <= e
  BY Constants DEF Endpoints
<1>6. /\ \A c \in Callers : \A e \in Endpoints :
           /\ Waits(c, e)' <=> Waits(c, e) \/ c = n
           /\ ~Waits(n, e)
      /\ \A c, d \in Callers : \A e \in Endpoints :
           Before(c, d, e)' <=> Before(c, d, e) \/ (Waits(c, e) /\ d = n)
  <2>1. \A c \in Callers : \A e \in Endpoints :
          (Waits(c, e)' <=> Waits(c, e) \/ c = n) /\ ~Waits(n, e)
    BY <1>1, <1>3, <1>4, <1>5 DEF Waits
  <2>2. \A c, d \in Callers : \A e \in Endpoints :
          Before(c, d, e)' <=> Before(c, d, e) \/ (Waits(c, e) /\ d = n)
    BY <1>1, <1>3, <1>4, <1>5 DEF Waits, Before
  <2> QED BY <2>1, <2>2
<1>7. \A c \in Callers : \A e \in Endpoints : ~Before(n, c, e) /\ ~Before(c, n, e) /\ ~Before(n, c, e)'
  BY <1>3, <1>6, WaitOrder
<1>8. /\ \A c \in Open : c \in Callers /\ c # n /\ c \in Open'
      /\ \A c \in Open' : c \in Open \/ c = n
  BY <1>1, <1>3, <1>4 DEF Open
<1>9. OrderInv'
  <2>1. OpenOK'
    BY <1>1, <1>3, <1>6, <1>8 DEF OrderInv, OpenOK
  <2>2. ComparableOK'
    BY <1>1, <1>4, <1>8 DEF OrderInv, ComparableOK
  <2>3. BeforeOK'
    <3> SUFFICES ASSUME NEW c \in Open', NEW d \in Open', NEW e \in Endpoints, Before(c, d, e)'
                 PROVE  by'[d] \subseteq by'[c] /\ \A g \in Endpoints : ~Before(d, c, g)'
      BY DEF BeforeOK
    <3>1. c \in Open
      BY <1>3, <1>7, <1>8
    <3>2. CASE d = n
      BY <1>1, <1>3, <1>4, <1>7, <1>8, <3>1, <3>2
    <3>3. CASE d \in Open
      BY <1>1, <1>3, <1>6, <1>8, <3>1, <3>3 DEF OrderInv, BeforeOK
    <3> QED BY <1>8, <3>2, <3>3
  <2> QED BY <2>1, <2>2, <2>3 DEF OrderInv
<1>10. \A c \in Callers : Numbered(c)' <=> Numbered(c)
  BY <1>1 DEF Numbered
<1>11. ASSUME NEW c \in Open
       PROVE  Later(c)' = IF Numbered(n) THEN Later(c) \cup {n} ELSE Later(c)
  <2>1. PICK e \in Endpoints : Waits(c, e)
    BY DEF Open, OrderInv, OpenOK, TypeInv, TypeOK, Frames
  <2>2. \A d \in Open : (\E g \in Endpoints : Before(c, d, g)') <=> \E g \in Endpoints : Before(c, d, g)
    BY <1>3, <1>6, <1>8
  <2>3. Before(c, n, e)' /\ n \in Open'
    <3>1. Endpoints # {}
      OBVIOUS
    <3>2. n \in Open'
      BY <1>1, <1>3, <1>4, <3>1 DEF Open
    <3> QED BY <1>3, <1>6, <1>8, <2>1, <3>2
  <2>4. ASSUME NEW d PROVE d \in Later(c)' <=> d \in Later(c) \/ (d = n /\ Numbered(n))
    BY <1>3, <1>4, <1>8, <1>10, <2>2, <2>3 DEF Later
  <2> QED BY <2>4
<1>12. Later(n)' = {}
  BY <1>7, <1>8 DEF Later, Open
<1>13. NumbersOK'
  <2> SUFFICES ASSUME Cardinality(Callers) <= SeqMax + 1, NEW c \in Open', Numbered(c)'
               PROVE  \/ seqnum'[c] + Cardinality(Later(c)') + 1 = next_seqnum'
                      \/ seqnum'[c] + Cardinality(Later(c)') + 1 = next_seqnum' + SeqMax + 1
    BY DEF NumbersOK
  <2>1. /\ SeqMax \in Nat /\ next_seqnum \in 0..SeqMax /\ seqnum \in [Callers -> 0..SeqMax]
        /\ c \in Callers /\ Numbered(c)
    BY <1>3, <1>8, <1>10, Constants DEF TypeInv, TypeOK
  <2>2. CASE c = n
    <3>1. Cardinality(Later(c)') = 0
      BY <1>12, <2>2, FS_EmptySet
    <3>2. seqnum'[c] = next_seqnum /\ next_seqnum' = SeqnumAfter(next_seqnum)
      BY <1>1, <2>1, <2>2
    <3> QED BY <2>1, <3>1, <3>2 DEF SeqnumAfter
  <2>3. CASE c \in Open
    <3>1. \/ seqnum[c] + Cardinality(Later(c)) + 1 = next_seqnum
          \/ seqnum[c] + Cardinality(Later(c)) + 1 = next_seqnum + SeqMax + 1
      BY <2>1, <2>3 DEF NumbersOK
    <3>2. seqnum'[c] = seqnum[c]
      BY <1>1, <1>8, <2>1, <2>3
    <3>3. CASE ~Numbered(n)
      BY <1>1, <1>11, <2>3, <3>1, <3>2, <3>3
    <3>4. CASE Numbered(n)
      <4>1. Later(c) \subseteq Callers /\ c \notin Later(c) /\ n \notin Later(c) /\ c # n
        BY <1>4, <1>8, <2>3 DEF Later, OrderInv, BeforeOK
      <4>2. /\ IsFiniteSet(Later(c)) /\ Cardinality(Later(c)) \in Nat /\ Cardinality(Callers) \in Nat
            /\ Cardinality(Later(c)) + 1 < Cardinality(Callers)
        BY <1>3, <2>1, <4>1, CallerSets
      <4>3. Cardinality(Later(c)') = Cardinality(Later(c)) + 1
        BY <1>11, <2>3, <3>4, <4>1, <4>2, FS_AddElement
      <4>4. next_seqnum' = SeqnumAfter(next_seqnum) /\ seqnum[c] \in 0..SeqMax
        BY <1>1, <2>1, <3>4
      <4> QED BY <2>1, <3>1, <3>2, <4>2, <4>3, <4>4 DEF SeqnumAfter
    <3> QED BY <3>3, <3>4
  <2> QED BY <1>8, <2>2, <2>3
<1> QED BY <1>9, <1>13

\* The acknowledgement inside send_data.
LEMMA SyncOrder ==
  ASSUME TypeInv, AckInv, OrderInv, NumbersOK, SendSync
  PROVE  OrderInv' /\ NumbersOK'
<1>1. PICK f, e : f = cur /\ e = ep
  OBVIOUS
<1>2. /\ f \in Frames /\ e \in Endpoints /\ by' = [by EXCEPT ![f] = @ \cup {e}]
      /\ pending' = pending /\ ep' = e + 1 /\ cur' = f
      /\ UNCHANGED <<active, req, seqnum, next_seqnum>>
  BY <1>1, SyncAcks DEF Ack
<1>3. pending[e] = <<>> /\ \A g \in Endpoints : e + 1 <= g <=> e <= g /\ g # e
  BY <1>1, Constants DEF SendSync, TypeInv, PendingOK, Endpoints
<1>4. \A c \in Callers : \A g \in Endpoints : Waits(c, g)' <=> Waits(c, g) /\ ~(g = e /\ c = f)
  BY <1>1, <1>2, <1>3, EmptyQueue DEF Waits
<1>5. \A c, d \in Callers : \A g \in Endpoints :
        Before(c, d, g)' <=> Before(c, d, g) /\ ~(g = e /\ c = f)
  BY <1>1, <1>2, <1>3, EmptyQueue DEF Before
<1>6. \A c \in Callers : Waits(c, e) => c = f
  BY <1>1, <1>3, EmptyQueue DEF Waits
<1> QED BY <1>2, <1>4, <1>5, <1>6, AckOrder

\* The answer of an adapter.
LEMMA AnswerOrder ==
  ASSUME TypeInv, AckInv, OrderInv, NumbersOK, NEW ok \in BOOLEAN, ReadAnswer(ok), psc[ep] > 0
  PROVE  OrderInv' /\ NumbersOK'
<1>1. PICK e : e = ep
  OBVIOUS
<1>2. PICK f \in Frames :
        /\ f = Head(pending[e]) /\ pending[e] # <<>> /\ In(f, pending[e])
        /\ e \in Endpoints /\ by' = [by EXCEPT ![f] = @ \cup {e}]
        /\ pending' = [pending EXCEPT ![e] = Tail(@)]
        /\ UNCHANGED <<active, req, seqnum, next_seqnum, cur, ep>>
  BY <1>1, AnswerAcks DEF Ack
<1>3. /\ pending \in [Endpoints -> Seq(Frames)] /\ NoDup(pending[e])
      /\ cur = NoFrame /\ NoFrame \notin Callers
  BY <1>2, Identities DEF TypeInv, TypeOK, AckInv, HoldOK, CursorOK, Frames, ReadAnswer
<1>4. /\ \A y : In(y, pending'[e]) <=> In(y, pending[e]) /\ y # f
      /\ \A y, z : Precedes(y, z, pending'[e]) <=> Precedes(y, z, pending[e]) /\ y # f
      /\ \A y : In(y, pending[e]) /\ y # f => Precedes(f, y, pending[e])
      /\ \A g \in Endpoints : g # e => pending'[g] = pending[g]
  <2>1. pending'[e] = Tail(pending[e]) /\ pending[e] \in Seq(Frames)
    BY <1>2, <1>3
  <2>2. /\ \A y : In(y, Tail(pending[e])) <=> In(y, pending[e]) /\ y # f
        /\ \A y, z : Precedes(y, z, Tail(pending[e])) <=> Precedes(y, z, pending[e]) /\ y # f
        /\ \A y : In(y, pending[e]) /\ y # f => Precedes(f, y, pending[e])
    BY <1>2, <1>3, <2>1, Popped
  <2> QED BY <1>2, <1>3, <2>1, <2>2
<1>5. \A c \in Callers : \A g \in Endpoints : Waits(c, g)' <=> Waits(c, g) /\ ~(g = e /\ c = f)
  BY <1>2, <1>3, <1>4 DEF Waits
<1>6. \A c, d \in Callers : \A g \in Endpoints :
        Before(c, d, g)' <=> Before(c, d, g) /\ ~(g = e /\ c = f)
  BY <1>2, <1>3, <1>4 DEF Before
<1>7. \A c \in Callers : Waits(c, e) /\ c # f => Before(f, c, e)
  BY <1>3, <1>4 DEF Waits, Before
<1> QED BY <1>2, <1>5, <1>6, <1>7, AckOrder

\* An SLCAN endpoint is given the frame that it was waiting for.
LEMMA SlcanOrder ==
  ASSUME TypeInv, AckInv, OrderInv, NumbersOK, SendSlcan
  PROVE  OrderInv' /\ NumbersOK'
<1>1. /\ cur \in Frames /\ ep \in Endpoints /\ N \in Nat /\ pending \in [Endpoints -> Seq(Frames)]
      /\ pending' = [pending EXCEPT ![ep] = Append(@, cur)] /\ ep' = ep + 1
      /\ UNCHANGED <<cur, active, by, req, seqnum, next_seqnum>>
  BY Constants DEF SendSlcan, frameVars, ackVars, TypeInv, TypeOK, CurOK, Frames
<1>2. \A g \in Endpoints : ep + 1 <= g <=> ep <= g /\ g # ep
  BY <1>1 DEF Endpoints
<1>3. ep <= ep /\ Open' = Open
  BY <1>1 DEF Open, Endpoints
<1>4. /\ \A y : In(y, pending'[ep]) <=> In(y, pending[ep]) \/ y = cur
      /\ \A y, z : Precedes(y, z, pending'[ep]) <=>
           Precedes(y, z, pending[ep]) \/ (In(y, pending[ep]) /\ z = cur)
      /\ \A g \in Endpoints : g # ep => pending'[g] = pending[g]
  BY <1>1, Pushed
<1>5. \A c \in Open : \A e \in Endpoints : Waits(c, e)' <=> Waits(c, e)
  BY <1>1, <1>2, <1>3, <1>4 DEF Waits
<1>6. \A c, d \in Open : \A e \in Endpoints : Before(c, d, e)' <=> Before(c, d, e)
  BY <1>1, <1>2, <1>3, <1>4 DEF Before
<1>7. \A c \in Open : Numbered(c)' <=> Numbered(c)
  BY <1>1 DEF Numbered
<1> QED BY <1>1, <1>3, <1>5, <1>6, <1>7, SameOrder

\* Steps that change neither a frame nor what an endpoint waits for.
LEMMA HandOrder ==
  ASSUME OrderInv, NumbersOK, UNCHANGED <<pending, next_seqnum>>, Open' = Open,
         \A c \in Open : by'[c] = by[c] /\ seqnum'[c] = seqnum[c] /\ req'[c] = req[c],
         \A c \in Callers : \A e \in Endpoints : c = cur' /\ ep' <= e <=> c = cur /\ ep <= e
  PROVE  OrderInv' /\ NumbersOK'
<1>1. \A c \in Open : c \in Callers
  BY DEF Open
<1>2. \A c \in Open : \A e \in Endpoints : Waits(c, e)' <=> Waits(c, e)
  BY <1>1 DEF Waits
<1>3. \A c, d \in Open : \A e \in Endpoints : Before(c, d, e)' <=> Before(c, d, e)
  BY <1>1 DEF Before
<1>4. \A c \in Open : Numbered(c)' <=> Numbered(c)
  BY DEF Numbered
<1> QED BY <1>2, <1>3, <1>4, SameOrder

\* All steps.
LEMMA NextOrder == TypeInv /\ AckInv /\ OrderInv /\ NumbersOK /\ [Next]_vars => OrderInv' /\ NumbersOK'
<1> SUFFICES ASSUME TypeInv, AckInv, OrderInv, NumbersOK, [Next]_vars
             PROVE  OrderInv' /\ NumbersOK'
  OBVIOUS
<1>a. NoFrame \notin Callers /\ Callers \cap RxFrames = {}
  BY Identities DEF Frames
<1>b. \A e \in Endpoints : N \in Nat /\ e <= N /\ e \in Nat
  BY Constants DEF Endpoints
<1>c. ASSUME UNCHANGED <<pending, next_seqnum, active, by, seqnum, req>>,
             \A c \in Callers : \A e \in Endpoints : c = cur' /\ ep' <= e <=> c = cur /\ ep <= e
      PROVE  OrderInv' /\ NumbersOK'
  <2>1. Open' = Open
    BY <1>c DEF Open
  <2> QED BY <1>c, <2>1, HandOrder
<1>d. pc \notin {"send", "forward", "aborted"} => cur = NoFrame
  BY DEF AckInv, CursorOK
<1>1. ASSUME NEW n \in Callers, NEW r \in Requests, SendFrame(n, r) PROVE OrderInv' /\ NumbersOK'
  <2>1. /\ UNCHANGED <<pending, next_seqnum, cur, ep>> /\ caller[n] = "idle" /\ n \notin active'
        /\ \A c \in Callers : c # n =>
             /\ by'[c] = by[c] /\ seqnum'[c] = seqnum[c] /\ req'[c] = req[c]
             /\ c \in active' <=> c \in active
    BY <1>1 DEF SendFrame, NewFrame, TypeInv, TypeOK, Frames
  <2>2. n \notin Open
    <3> SUFFICES ASSUME n \in Open PROVE FALSE
      OBVIOUS
    <3>1. PICK e \in Endpoints : e \notin by[n]
      BY DEF Open, TypeInv, TypeOK, Frames
    <3>2. Waits(n, e)
      BY <3>1 DEF OrderInv, OpenOK
    <3> QED BY <2>1, <3>2, WaitOrder
  <2>3. Open' = Open /\ \A c \in Open : c \in Callers /\ c # n
    BY <2>1, <2>2 DEF Open
  <2> QED BY <2>1, <2>3, HandOrder
<1>2. ASSUME NEW c \in Callers, Trigger(c) \/ Return(c) PROVE OrderInv' /\ NumbersOK'
  BY <1>2, <1>c DEF Trigger, Return, frameVars, ackVars
<1>3. ASSUME NEW ev \in SUBSET Sources, Wait(ev) PROVE OrderInv' /\ NumbersOK'
  <2>1. UNCHANGED <<pending, next_seqnum, active, by, seqnum, req, cur>> /\ pc = "wait"
    BY <1>3 DEF Wait, frameVars, ackVars
  <2> QED BY <1>a, <1>c, <1>d, <2>1
<1>4. CASE ForwardPop
  <2>1. UNCHANGED <<pending, next_seqnum, active, by, seqnum, req>> /\ pc = "drain"
    BY <1>4 DEF ForwardPop, frameVars, ackVars
  <2>2. cur' = NoFrame \/ cur' \in RxFrames
    <3>1. cur' = cur \/ (cur' = Head(forward_queue) /\ forward_queue # <<>>)
      BY <1>4, Zenon DEF ForwardPop
    <3> QED BY <1>d, <2>1, <3>1 DEF TypeInv, TypeOK
  <2> QED BY <1>a, <1>c, <1>d, <2>1, <2>2
<1>5. CASE SkipOrigin
  <2>1. UNCHANGED <<pending, next_seqnum, active, by, seqnum, req, cur>> /\ cur \in RxFrames
    BY <1>5 DEF SkipOrigin, frameVars, ackVars, TypeInv, CurOK
  <2> QED BY <1>a, <1>c, <2>1
<1>6. CASE SendDone
  <2>1. UNCHANGED <<pending, next_seqnum, active, by, seqnum, req>> /\ cur' = NoFrame /\ ep > N
    BY <1>6 DEF SendDone, frameVars, ackVars
  <2>2. \A e \in Endpoints : ~(ep <= e)
    BY <1>b, <2>1 DEF TypeInv, TypeOK
  <2> QED BY <1>a, <1>c, <2>1, <2>2
<1>7. ASSUME NEW ok \in BOOLEAN, ReadAnswer(ok), ~(psc[ep] > 0) PROVE OrderInv' /\ NumbersOK'
  BY <1>7, <1>c DEF ReadAnswer, ackVars
<1>8. CASE Deliver
  <2>1. UNCHANGED <<pending, next_seqnum, seqnum, req, cur, ep>>
    BY <1>8 DEF Deliver
  <2>2. \A c \in Callers : by'[c] = by[c] /\ (c \in active' <=> c \in active)
    <3>1. CASE Forwarding
      <4>1. PICK f \in FreeSlots : NewFrame(f)
        BY <1>8, <3>1, Zenon DEF Deliver
      <4>2. f \in RxFrames /\ f \notin Callers
        BY Identities DEF FreeSlots
      <4> QED BY <4>1, <4>2 DEF NewFrame, TypeInv, TypeOK, Frames
    <3>2. CASE ~Forwarding
      <4>1. UNCHANGED <<active, ackVars>>
        BY <1>8, <3>2, Zenon DEF Deliver
      <4> QED BY <4>1 DEF ackVars
    <3> QED BY <3>1, <3>2
  <2>3. Open' = Open /\ \A c \in Open : c \in Callers
    BY <2>2 DEF Open
  <2> QED BY <2>1, <2>2, <2>3, HandOrder
<1>9. CASE ReadDone
  <2>1. UNCHANGED <<pending, next_seqnum, active, by, seqnum, req, cur>> /\ pc = "deliver"
    BY <1>9 DEF ReadDone, frameVars, ackVars
  <2> QED BY <1>a, <1>c, <1>d, <2>1
<1>10. CASE DrainEnd \/ ReadFrame \/ ReadEnd \/ DriverThrows
  BY <1>10, <1>c DEF DrainEnd, ReadFrame, ReadEnd, DriverThrows, frameVars, ackVars
<1>11. ASSUME NEW e \in Endpoints, AdapterAnswers(e) \/ Arrive(e) PROVE OrderInv' /\ NumbersOK'
  BY <1>11, <1>c DEF AdapterAnswers, Arrive, frameVars, ackVars
<1>12. CASE UNCHANGED vars
  BY <1>12, <1>c DEF vars, frameVars, ackVars
<1> QED
  BY <1>1, <1>2, <1>3, <1>4, <1>5, <1>6, <1>7, <1>8, <1>9, <1>10, <1>11, <1>12,
     PopOrder, SyncOrder, AnswerOrder, SlcanOrder
  DEF Next, BusThread

\* Two requests in flight never carry the same number, on a bus with at least one
\* endpoint and with no more sending threads than there are numbers: whichever endpoints
\* acknowledge late, and however often the numbers wrap.
THEOREM NumbersInFlight ==
  ASSUME N > 0
  PROVE  Spec => []DistinctSeqnums
<1>1. Init => OrderInv /\ NumbersOK
  <2> SUFFICES ASSUME Init PROVE OrderInv /\ NumbersOK
    OBVIOUS
  <2>1. Open = {}
    BY DEF Init, Open
  <2> QED BY <2>1 DEF OrderInv, OpenOK, ComparableOK, BeforeOK, NumbersOK
<1> QED BY <1>1, NextOrder, NumbersDistinct, TypeInvariant, AckInvariant, PTL DEF Spec
=============================================================================

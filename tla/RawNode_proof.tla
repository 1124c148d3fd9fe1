--------------------------- MODULE RawNode_proof ---------------------------
(* The life of a FramePromise, proved for any number of callers. *)
EXTENDS RawNode, SequenceTheorems, TLAPS

\* A call whose number is not known yet has not been answered: on_frame only stores
\* frames for it. A call is registered, and its promise allocated, only while it runs.
CallInv ==
  /\ pc \in [Callers -> CallPCs]
  /\ sets \in [Callers -> Nat]
  /\ seqnum = [c \in Callers |-> seqnum[c]]
  /\ frame_promise_set \subseteq Callers
  /\ alive = {c \in Callers : pc[c] # "idle"}
  /\ \A c \in Callers : pc[c] \in {"idle", "created", "sending"} =>
       seqnum[c] = NoSeq /\ sets[c] = 0

\* The inductive invariant behind PromiseSafe.
PromiseInv == CallInv /\ PromiseSafe

\* The state before the first call.
LEMMA InitPromiseInv == Init => PromiseInv
  BY DEF Init, PromiseInv, CallInv, PromiseSafe, CallPCs

\* No step of a caller, of the update thread, of the bus or of the node breaks it.
LEMMA NextPromiseInv == PromiseInv /\ [Next]_vars => PromiseInv'
<1> SUFFICES ASSUME PromiseInv, [Next]_vars PROVE PromiseInv'
  OBVIOUS
<1> USE DEF PromiseInv, CallInv, PromiseSafe, CallPCs
<1>1. ASSUME NEW c \in Callers, NEW o \in Ops, CreatePromise(c, o) PROVE PromiseInv'
  BY <1>1 DEF CreatePromise
<1>2. ASSUME NEW c \in Callers, Send(c) PROVE PromiseInv'
  BY <1>2 DEF Send, promiseVars
<1>3. ASSUME NEW c \in Callers, SetComparatorSeqnum(c) PROVE PromiseInv'
  <2>1. CASE Hits(c, number[c]) = {}
    BY <1>3, <2>1 DEF SetComparatorSeqnum
  <2>2. CASE Hits(c, number[c]) # {}
    <3>1. /\ frame_promise_set' = frame_promise_set \ {c}
          /\ sets' = [sets EXCEPT ![c] = @ + 1]
          /\ pc' = [pc EXCEPT ![c] = "await"]
          /\ seqnum' = [seqnum EXCEPT ![c] = number[c]]
          /\ alive' = alive
          /\ pc[c] = "sending"
      BY <1>3, <2>2 DEF SetComparatorSeqnum, Erase
    <3>2. sets[c] = 0 /\ c \in alive
      BY <3>1
    <3>3. sets' = [sets EXCEPT ![c] = 1]
      BY <3>1, <3>2
    <3>4. CallInv'
      BY <3>1, <3>3
    <3>5. PromiseSafe'
      BY <3>1, <3>3
    <3> QED
      BY <3>4, <3>5
  <2> QED
    BY <2>1, <2>2
<1>4. ASSUME NEW c \in Callers, Finish(c) PROVE PromiseInv'
  <2>1. /\ frame_promise_set' = frame_promise_set \ {c}
        /\ alive' = alive \ {c}
        /\ pc' = [pc EXCEPT ![c] = "idle"]
        /\ seqnum' = [seqnum EXCEPT ![c] = NoSeq]
        /\ sets' = [sets EXCEPT ![c] = 0]
    BY <1>4 DEF Finish, Erase
  <2>2. CallInv'
    BY <2>1
  <2>3. PromiseSafe'
    BY <2>1
  <2> QED
    BY <2>2, <2>3
<1>5. ASSUME NEW c \in Callers, Timeout(c) PROVE PromiseInv'
  BY <1>5 DEF Timeout, promiseVars
<1>6. CASE OnFrameRecv
  <2> DEFINE f    == Head(frame_queue)
             hit  == {c \in frame_promise_set : Matches(c, seqnum[c], f)}
             full == {c \in hit : seqnum[c] # NoSeq}
  <2>1. /\ sets' = [c \in Callers |-> IF c \in full THEN sets[c] + 1 ELSE sets[c]]
        /\ frame_promise_set' = frame_promise_set \ full
        /\ UNCHANGED <<pc, alive, seqnum>>
    BY <1>6 DEF OnFrameRecv
  <2>2. full \subseteq frame_promise_set /\ \A c \in full : seqnum[c] # NoSeq
    OBVIOUS
  <2> HIDE DEF full, hit, f
  <2>3. \A c \in Callers : sets'[c] = IF c \in full THEN 1 ELSE sets[c]
    BY <2>1, <2>2
  <2>4. sets' \in [Callers -> Nat]
    BY <2>1
  <2>5. CallInv'
    BY <2>1, <2>2, <2>3, <2>4
  <2>6. PromiseSafe'
    BY <2>1, <2>2, <2>3
  <2> QED
    BY <2>5, <2>6
<1>7. ASSUME UNCHANGED <<pc, promiseVars>> PROVE PromiseInv'
  BY <1>7 DEF promiseVars
<1>8. CASE Environment
  BY <1>7, <1>8 DEF Environment, BusTransmits, BusAcknowledges, NodeAnswers, NoAnswer
<1>9. CASE UNCHANGED vars
  BY <1>7, <1>9 DEF vars
<1> QED
  BY <1>1, <1>2, <1>3, <1>4, <1>5, <1>6, <1>8, <1>9
  DEF Next, Caller, TakeAnswer, DestroyAfterTimeout

\* A promise that the update thread can reach is allocated and not yet set, and no
\* promise is set twice, whatever the timing of answers, timeouts and replays
\* (RawNode::on_frame_recv, FramePromise::set_comparator_seqnum, destroy_frame_promise).
THEOREM PromisesSafe == Spec => []PromiseSafe
<1>1. PromiseInv => PromiseSafe
  BY DEF PromiseInv
<1> QED
  BY InitPromiseInv, NextPromiseInv, <1>1, PTL DEF Spec

-----------------------------------------------------------------------------
(* Types. *)

\* The assumptions on the constants that the proofs use.
LEMMA Constants ==
  /\ Nobody \notin Callers /\ SeqMax \in Nat /\ NoSeq \notin Nat /\ NoFrame \notin Answer
  /\ 0 \in Seqnums /\ Reset \notin Registers
BY RawNodeAssumption, NoFrameAssumption DEF Seqnums

\* The fields of an answer, and the answer when its call is over.
LEMMA AnswerFields ==
  ASSUME NEW f \in Answer
  PROVE  /\ f.seq \in Seqnums /\ f.call \in Callers \cup {Nobody} /\ f.dlc >= 1
         /\ f.type \in {"REG_VALUE", "COMMAND_ERROR", "NODE_TURNED_ON"}
         /\ LET g == [f EXCEPT !.call = Nobody]
            IN /\ g \in Answer /\ g.call = Nobody
               /\ g.seq = f.seq /\ g.type = f.type /\ g.reg = f.reg /\ g.dlc = f.dlc
<1> USE DEF Answer
<1>1. CASE f \in [type : {"REG_VALUE"}, seq : Seqnums, reg : Registers, dlc : {1, 2},
                  call : Callers \cup {Nobody}]
  BY <1>1
<1>2. CASE f \in [type : {"COMMAND_ERROR"}, seq : Seqnums, reg : {Reset}, dlc : {1},
                  call : Callers \cup {Nobody}]
  BY <1>2
<1>3. CASE f \in [type : {"NODE_TURNED_ON"}, seq : Seqnums, reg : {Reset}, dlc : {2},
                  call : Callers \cup {Nobody}]
  BY <1>3
<1> QED BY <1>1, <1>2, <1>3

LEMMA RequestFields ==
  ASSUME NEW q \in Request
  PROVE  /\ q.seq \in Seqnums /\ q.call \in Callers \cup {Nobody} /\ q.op \in Ops
         /\ LET g == [q EXCEPT !.call = Nobody]
            IN g \in Request /\ g.call = Nobody /\ g.seq = q.seq /\ g.op = q.op
BY DEF Request

\* Frames of a call that is over.
LEMMA ForgetType ==
  ASSUME NEW c \in Callers
  PROVE  /\ \A s \in Seq(Answer) : Forget(c, s) \in Seq(Answer) /\ DOMAIN Forget(c, s) = DOMAIN s
         /\ \A s \in Seq(Request) : Forget(c, s) \in Seq(Request) /\ DOMAIN Forget(c, s) = DOMAIN s
<1>1. ASSUME NEW s \in Seq(Answer)
      PROVE  Forget(c, s) \in Seq(Answer) /\ DOMAIN Forget(c, s) = DOMAIN s
  <2>1. DOMAIN s = 1..Len(s) /\ Len(s) \in Nat /\ \A i \in 1..Len(s) : s[i] \in Answer
    OBVIOUS
  <2>2. \A i \in 1..Len(s) : (IF s[i].call = c THEN [s[i] EXCEPT !.call = Nobody] ELSE s[i]) \in Answer
    BY <2>1, AnswerFields
  <2> QED BY <2>1, <2>2 DEF Forget
<1>2. ASSUME NEW s \in Seq(Request)
      PROVE  Forget(c, s) \in Seq(Request) /\ DOMAIN Forget(c, s) = DOMAIN s
  <2>1. DOMAIN s = 1..Len(s) /\ Len(s) \in Nat /\ \A i \in 1..Len(s) : s[i] \in Request
    OBVIOUS
  <2>2. \A i \in 1..Len(s) : (IF s[i].call = c THEN [s[i] EXCEPT !.call = Nobody] ELSE s[i]) \in Request
    BY <2>1, RequestFields
  <2> QED BY <2>1, <2>2 DEF Forget
<1> QED BY <1>1, <1>2

\* The successor of a number.
LEMMA NextNumber == \A n \in Seqnums : (n + 1) % (SeqMax + 1) \in Seqnums
<1> SUFFICES ASSUME NEW n \in Seqnums PROVE (n + 1) % (SeqMax + 1) \in Seqnums
  OBVIOUS
<1>1. SeqMax + 1 \in Nat \ {0} /\ n + 1 \in Nat /\ n + 1 <= SeqMax + 1
  BY Constants DEF Seqnums
<1> QED BY <1>1, Constants DEF Seqnums

\* No step breaks the types.
LEMMA NextTypeOK == TypeOK /\ [Next]_vars => TypeOK'
<1> SUFFICES ASSUME TypeOK, [Next]_vars PROVE TypeOK'
  OBVIOUS
<1> USE DEF TypeOK, CallPCs
<1>1. ASSUME NEW c \in Callers, NEW o \in Ops, CreatePromise(c, o) PROVE TypeOK'
  BY <1>1 DEF CreatePromise, busVars
<1>2. ASSUME NEW c \in Callers, Send(c) PROVE TypeOK'
  BY <1>2 DEF Send, Bus!Accept, promiseVars
<1>3. ASSUME NEW c \in Callers, SetComparatorSeqnum(c) PROVE TypeOK'
  <2>1. /\ status' \in [Callers -> {"idle", "queued", "sent", "done"}]
        /\ number' \in [Callers -> Seqnums] /\ UNCHANGED <<fifo, next>>
    BY <1>3, Constants DEF SetComparatorSeqnum, Bus!Return
  <2>2. /\ pc' \in [Callers -> CallPCs] /\ seqnum' \in [Callers -> Seqnums \cup {NoSeq}]
        /\ UNCHANGED <<op, alive, wire, frame_queue, answered, reused>>
    BY <1>3 DEF SetComparatorSeqnum
  <2>3. CASE Hits(c, number[c]) = {}
    <3>1. /\ frame_storage' = [frame_storage EXCEPT ![c] = <<>>]
          /\ UNCHANGED <<frame_promise_set, value, sets>>
      BY <1>3, <2>3, Zenon DEF SetComparatorSeqnum
    <3>2. frame_storage' \in [Callers -> Seq(Answer)]
      BY <3>1
    <3> QED BY <2>1, <2>2, <3>1, <3>2
  <2>4. CASE Hits(c, number[c]) # {}
    <3>1. PICK i \in Hits(c, number[c]) : value' = [value EXCEPT ![c] = frame_storage[c][i]]
      BY <1>3, <2>4 DEF SetComparatorSeqnum
    <3>2. frame_storage[c][i] \in Answer
      BY DEF Hits
    <3>3. /\ sets' = [sets EXCEPT ![c] = @ + 1] /\ frame_storage' = frame_storage
          /\ frame_promise_set' = frame_promise_set \ {c}
      BY <1>3, <2>4 DEF SetComparatorSeqnum, Erase
    <3> QED BY <2>1, <2>2, <3>1, <3>2, <3>3
  <2> QED BY <2>3, <2>4
<1>4. ASSUME NEW c \in Callers, Finish(c) PROVE TypeOK'
  <2>1. /\ wire' \in Seq(Request) /\ frame_queue' \in Seq(Answer)
        /\ frame_storage' \in [Callers -> Seq(Answer)]
    BY <1>4, ForgetType DEF Finish
  <2>2. /\ pc' \in [Callers -> CallPCs] /\ op' \in [Callers -> Ops]
        /\ frame_promise_set' \subseteq Callers /\ alive' \subseteq Callers
        /\ seqnum' \in [Callers -> Seqnums \cup {NoSeq}] /\ sets' \in [Callers -> Nat]
        /\ value' \in [Callers -> Answer \cup {NoFrame}] /\ answered' \subseteq Callers
    BY <1>4 DEF Finish, Erase, Ops
  <2> QED BY <1>4, <2>1, <2>2 DEF Finish, busVars
<1>5. ASSUME NEW c \in Callers, Timeout(c) PROVE TypeOK'
  BY <1>5 DEF Timeout, busVars, promiseVars
<1>6. CASE OnFrameRecv
  <2> DEFINE f    == Head(frame_queue)
             hit  == {c \in frame_promise_set : Matches(c, seqnum[c], f)}
             full == {c \in hit : seqnum[c] # NoSeq}
  <2>1. /\ value' = [c \in Callers |-> IF c \in full THEN f ELSE value[c]]
        /\ sets' = [c \in Callers |-> IF c \in full THEN sets[c] + 1 ELSE sets[c]]
        /\ frame_promise_set' = frame_promise_set \ full
        /\ frame_storage' = [c \in Callers |-> IF c \in hit \ full
                                               THEN Append(frame_storage[c], f)
                                               ELSE frame_storage[c]]
        /\ answered' = answered \cup ({f.call} \cap Callers)
        /\ frame_queue' = Tail(frame_queue) /\ frame_queue # <<>>
        /\ UNCHANGED <<busVars, pc, op, alive, seqnum, wire, reused>>
    BY <1>6 DEF OnFrameRecv
  <2>2. f \in Answer /\ frame_queue' \in Seq(Answer)
    BY <2>1
  <2> HIDE DEF f, hit, full
  <2>3. /\ value' \in [Callers -> Answer \cup {NoFrame}] /\ sets' \in [Callers -> Nat]
        /\ frame_storage' \in [Callers -> Seq(Answer)]
    BY <2>1, <2>2
  <2> QED BY <2>1, <2>2, <2>3 DEF busVars
<1>7. CASE BusTransmits
  <2>1. /\ fifo # <<>> /\ fifo' = Tail(fifo) /\ status' = [status EXCEPT ![Head(fifo)] = "sent"]
        /\ number' = [number EXCEPT ![Head(fifo)] = next] /\ next' = (next + 1) % (SeqMax + 1)
        /\ wire' = Append(wire, [call |-> Head(fifo), op |-> op[Head(fifo)], seq |-> next])
        /\ reused' = (reused \/ next \in NumbersInUse)
        /\ UNCHANGED <<pc, op, promiseVars, frame_queue, answered>>
    BY <1>7 DEF BusTransmits, Bus!Transmit
  <2>2. Head(fifo) \in Callers /\ fifo' \in Seq(Callers) /\ next' \in Seqnums
    BY <2>1, NextNumber
  <2>3. wire' \in Seq(Request)
    BY <2>1, <2>2 DEF Request
  <2>4. reused' \in BOOLEAN
    BY <2>1
  <2> QED BY <2>1, <2>2, <2>3, <2>4 DEF promiseVars
<1>8. ASSUME NEW c \in Callers, BusAcknowledges(c) PROVE TypeOK'
  BY <1>8 DEF BusAcknowledges, Bus!Acknowledge, promiseVars
<1>9. CASE NodeAnswers
  <2>1. PICK f \in Answers(Head(wire)) : frame_queue' = Append(frame_queue, f)
    BY <1>9 DEF NodeAnswers
  <2>2. f \in Answer
    BY DEF Answers
  <2> QED BY <1>9, <2>1, <2>2 DEF NodeAnswers, busVars, promiseVars
<1>10. CASE NoAnswer
  BY <1>10 DEF NoAnswer, busVars, promiseVars
<1>11. CASE UNCHANGED vars
  BY <1>11 DEF vars, busVars, promiseVars
<1> QED
  BY <1>1, <1>2, <1>3, <1>4, <1>5, <1>6, <1>7, <1>8, <1>9, <1>10, <1>11
  DEF Next, Caller, TakeAnswer, DestroyAfterTimeout, Environment

\* Every variable keeps its type; in particular the numbers stay within 0..SeqMax and
\* only frames of a node are stored or handed to a call.
THEOREM TypeCorrect == Spec => []TypeOK
<1>1. Init => TypeOK
  <2> SUFFICES ASSUME Init PROVE TypeOK
    OBVIOUS
  <2>1. /\ fifo \in Seq(Callers) /\ status \in [Callers -> {"idle", "queued", "sent", "done"}]
        /\ number \in [Callers -> Seqnums] /\ next \in Seqnums
    BY Constants DEF Init, Bus!Init
  <2>2. /\ pc \in [Callers -> CallPCs] /\ op \in [Callers -> Ops]
        /\ frame_promise_set \subseteq Callers /\ alive \subseteq Callers
        /\ seqnum \in [Callers -> Seqnums \cup {NoSeq}] /\ sets \in [Callers -> Nat]
        /\ value \in [Callers -> Answer \cup {NoFrame}] /\ answered \subseteq Callers
        /\ reused \in BOOLEAN
    BY DEF Init, CallPCs, Ops
  <2>3. /\ frame_storage \in [Callers -> Seq(Answer)] /\ wire \in Seq(Request)
        /\ frame_queue \in Seq(Answer)
    BY DEF Init
  <2> QED BY <2>1, <2>2, <2>3 DEF TypeOK
<1> QED BY <1>1, NextTypeOK, PTL DEF Spec

-----------------------------------------------------------------------------
(* Answers. Between the transmission of its request and its return a call has a   *)
(* number, which moves from the bus (number) to its comparator (seqnum).          *)

Live(c) == status[c] \in {"sent", "done"} \/ pc[c] \in {"await", "timedout"}

LiveNumber(c) == IF pc[c] \in {"await", "timedout"} THEN seqnum[c] ELSE number[c]

\* A call is in send_frame while the bus has it; it is registered until it is answered.
CallsOK ==
  /\ \A c \in Callers : status[c] # "idle" <=> pc[c] = "sending"
  /\ \A c \in Callers : pc[c] \in {"created", "sending"} => c \in frame_promise_set
  /\ \A c \in Callers : pc[c] \in {"idle", "created", "sending"} =>
       seqnum[c] = NoSeq /\ value[c] = NoFrame
  /\ \A c \in Callers : pc[c] \in {"await", "timedout"} =>
       seqnum[c] # NoSeq /\ (c \in frame_promise_set <=> value[c] = NoFrame)

\* The bus holds a call once, before it is transmitted.
FifoOK ==
  /\ \A i \in DOMAIN fifo : status[fifo[i]] = "queued"
  /\ \A i, j \in DOMAIN fifo : fifo[i] = fifo[j] => i = j

\* A request on its way, and a frame that answers a call, are about that call as it is now.
RequestAbout(q) ==
  q.call \in Callers =>
    Live(q.call) /\ q.op = op[q.call] /\ q.seq = LiveNumber(q.call)

About(f) ==
  f.call \in Callers =>
    /\ Live(f.call)
    /\ op[f.call] # Reset => f.seq = LiveNumber(f.call) /\ Matches(f.call, f.seq, f)

FramesOK ==
  /\ \A i \in DOMAIN wire : RequestAbout(wire[i])
  /\ \A i \in DOMAIN frame_queue : About(frame_queue[i])
  /\ \A c \in Callers : \A i \in DOMAIN frame_storage[c] : About(frame_storage[c][i])

\* A stored frame will be found once the call knows its number.
Stored(c) == \E i \in DOMAIN frame_storage[c] : Matches(c, number[c], frame_storage[c][i])

\* The answer that a register call has been shown is stored for it, or is what it got.
AnsweredOK ==
  \A c \in answered :
    /\ Live(c)
    /\ op[c] # Reset => /\ pc[c] = "sending" => Stored(c)
                        /\ pc[c] # "sending" => value[c] # NoFrame

\* The inductive invariant behind RegisterAnswerNotMissed.
AnswerInv == CallsOK /\ FifoOK /\ FramesOK /\ AnsweredOK

\* Steps that keep the calls with a number keep what the frames are about.
LEMMA AboutKept ==
  ASSUME \A c \in Callers : Live(c) => Live(c)' /\ LiveNumber(c)' = LiveNumber(c) /\ op'[c] = op[c]
  PROVE  (\A q : RequestAbout(q) => RequestAbout(q)') /\ (\A f : About(f) => About(f)')
<1>1. \A q : RequestAbout(q) => RequestAbout(q)'
  BY DEF RequestAbout
<1>2. ASSUME NEW f, About(f) PROVE About(f)'
  BY <1>2 DEF About, Matches, Eq, EqAlternate
<1> QED BY <1>1, <1>2

LEMMA StoredKept ==
  ASSUME NEW c, op'[c] = op[c], number'[c] = number[c], frame_storage'[c] = frame_storage[c]
  PROVE  Stored(c)' <=> Stored(c)
BY DEF Stored, Matches, Eq, EqAlternate

\* Where a call has no number: before its transmission and after its return.
LEMMA NotLive ==
  ASSUME CallsOK, NEW c \in Callers,
         pc[c] \in {"idle", "created"} \/ status[c] = "queued"
  PROVE  ~Live(c)
BY DEF CallsOK, Live

LEMMA CreateAnswer ==
  ASSUME TypeOK, AnswerInv, NEW c \in Callers, NEW o \in Ops, CreatePromise(c, o)
  PROVE  AnswerInv'
<1>1. /\ pc[c] = "idle" /\ pc' = [pc EXCEPT ![c] = "created"] /\ op' = [op EXCEPT ![c] = o]
      /\ frame_promise_set' = frame_promise_set \cup {c}
      /\ UNCHANGED <<fifo, status, number, seqnum, frame_storage, value, wire, frame_queue, answered>>
  BY DEF CreatePromise, busVars
<1>2. /\ pc \in [Callers -> CallPCs] /\ op \in [Callers -> Ops] /\ answered \subseteq Callers
  BY DEF TypeOK
<1>3. ~Live(c)
  BY <1>1, NotLive DEF AnswerInv
<1>4. \A d \in Callers : Live(d) => Live(d)' /\ LiveNumber(d)' = LiveNumber(d) /\ op'[d] = op[d] /\ d # c
  BY <1>1, <1>2, <1>3 DEF Live, LiveNumber
<1>5. FramesOK'
  BY <1>1, <1>4, AboutKept DEF AnswerInv, FramesOK
<1>6. CallsOK' /\ FifoOK'
  BY <1>1, <1>2 DEF AnswerInv, CallsOK, FifoOK
<1>7. AnsweredOK'
  BY <1>1, <1>2, <1>4, StoredKept DEF AnswerInv, AnsweredOK
<1> QED BY <1>5, <1>6, <1>7 DEF AnswerInv

LEMMA SendAnswer ==
  ASSUME TypeOK, AnswerInv, NEW c \in Callers, Send(c)
  PROVE  AnswerInv'
<1>1. /\ pc[c] = "created" /\ pc' = [pc EXCEPT ![c] = "sending"]
      /\ status[c] = "idle" /\ status' = [status EXCEPT ![c] = "queued"] /\ fifo' = Append(fifo, c)
      /\ UNCHANGED <<number, op, promiseVars, wire, frame_queue, answered>>
  BY DEF Send, Bus!Accept
<1>2. /\ pc \in [Callers -> CallPCs] /\ fifo \in Seq(Callers) /\ answered \subseteq Callers
      /\ status \in [Callers -> {"idle", "queued", "sent", "done"}]
  BY DEF TypeOK
<1>3. ~Live(c)
  BY <1>1, NotLive DEF AnswerInv
<1>4. \A d \in Callers : Live(d) => Live(d)' /\ LiveNumber(d)' = LiveNumber(d) /\ op'[d] = op[d] /\ d # c
  BY <1>1, <1>2, <1>3 DEF Live, LiveNumber, promiseVars
<1>5. FramesOK'
  BY <1>1, <1>4, AboutKept DEF AnswerInv, FramesOK, promiseVars
<1>6. CallsOK'
  BY <1>1, <1>2 DEF AnswerInv, CallsOK, promiseVars
<1>7. FifoOK'
  BY <1>1, <1>2 DEF AnswerInv, FifoOK
<1>8. AnsweredOK'
  BY <1>1, <1>2, <1>4, StoredKept DEF AnswerInv, AnsweredOK, promiseVars
<1> QED BY <1>5, <1>6, <1>7, <1>8 DEF AnswerInv

\* set_comparator_seqnum: a stored answer is found again under the call's number.
LEMMA NumberAnswer ==
  ASSUME TypeOK, AnswerInv, NEW c \in Callers, SetComparatorSeqnum(c)
  PROVE  AnswerInv'
<1>1. /\ pc[c] = "sending" /\ pc' = [pc EXCEPT ![c] = "await"]
      /\ status[c] = "done" /\ status' = [status EXCEPT ![c] = "idle"] /\ fifo' = fifo
      /\ number' = [number EXCEPT ![c] = 0] /\ seqnum' = [seqnum EXCEPT ![c] = number[c]]
      /\ UNCHANGED <<op, wire, frame_queue, answered>>
  BY DEF SetComparatorSeqnum, Bus!Return
<1>2. /\ pc \in [Callers -> CallPCs] /\ fifo \in Seq(Callers) /\ answered \subseteq Callers
      /\ status \in [Callers -> {"idle", "queued", "sent", "done"}]
      /\ number \in [Callers -> Seqnums] /\ seqnum \in [Callers -> Seqnums \cup {NoSeq}]
      /\ value \in [Callers -> Answer \cup {NoFrame}] /\ frame_storage \in [Callers -> Seq(Answer)]
      /\ number[c] # NoSeq /\ NoFrame \notin Answer
  BY Constants DEF TypeOK, Seqnums
<1>3. \A d \in Callers : d # c =>
        pc'[d] = pc[d] /\ status'[d] = status[d] /\ number'[d] = number[d] /\ seqnum'[d] = seqnum[d]
  BY <1>1, <1>2
<1>4. pc'[c] = "await" /\ status'[c] = "idle" /\ seqnum'[c] = number[c]
  BY <1>1, <1>2
<1>5. \A d \in Callers : Live(d) => Live(d)' /\ LiveNumber(d)' = LiveNumber(d) /\ op'[d] = op[d]
  BY <1>1, <1>3, <1>4 DEF Live, LiveNumber
<1>6. FifoOK'
  BY <1>1, <1>2, <1>3 DEF AnswerInv, FifoOK
<1>7. CASE Hits(c, number[c]) = {}
  <2>1. /\ frame_storage' = [frame_storage EXCEPT ![c] = <<>>]
        /\ UNCHANGED <<frame_promise_set, value>>
    BY <1>7, Zenon DEF SetComparatorSeqnum
  <2>2. FramesOK'
    BY <1>1, <1>2, <1>5, <2>1, AboutKept DEF AnswerInv, FramesOK
  <2>3. CallsOK'
    BY <1>1, <1>2, <1>3, <1>4, <2>1 DEF AnswerInv, CallsOK
  <2>4. c \in answered => op[c] = Reset
    BY <1>1, <1>7 DEF AnswerInv, AnsweredOK, Stored, Hits
  <2>5. AnsweredOK'
    <3>1. \A d \in Callers : d # c => (Stored(d)' <=> Stored(d))
      BY <1>1, <1>2, <1>3, <2>1, StoredKept
    <3> QED BY <1>1, <1>2, <1>3, <1>4, <1>5, <2>1, <2>4, <3>1 DEF AnswerInv, AnsweredOK
  <2> QED BY <1>6, <2>2, <2>3, <2>5 DEF AnswerInv
<1>8. CASE Hits(c, number[c]) # {}
  <2>1. /\ frame_storage' = frame_storage /\ frame_promise_set' = frame_promise_set \ {c}
        /\ \E i \in Hits(c, number[c]) : value' = [value EXCEPT ![c] = frame_storage[c][i]]
    BY <1>8 DEF SetComparatorSeqnum, Erase
  <2>2. value'[c] # NoFrame /\ \A d \in Callers : d # c => value'[d] = value[d]
    BY <1>2, <2>1 DEF Hits
  <2>3. FramesOK'
    BY <1>1, <1>5, <2>1, AboutKept DEF AnswerInv, FramesOK
  <2>4. CallsOK'
    BY <1>1, <1>2, <1>3, <1>4, <2>1, <2>2 DEF AnswerInv, CallsOK
  <2>5. AnsweredOK'
    <3>1. \A d \in Callers : d # c => (Stored(d)' <=> Stored(d))
      BY <1>1, <1>3, <2>1, StoredKept
    <3> QED BY <1>1, <1>2, <1>3, <1>4, <1>5, <2>2, <3>1 DEF AnswerInv, AnsweredOK
  <2> QED BY <1>6, <2>3, <2>4, <2>5 DEF AnswerInv
<1> QED BY <1>7, <1>8

\* A frame of a call that is over is about nobody; the others are as they were.
LEMMA ForgetAnswer ==
  ASSUME TypeOK, NEW c \in Callers,
         \A d \in Callers : d # c /\ Live(d) =>
           Live(d)' /\ LiveNumber(d)' = LiveNumber(d) /\ op'[d] = op[d]
  PROVE  /\ \A s \in Seq(Answer) : (\A i \in DOMAIN s : About(s[i])) =>
              \A i \in DOMAIN s : About(Forget(c, s)[i])'
         /\ \A s \in Seq(Request) : (\A i \in DOMAIN s : RequestAbout(s[i])) =>
              \A i \in DOMAIN s : RequestAbout(Forget(c, s)[i])'
<1>1. ASSUME NEW f \in Answer, About(f)
      PROVE  About(IF f.call = c THEN [f EXCEPT !.call = Nobody] ELSE f)'
  <2>1. CASE f.call = c
    BY <2>1, AnswerFields, Constants DEF About
  <2>2. CASE f.call # c
    BY <1>1, <2>2 DEF About, Matches, Eq, EqAlternate
  <2> QED BY <2>1, <2>2
<1>2. ASSUME NEW f \in Request, RequestAbout(f)
      PROVE  RequestAbout(IF f.call = c THEN [f EXCEPT !.call = Nobody] ELSE f)'
  <2>1. CASE f.call = c
    BY <2>1, RequestFields, Constants DEF RequestAbout
  <2>2. CASE f.call # c
    BY <1>2, <2>2 DEF RequestAbout
  <2> QED BY <2>1, <2>2
<1>3. ASSUME NEW s \in Seq(Answer), \A i \in DOMAIN s : About(s[i]), NEW i \in DOMAIN s
      PROVE  About(Forget(c, s)[i])'
  <2>1. Forget(c, s)[i] = IF s[i].call = c THEN [s[i] EXCEPT !.call = Nobody] ELSE s[i]
    BY DEF Forget
  <2>2. s[i] \in Answer
    OBVIOUS
  <2> QED BY <1>1, <1>3, <2>1, <2>2
<1>4. ASSUME NEW s \in Seq(Request), \A i \in DOMAIN s : RequestAbout(s[i]), NEW i \in DOMAIN s
      PROVE  RequestAbout(Forget(c, s)[i])'
  <2>1. Forget(c, s)[i] = IF s[i].call = c THEN [s[i] EXCEPT !.call = Nobody] ELSE s[i]
    BY DEF Forget
  <2>2. s[i] \in Request
    OBVIOUS
  <2> QED BY <1>2, <1>4, <2>1, <2>2
<1> QED BY <1>3, <1>4

\* The call returns.
LEMMA FinishAnswer ==
  ASSUME TypeOK, AnswerInv, NEW c \in Callers, pc[c] \in {"await", "timedout"}, Finish(c)
  PROVE  AnswerInv'
<1>1. /\ frame_promise_set' = frame_promise_set \ {c} /\ pc' = [pc EXCEPT ![c] = "idle"]
      /\ wire' = Forget(c, wire) /\ frame_queue' = Forget(c, frame_queue)
      /\ frame_storage' = [d \in Callers |-> IF d = c THEN <<>> ELSE Forget(c, frame_storage[d])]
      /\ op' = [op EXCEPT ![c] = Reset] /\ seqnum' = [seqnum EXCEPT ![c] = NoSeq]
      /\ value' = [value EXCEPT ![c] = NoFrame] /\ answered' = answered \ {c}
      /\ UNCHANGED <<fifo, status, number>>
  BY DEF Finish, Erase, busVars
<1>2. /\ pc \in [Callers -> CallPCs] /\ fifo \in Seq(Callers) /\ answered \subseteq Callers
      /\ op \in [Callers -> Ops] /\ wire \in Seq(Request) /\ frame_queue \in Seq(Answer)
      /\ seqnum \in [Callers -> Seqnums \cup {NoSeq}]
      /\ value \in [Callers -> Answer \cup {NoFrame}] /\ frame_storage \in [Callers -> Seq(Answer)]
  BY DEF TypeOK
<1>3. \A d \in Callers : d # c =>
        /\ pc'[d] = pc[d] /\ op'[d] = op[d] /\ seqnum'[d] = seqnum[d] /\ value'[d] = value[d]
        /\ frame_storage'[d] = Forget(c, frame_storage[d])
  BY <1>1, <1>2
<1>4. pc'[c] = "idle" /\ value'[c] = NoFrame /\ seqnum'[c] = NoSeq /\ frame_storage'[c] = <<>>
  BY <1>1, <1>2
<1>5. \A d \in Callers : d # c /\ Live(d) =>
        Live(d)' /\ LiveNumber(d)' = LiveNumber(d) /\ op'[d] = op[d]
  BY <1>1, <1>3 DEF Live, LiveNumber
<1>6. /\ DOMAIN wire' = DOMAIN wire /\ DOMAIN frame_queue' = DOMAIN frame_queue
      /\ \A d \in Callers : d # c => DOMAIN frame_storage'[d] = DOMAIN frame_storage[d]
  BY <1>1, <1>2, <1>3, ForgetType
<1>7. FramesOK'
  <2>1. \A i \in DOMAIN wire' : RequestAbout(wire[i])'
    BY <1>1, <1>2, <1>5, <1>6, ForgetAnswer DEF AnswerInv, FramesOK
  <2>2. \A i \in DOMAIN frame_queue' : About(frame_queue[i])'
    BY <1>1, <1>2, <1>5, <1>6, ForgetAnswer DEF AnswerInv, FramesOK
  <2>3. ASSUME NEW d \in Callers, NEW i \in DOMAIN frame_storage'[d] PROVE About(frame_storage[d][i])'
    <3>1. d # c
      BY <1>4
    <3>2. frame_storage[d] \in Seq(Answer) /\ \A j \in DOMAIN frame_storage[d] : About(frame_storage[d][j])
      BY <1>2 DEF AnswerInv, FramesOK
    <3>3. i \in DOMAIN frame_storage[d] /\ frame_storage'[d] = Forget(c, frame_storage[d])
      BY <1>3, <1>6, <3>1
    <3> QED BY <1>5, <3>2, <3>3, ForgetAnswer
  <2> QED BY <2>1, <2>2, <2>3 DEF FramesOK
<1>8. CallsOK' /\ FifoOK'
  BY <1>1, <1>3, <1>4 DEF AnswerInv, CallsOK, FifoOK
<1>9. AnsweredOK'
  <2>1. ASSUME NEW d \in Callers, d # c, Stored(d) PROVE Stored(d)'
    <3>1. PICK i \in DOMAIN frame_storage[d] : Matches(d, number[d], frame_storage[d][i])
      BY <2>1 DEF Stored
    <3>2. PICK f, g : f = frame_storage[d][i] /\ g = frame_storage'[d][i]
      OBVIOUS
    <3>3. f \in Answer /\ g = IF f.call = c THEN [f EXCEPT !.call = Nobody] ELSE f
      <4>1. f \in Answer
        BY <1>2, <3>2
      <4>2. frame_storage'[d] = Forget(c, frame_storage[d])
        BY <1>3, <2>1
      <4> QED BY <3>2, <4>1, <4>2 DEF Forget
    <3>4. g.seq = f.seq /\ g.type = f.type /\ g.reg = f.reg /\ g.dlc = f.dlc
      BY <3>3, AnswerFields
    <3>5. Matches(d, number[d], f) /\ op'[d] = op[d] /\ number'[d] = number[d]
      BY <1>1, <1>3, <2>1, <3>1, <3>2
    <3>6. Matches(d, number[d], g)'
      BY <3>4, <3>5 DEF Matches, Eq, EqAlternate
    <3> QED BY <1>6, <2>1, <3>2, <3>6 DEF Stored
  <2> QED BY <1>1, <1>2, <1>3, <1>5, <2>1 DEF AnswerInv, AnsweredOK
<1> QED BY <1>7, <1>8, <1>9 DEF AnswerInv

\* on_frame_recv: an answer reaches its call, by its promise or by its storage.
LEMMA ReceiveAnswer ==
  ASSUME TypeOK, AnswerInv, OnFrameRecv
  PROVE  AnswerInv'
<1> DEFINE h    == Head(frame_queue)
           hit  == {c \in frame_promise_set : Matches(c, seqnum[c], h)}
           full == {c \in hit : seqnum[c] # NoSeq}
<1>0. PICK f, Hit, Full : f = h /\ Hit = hit /\ Full = full
  OBVIOUS
<1>1. /\ value' = [c \in Callers |-> IF c \in Full THEN f ELSE value[c]]
      /\ frame_promise_set' = frame_promise_set \ Full
      /\ frame_storage' = [c \in Callers |-> IF c \in Hit \ Full
                                             THEN Append(frame_storage[c], f)
                                             ELSE frame_storage[c]]
      /\ answered' = answered \cup ({f.call} \cap Callers)
      /\ frame_queue' = Tail(frame_queue) /\ frame_queue # <<>>
      /\ UNCHANGED <<fifo, status, number, pc, op, seqnum, wire>>
  BY <1>0 DEF OnFrameRecv, busVars
<1>2. /\ \A c : c \in Hit <=> c \in frame_promise_set /\ Matches(c, seqnum[c], f)
      /\ \A c : c \in Full <=> c \in Hit /\ seqnum[c] # NoSeq
      /\ f = Head(frame_queue)
  BY <1>0
<1> HIDE DEF h, hit, full
<1>3. /\ frame_queue \in Seq(Answer) /\ frame_storage \in [Callers -> Seq(Answer)]
      /\ frame_promise_set \subseteq Callers /\ answered \subseteq Callers
      /\ value \in [Callers -> Answer \cup {NoFrame}] /\ pc \in [Callers -> CallPCs]
  BY DEF TypeOK
<1>4. f \in Answer /\ f # NoFrame /\ About(f) /\ DOMAIN frame_queue' \subseteq DOMAIN frame_queue
      /\ \A i \in DOMAIN frame_queue' : frame_queue'[i] = frame_queue[i + 1] /\ i + 1 \in DOMAIN frame_queue
  BY <1>1, <1>2, <1>3, Constants DEF AnswerInv, FramesOK
<1>5. \A c \in Callers : Live(c)' = Live(c) /\ LiveNumber(c)' = LiveNumber(c) /\ op'[c] = op[c]
  BY <1>1 DEF Live, LiveNumber
<1>6. \A c \in Callers :
        /\ c \in Hit \ Full => frame_storage'[c] = Append(frame_storage[c], f)
        /\ c \notin Hit \ Full => frame_storage'[c] = frame_storage[c]
        /\ c \in Full => value'[c] = f
        /\ c \notin Full => value'[c] = value[c]
  BY <1>1
<1>7. FramesOK'
  <2>1. \A i \in DOMAIN wire' : RequestAbout(wire[i])'
    BY <1>1, <1>5, AboutKept DEF AnswerInv, FramesOK
  <2>2. \A i \in DOMAIN frame_queue' : About(frame_queue[i])'
    BY <1>4, <1>5, AboutKept DEF AnswerInv, FramesOK
  <2>3. ASSUME NEW c \in Callers, NEW i \in DOMAIN frame_storage'[c] PROVE About(frame_storage[c][i])'
    <3>0. frame_storage[c] \in Seq(Answer) /\ (frame_storage'[c] = Append(frame_storage[c], f)
                                               \/ frame_storage'[c] = frame_storage[c])
      BY <1>3, <1>6
    <3>1. frame_storage'[c][i] = f \/ (i \in DOMAIN frame_storage[c] /\ frame_storage'[c][i] = frame_storage[c][i])
      BY <1>4, <3>0
    <3> QED BY <1>4, <1>5, <3>1, AboutKept DEF AnswerInv, FramesOK
  <2> QED BY <2>1, <2>2, <2>3 DEF FramesOK
<1>8. CallsOK' /\ FifoOK'
  <2>1. FifoOK'
    BY <1>1 DEF AnswerInv, FifoOK
  <2>2. \A c \in Full : pc[c] \in {"await", "timedout"}
    BY <1>2, <1>3 DEF AnswerInv, CallsOK, CallPCs
  <2>3. CallsOK'
    BY <1>1, <1>2, <1>4, <1>6, <2>2 DEF AnswerInv, CallsOK
  <2> QED BY <2>1, <2>3
<1>9. AnsweredOK'
  <2>1. ASSUME NEW c \in Callers, Stored(c) PROVE Stored(c)'
    <3>1. PICK i \in DOMAIN frame_storage[c] : Matches(c, number[c], frame_storage[c][i])
      BY <2>1 DEF Stored
    <3>0. frame_storage[c] \in Seq(Answer) /\ (frame_storage'[c] = Append(frame_storage[c], f)
                                               \/ frame_storage'[c] = frame_storage[c])
      BY <1>3, <1>6
    <3>2. i \in DOMAIN frame_storage'[c] /\ frame_storage'[c][i] = frame_storage[c][i]
      BY <1>4, <3>0
    <3>3. Matches(c, number[c], frame_storage[c][i])'
      BY <1>1, <3>1, <3>2 DEF Matches, Eq, EqAlternate
    <3> QED BY <3>2, <3>3 DEF Stored
  <2>2. ASSUME NEW c \in answered
        PROVE  /\ Live(c)'
               /\ op'[c] # Reset => /\ pc'[c] = "sending" => Stored(c)'
                                    /\ pc'[c] # "sending" => value'[c] # NoFrame
    BY <1>1, <1>3, <1>4, <1>5, <1>6, <2>1 DEF AnswerInv, AnsweredOK
  <2>3. ASSUME NEW c \in Callers, c = f.call
        PROVE  /\ Live(c)'
               /\ op'[c] # Reset => /\ pc'[c] = "sending" => Stored(c)'
                                    /\ pc'[c] # "sending" => value'[c] # NoFrame
    <3>1. Live(c) /\ (op[c] # Reset => f.seq = LiveNumber(c) /\ Matches(c, f.seq, f))
      BY <1>4, <2>3 DEF About
    <3>2. ASSUME op[c] # Reset, pc[c] = "sending" PROVE Stored(c)'
      <4>1. seqnum[c] = NoSeq /\ c \in frame_promise_set /\ number[c] = f.seq
        BY <3>1, <3>2 DEF AnswerInv, CallsOK, LiveNumber
      <4>2. Matches(c, NoSeq, f)
        BY <3>1, <3>2 DEF Matches, Eq, EqAlternate
      <4>3. frame_storage'[c] = Append(frame_storage[c], f)
        BY <1>2, <1>6, <4>1, <4>2
      <4>4. PICK i : i = Len(frame_storage[c]) + 1
        OBVIOUS
      <4>5. i \in DOMAIN frame_storage'[c] /\ frame_storage'[c][i] = f
        BY <1>3, <1>4, <4>3, <4>4
      <4>6. Matches(c, number[c], f)'
        BY <1>1, <3>1, <3>2, <4>1 DEF Matches, Eq, EqAlternate
      <4> QED BY <4>5, <4>6 DEF Stored
    <3>3. ASSUME op[c] # Reset, pc[c] # "sending" PROVE value'[c] # NoFrame
      <4>1. pc[c] \in {"await", "timedout"}
        BY <3>1, <3>3 DEF Live, AnswerInv, CallsOK
      <4>2. f.seq = seqnum[c] /\ Matches(c, seqnum[c], f) /\ seqnum[c] # NoSeq
        BY <3>1, <3>3, <4>1 DEF AnswerInv, CallsOK, LiveNumber
      <4>3. CASE c \in frame_promise_set
        BY <1>2, <1>4, <1>6, <4>2, <4>3
      <4>4. CASE c \notin frame_promise_set
        BY <1>2, <1>6, <4>1, <4>4 DEF AnswerInv, CallsOK
      <4> QED BY <4>3, <4>4
    <3> QED BY <1>1, <1>5, <3>1, <3>2, <3>3
  <2> QED BY <1>1, <1>3, <2>2, <2>3 DEF AnsweredOK
<1> QED BY <1>7, <1>8, <1>9 DEF AnswerInv

\* The bus transmits the oldest request: from now on the call has a number.
LEMMA TransmitAnswer ==
  ASSUME TypeOK, AnswerInv, BusTransmits
  PROVE  AnswerInv'
<1>0. PICK c : c = Head(fifo)
  OBVIOUS
<1>1. /\ fifo # <<>> /\ fifo' = Tail(fifo) /\ status' = [status EXCEPT ![c] = "sent"]
      /\ number' = [number EXCEPT ![c] = next]
      /\ wire' = Append(wire, [call |-> c, op |-> op[c], seq |-> next])
      /\ UNCHANGED <<pc, op, promiseVars, frame_queue, answered>>
  BY <1>0 DEF BusTransmits, Bus!Transmit
<1>2. /\ fifo \in Seq(Callers) /\ status \in [Callers -> {"idle", "queued", "sent", "done"}]
      /\ number \in [Callers -> Seqnums] /\ next \in Seqnums /\ wire \in Seq(Request)
      /\ answered \subseteq Callers /\ pc \in [Callers -> CallPCs] /\ op \in [Callers -> Ops]
  BY DEF TypeOK
<1>3. /\ c \in Callers /\ status[c] = "queued" /\ \A i \in DOMAIN fifo' : fifo'[i] # c
      /\ \A i \in DOMAIN fifo' : fifo'[i] = fifo[i + 1] /\ i + 1 \in DOMAIN fifo /\ fifo[i + 1] \in Callers
  BY <1>0, <1>1, <1>2 DEF AnswerInv, FifoOK
<1>4. ~Live(c) /\ pc[c] = "sending"
  BY <1>3, NotLive DEF AnswerInv, CallsOK
<1>5. /\ \A d \in Callers : d # c => status'[d] = status[d] /\ number'[d] = number[d]
      /\ status'[c] = "sent" /\ number'[c] = next
  BY <1>1, <1>2, <1>3
<1>6. \A d \in Callers : Live(d) => Live(d)' /\ LiveNumber(d)' = LiveNumber(d) /\ op'[d] = op[d] /\ d # c
  BY <1>1, <1>4, <1>5 DEF Live, LiveNumber, promiseVars
<1>7. FramesOK'
  <2>1. PICK q : q = [call |-> c, op |-> op[c], seq |-> next]
    OBVIOUS
  <2>2. RequestAbout(q)'
    BY <1>1, <1>4, <1>5, <2>1 DEF RequestAbout, Live, LiveNumber
  <2>3. q \in Request
    BY <1>2, <1>3, <2>1 DEF Request
  <2>4. \A i \in DOMAIN wire' : wire'[i] = q \/ (i \in DOMAIN wire /\ wire'[i] = wire[i])
    BY <1>1, <1>2, <2>1, <2>3
  <2>5. \A i \in DOMAIN wire' : RequestAbout(wire[i])'
    BY <1>6, <2>2, <2>4, AboutKept DEF AnswerInv, FramesOK
  <2>6. /\ \A i \in DOMAIN frame_queue' : About(frame_queue[i])'
        /\ \A d \in Callers : \A i \in DOMAIN frame_storage'[d] : About(frame_storage[d][i])'
    BY <1>1, <1>6, AboutKept DEF AnswerInv, FramesOK, promiseVars
  <2> QED BY <2>5, <2>6 DEF FramesOK
<1>8. FifoOK'
  <2>1. \A i \in DOMAIN fifo' : status'[fifo'[i]] = "queued"
    BY <1>3, <1>5 DEF AnswerInv, FifoOK
  <2>2. \A i, j \in DOMAIN fifo' : fifo'[i] = fifo'[j] => i = j
    BY <1>1, <1>2, <1>3 DEF AnswerInv, FifoOK
  <2> QED BY <2>1, <2>2 DEF FifoOK
<1>9. CallsOK'
  BY <1>1, <1>3, <1>5 DEF AnswerInv, CallsOK, promiseVars
<1>10. AnsweredOK'
  <2>1. \A d \in Callers : d # c => (Stored(d)' <=> Stored(d))
    BY <1>1, <1>5, StoredKept DEF promiseVars
  <2> QED BY <1>1, <1>2, <1>6, <2>1 DEF AnswerInv, AnsweredOK, promiseVars
<1> QED BY <1>7, <1>8, <1>9, <1>10 DEF AnswerInv

\* The node answers a request, or it does not.
LEMMA NodeAnswer ==
  ASSUME TypeOK, AnswerInv, NodeAnswers \/ NoAnswer
  PROVE  AnswerInv'
<1>1. /\ UNCHANGED <<fifo, status, number, pc, op, promiseVars, answered>>
      /\ wire # <<>> /\ wire' = Tail(wire)
      /\ frame_queue' = frame_queue
         \/ \E f \in Answers(Head(wire)) : frame_queue' = Append(frame_queue, f)
  BY DEF NodeAnswers, NoAnswer, busVars
<1>2. wire \in Seq(Request) /\ frame_queue \in Seq(Answer) /\ answered \subseteq Callers
  BY DEF TypeOK
<1>3. \A c \in Callers :
        /\ Live(c) => Live(c)' /\ LiveNumber(c)' = LiveNumber(c) /\ op'[c] = op[c]
        /\ Stored(c)' <=> Stored(c)
  BY <1>1, StoredKept DEF Live, LiveNumber, promiseVars
<1>4. \A i \in DOMAIN wire' : wire'[i] = wire[i + 1] /\ i + 1 \in DOMAIN wire
  BY <1>1, <1>2
<1>5. ASSUME NEW f \in Answers(Head(wire)) PROVE f \in Answer /\ About(f)'
  <2>1. PICK q : q = Head(wire)
    OBVIOUS
  <2>2. q \in Request /\ RequestAbout(q)
    BY <1>1, <1>2, <2>1 DEF AnswerInv, FramesOK
  <2>3. /\ f \in Answer /\ f.call = q.call
        /\ \/ f.type = "REG_VALUE" /\ f.reg = q.op /\ f.seq = q.seq
           \/ f.type = "COMMAND_ERROR" /\ f.seq = q.seq
           \/ f.type = "NODE_TURNED_ON" /\ q.op = Reset
    BY <2>1 DEF Answers
  <2>4. f.dlc >= 1
    BY <2>3, AnswerFields
  <2>5. About(f)
    BY <2>2, <2>3, <2>4 DEF About, RequestAbout, Matches, Eq, EqAlternate
  <2> QED BY <1>3, <2>3, <2>5, AboutKept
<1>6. FramesOK'
  <2>1. \A i \in DOMAIN wire' : RequestAbout(wire[i])'
    BY <1>3, <1>4, AboutKept DEF AnswerInv, FramesOK
  <2>2. ASSUME NEW i \in DOMAIN frame_queue' PROVE About(frame_queue[i])'
    <3>1. CASE frame_queue' = frame_queue
      BY <1>3, <3>1, AboutKept DEF AnswerInv, FramesOK
    <3>2. ASSUME NEW f \in Answers(Head(wire)), frame_queue' = Append(frame_queue, f)
          PROVE  About(frame_queue[i])'
      <4>1. f \in Answer /\ About(f)'
        BY <1>5
      <4>2. frame_queue'[i] = f \/ (i \in DOMAIN frame_queue /\ frame_queue'[i] = frame_queue[i])
        BY <1>2, <3>2, <4>1
      <4> QED BY <1>3, <4>1, <4>2, AboutKept DEF AnswerInv, FramesOK
    <3> QED BY <1>1, <3>1, <3>2
  <2>3. \A c \in Callers : \A i \in DOMAIN frame_storage'[c] : About(frame_storage[c][i])'
    BY <1>1, <1>3, AboutKept DEF AnswerInv, FramesOK, promiseVars
  <2> QED BY <2>1, <2>2, <2>3 DEF FramesOK
<1>7. CallsOK' /\ FifoOK' /\ AnsweredOK'
  BY <1>1, <1>2, <1>3 DEF AnswerInv, CallsOK, FifoOK, AnsweredOK, promiseVars
<1> QED BY <1>6, <1>7 DEF AnswerInv

\* Steps that only move a call or its status on.
LEMMA OtherAnswer ==
  ASSUME TypeOK, AnswerInv, NEW c \in Callers, Timeout(c) \/ BusAcknowledges(c)
  PROVE  AnswerInv'
<1>1. /\ UNCHANGED <<fifo, number, op, promiseVars, answered, wire, frame_queue>>
      /\ \/ pc[c] = "await" /\ pc' = [pc EXCEPT ![c] = "timedout"] /\ status' = status
         \/ status[c] = "sent" /\ status' = [status EXCEPT ![c] = "done"] /\ pc' = pc
  BY DEF Timeout, BusAcknowledges, Bus!Acknowledge, busVars
<1>2. /\ pc \in [Callers -> CallPCs] /\ status \in [Callers -> {"idle", "queued", "sent", "done"}]
      /\ fifo \in Seq(Callers) /\ answered \subseteq Callers
  BY DEF TypeOK
<1>3. \A d \in Callers :
        /\ Live(d) => Live(d)' /\ LiveNumber(d)' = LiveNumber(d) /\ op'[d] = op[d]
        /\ Stored(d)' <=> Stored(d)
  BY <1>1, <1>2, StoredKept DEF Live, LiveNumber, promiseVars
<1>4. FramesOK'
  BY <1>1, <1>3, AboutKept DEF AnswerInv, FramesOK, promiseVars
<1>5. CallsOK' /\ FifoOK' /\ AnsweredOK'
  BY <1>1, <1>2, <1>3 DEF AnswerInv, CallsOK, FifoOK, AnsweredOK, promiseVars
<1> QED BY <1>4, <1>5 DEF AnswerInv

\* All steps.
LEMMA NextAnswerInv == TypeOK /\ AnswerInv /\ [Next]_vars => AnswerInv'
<1> SUFFICES ASSUME TypeOK, AnswerInv, [Next]_vars PROVE AnswerInv'
  OBVIOUS
<1>1. ASSUME NEW c \in Callers, NEW r, TakeAnswer(c, r) PROVE AnswerInv'
  BY <1>1, FinishAnswer DEF TakeAnswer
<1>2. ASSUME NEW c \in Callers, DestroyAfterTimeout(c) PROVE AnswerInv'
  BY <1>2, FinishAnswer DEF DestroyAfterTimeout
<1>3. CASE UNCHANGED vars
  <2>1. UNCHANGED <<fifo, status, number, pc, op, promiseVars, answered, wire, frame_queue>>
    BY <1>3 DEF vars, busVars
  <2>2. \A c \in Callers :
          /\ Live(c) => Live(c)' /\ LiveNumber(c)' = LiveNumber(c) /\ op'[c] = op[c]
          /\ Stored(c)' <=> Stored(c)
    BY <2>1, StoredKept DEF Live, LiveNumber, promiseVars
  <2> QED
    BY <2>1, <2>2, AboutKept
    DEF AnswerInv, CallsOK, FifoOK, FramesOK, AnsweredOK, promiseVars, TypeOK
<1> QED
  BY <1>1, <1>2, <1>3, CreateAnswer, SendAnswer, NumberAnswer, ReceiveAnswer, TransmitAnswer,
     NodeAnswer, OtherAnswer
  DEF Next, Caller, Environment

LEMMA AnswerInvariant == Spec => []AnswerInv
<1>1. Init => AnswerInv
  BY Constants
  DEF Init, Bus!Init, AnswerInv, CallsOK, FifoOK, FramesOK, AnsweredOK
<1> QED BY <1>1, NextAnswerInv, TypeCorrect, PTL DEF Spec

\* An answer to get_reg, set_reg, set_bit or clear_bit that on_frame_recv has been shown is
\* never lost while the call waits, also when it came before send_frame had returned
\* the number: any number of calls, registers and numbers, in any interleaving.
THEOREM AnswersNotMissed == Spec => []RegisterAnswerNotMissed
<1>1. TypeOK /\ AnswerInv => RegisterAnswerNotMissed
  BY DEF TypeOK, AnswerInv, AnsweredOK, RegisterAnswerNotMissed, Missed
<1> QED BY <1>1, AnswerInvariant, TypeCorrect, PTL

-----------------------------------------------------------------------------
(* Whose answer. As long as no number was given out while in use, whatever carries  *)
(* the number of a call belongs to that call. A NODE_TURNED_ON carries no number.   *)

Own(x) == \A c \in Callers : Live(c) /\ x.seq = LiveNumber(c) => x.call = c

OwnFrame(f) == f.type = "NODE_TURNED_ON" \/ Own(f)

OwnOK ==
  /\ \A i \in DOMAIN wire : Own(wire[i])
  /\ \A i \in DOMAIN frame_queue : OwnFrame(frame_queue[i])
  /\ \A c \in Callers : \A i \in DOMAIN frame_storage[c] : OwnFrame(frame_storage[c][i])

\* A register call was given its own answer.
ValueOK ==
  \A c \in Callers :
    pc[c] \in {"await", "timedout"} /\ op[c] # Reset /\ value[c] # NoFrame => value[c].call = c

\* The inductive invariant behind AnswerIsForCall.
OwnInv == ~reused => OwnOK /\ ValueOK

\* Steps that give no call a number.
LEMMA OwnKept ==
  ASSUME \A c \in Callers : Live(c)' => Live(c) /\ LiveNumber(c)' = LiveNumber(c)
  PROVE  \A x : (Own(x) => Own(x)') /\ (OwnFrame(x) => OwnFrame(x)')
BY DEF Own, OwnFrame

\* Steps that move no frame and answer no call.
LEMMA SameOwn ==
  ASSUME OwnOK, ValueOK, UNCHANGED <<wire, frame_queue, frame_storage, value>>,
         \A c \in Callers : Live(c)' => Live(c) /\ LiveNumber(c)' = LiveNumber(c),
         \A c \in Callers : pc'[c] \in {"await", "timedout"} =>
           pc[c] \in {"await", "timedout"} /\ op'[c] = op[c]
  PROVE  OwnOK' /\ ValueOK'
BY OwnKept DEF OwnOK, ValueOK

\* A frame with the number of a register call that matches its comparator is its own.
LEMMA OwnMatch ==
  ASSUME NEW c \in Callers, NEW f, OwnFrame(f), Live(c), op[c] # Reset, LiveNumber(c) # NoSeq,
         Matches(c, LiveNumber(c), f)
  PROVE  f.call = c
BY DEF OwnFrame, Own, Matches, Eq, EqAlternate

LEMMA NumberOwn ==
  ASSUME TypeOK, AnswerInv, OwnOK, ValueOK, NEW c \in Callers, SetComparatorSeqnum(c)
  PROVE  OwnOK' /\ ValueOK'
<1>1. /\ pc[c] = "sending" /\ pc' = [pc EXCEPT ![c] = "await"]
      /\ status[c] = "done" /\ status' = [status EXCEPT ![c] = "idle"]
      /\ number' = [number EXCEPT ![c] = 0] /\ seqnum' = [seqnum EXCEPT ![c] = number[c]]
      /\ UNCHANGED <<op, wire, frame_queue>>
  BY DEF SetComparatorSeqnum, Bus!Return
<1>2. /\ pc \in [Callers -> CallPCs]
      /\ status \in [Callers -> {"idle", "queued", "sent", "done"}]
      /\ number \in [Callers -> Seqnums] /\ seqnum \in [Callers -> Seqnums \cup {NoSeq}]
      /\ value \in [Callers -> Answer \cup {NoFrame}] /\ frame_storage \in [Callers -> Seq(Answer)]
      /\ number[c] # NoSeq
  BY Constants DEF TypeOK, Seqnums
<1>3. /\ \A d \in Callers : Live(d)' => Live(d) /\ LiveNumber(d)' = LiveNumber(d)
      /\ \A d \in Callers : d # c => pc'[d] = pc[d]
      /\ Live(c) /\ LiveNumber(c) = number[c]
  BY <1>1, <1>2 DEF Live, LiveNumber
<1>4. CASE Hits(c, number[c]) = {}
  <2>1. frame_storage' = [frame_storage EXCEPT ![c] = <<>>] /\ value' = value
    BY <1>4, Zenon DEF SetComparatorSeqnum
  <2>2. value[c] = NoFrame
    BY <1>1 DEF AnswerInv, CallsOK
  <2>3. OwnOK'
    BY <1>1, <1>2, <1>3, <2>1, OwnKept DEF OwnOK
  <2>4. ValueOK'
    BY <1>1, <1>3, <2>1, <2>2 DEF ValueOK
  <2> QED BY <2>3, <2>4
<1>5. CASE Hits(c, number[c]) # {}
  <2>1. /\ frame_storage' = frame_storage
        /\ \E i \in Hits(c, number[c]) : value' = [value EXCEPT ![c] = frame_storage[c][i]]
    BY <1>5 DEF SetComparatorSeqnum
  <2>2. PICK i \in DOMAIN frame_storage[c] :
          /\ value' = [value EXCEPT ![c] = frame_storage[c][i]]
          /\ Matches(c, number[c], frame_storage[c][i])
    BY <2>1 DEF Hits
  <2>3. op[c] # Reset => frame_storage[c][i].call = c
    BY <1>2, <1>3, <2>2, OwnMatch DEF OwnOK
  <2>4. OwnOK'
    BY <1>1, <1>3, <2>1, OwnKept DEF OwnOK
  <2>5. value'[c] = frame_storage[c][i] /\ \A d \in Callers : d # c => value'[d] = value[d]
    BY <1>2, <2>2
  <2>6. ValueOK'
    BY <1>1, <1>3, <2>3, <2>5 DEF ValueOK
  <2> QED BY <2>4, <2>6
<1> QED BY <1>4, <1>5

\* A call that returns takes its frames' call with it.
LEMMA FinishOwn ==
  ASSUME TypeOK, AnswerInv, OwnOK, ValueOK, NEW c \in Callers, pc[c] \in {"await", "timedout"},
         Finish(c)
  PROVE  OwnOK' /\ ValueOK'
<1>1. /\ pc' = [pc EXCEPT ![c] = "idle"]
      /\ wire' = Forget(c, wire) /\ frame_queue' = Forget(c, frame_queue)
      /\ frame_storage' = [d \in Callers |-> IF d = c THEN <<>> ELSE Forget(c, frame_storage[d])]
      /\ op' = [op EXCEPT ![c] = Reset] /\ seqnum' = [seqnum EXCEPT ![c] = NoSeq]
      /\ value' = [value EXCEPT ![c] = NoFrame] /\ UNCHANGED <<status, number>>
  BY DEF Finish, busVars
<1>2. /\ pc \in [Callers -> CallPCs] /\ op \in [Callers -> Ops]
      /\ wire \in Seq(Request) /\ frame_queue \in Seq(Answer)
      /\ seqnum \in [Callers -> Seqnums \cup {NoSeq}]
      /\ value \in [Callers -> Answer \cup {NoFrame}] /\ frame_storage \in [Callers -> Seq(Answer)]
      /\ status[c] = "idle"
  BY DEF TypeOK, AnswerInv, CallsOK
<1>3. /\ \A d \in Callers : Live(d)' => d # c /\ Live(d) /\ LiveNumber(d)' = LiveNumber(d)
      /\ \A d \in Callers : d # c => pc'[d] = pc[d] /\ op'[d] = op[d] /\ value'[d] = value[d]
      /\ pc'[c] = "idle"
  BY <1>1, <1>2 DEF Live, LiveNumber
<1>4. ASSUME NEW x, NEW y, y.seq = x.seq, x.call # c => y.call = x.call, Own(x)
      PROVE  Own(y)'
  BY <1>3, <1>4 DEF Own
<1>5. ASSUME NEW s \in Seq(Answer), \A i \in DOMAIN s : OwnFrame(s[i]), NEW i \in DOMAIN s
      PROVE  OwnFrame(Forget(c, s)[i])'
  <2>1. PICK x, y : x = s[i] /\ y = Forget(c, s)[i]
    OBVIOUS
  <2>2. x \in Answer /\ y = IF x.call = c THEN [x EXCEPT !.call = Nobody] ELSE x
    BY <2>1 DEF Forget
  <2>3. y.seq = x.seq /\ y.type = x.type /\ (x.call # c => y.call = x.call)
    BY <2>2, AnswerFields
  <2>4. OwnFrame(y)'
    BY <1>4, <1>5, <2>1, <2>3 DEF OwnFrame
  <2> QED BY <2>1, <2>4
<1>6. ASSUME NEW s \in Seq(Request), \A i \in DOMAIN s : Own(s[i]), NEW i \in DOMAIN s
      PROVE  Own(Forget(c, s)[i])'
  <2>1. PICK x, y : x = s[i] /\ y = Forget(c, s)[i]
    OBVIOUS
  <2>2. x \in Request /\ y = IF x.call = c THEN [x EXCEPT !.call = Nobody] ELSE x
    BY <2>1 DEF Forget
  <2>3. y.seq = x.seq /\ (x.call # c => y.call = x.call)
    BY <2>2, RequestFields
  <2> QED BY <1>4, <1>6, <2>1, <2>3
<1>7. OwnOK'
  <2>1. \A i \in DOMAIN wire' : Own(wire[i])'
    BY <1>1, <1>2, <1>6, ForgetType DEF OwnOK
  <2>2. \A i \in DOMAIN frame_queue' : OwnFrame(frame_queue[i])'
    BY <1>1, <1>2, <1>5, ForgetType DEF OwnOK
  <2>3. ASSUME NEW d \in Callers, NEW i \in DOMAIN frame_storage'[d]
        PROVE  OwnFrame(frame_storage[d][i])'
    <3>1. d # c /\ frame_storage'[d] = Forget(c, frame_storage[d])
      BY <1>1
    <3>2. frame_storage[d] \in Seq(Answer) /\ \A j \in DOMAIN frame_storage[d] : OwnFrame(frame_storage[d][j])
      BY <1>2 DEF OwnOK
    <3>3. i \in DOMAIN frame_storage[d]
      BY <3>1, <3>2, ForgetType
    <3> QED BY <1>5, <3>1, <3>2, <3>3
  <2> QED BY <2>1, <2>2, <2>3 DEF OwnOK
<1>8. ValueOK'
  BY <1>3 DEF ValueOK
<1> QED BY <1>7, <1>8

LEMMA ReceiveOwn ==
  ASSUME TypeOK, AnswerInv, OwnOK, ValueOK, OnFrameRecv
  PROVE  OwnOK' /\ ValueOK'
<1> DEFINE h    == Head(frame_queue)
           hit  == {c \in frame_promise_set : Matches(c, seqnum[c], h)}
           full == {c \in hit : seqnum[c] # NoSeq}
<1>0. PICK f, Hit, Full : f = h /\ Hit = hit /\ Full = full
  OBVIOUS
<1>1. /\ value' = [c \in Callers |-> IF c \in Full THEN f ELSE value[c]]
      /\ frame_storage' = [c \in Callers |-> IF c \in Hit \ Full
                                             THEN Append(frame_storage[c], f)
                                             ELSE frame_storage[c]]
      /\ frame_queue' = Tail(frame_queue) /\ frame_queue # <<>>
      /\ UNCHANGED <<status, number, pc, op, seqnum, wire>>
  BY <1>0 DEF OnFrameRecv, busVars
<1>2. /\ \A c \in Full : seqnum[c] # NoSeq /\ Matches(c, seqnum[c], f)
      /\ f = Head(frame_queue)
  BY <1>0
<1> HIDE DEF h, hit, full
<1>3. /\ frame_queue \in Seq(Answer) /\ frame_storage \in [Callers -> Seq(Answer)]
      /\ pc \in [Callers -> CallPCs]
  BY DEF TypeOK
<1>4. /\ f \in Answer /\ OwnFrame(f)
      /\ \A i \in DOMAIN frame_queue' : frame_queue'[i] = frame_queue[i + 1] /\ i + 1 \in DOMAIN frame_queue
  BY <1>1, <1>2, <1>3 DEF OwnOK
<1>5. \A c \in Callers : Live(c)' = Live(c) /\ LiveNumber(c)' = LiveNumber(c)
  BY <1>1 DEF Live, LiveNumber
<1>6. OwnOK'
  <2>1. \A i \in DOMAIN wire' : Own(wire[i])'
    BY <1>1, <1>5, OwnKept DEF OwnOK
  <2>2. \A i \in DOMAIN frame_queue' : OwnFrame(frame_queue[i])'
    BY <1>4, <1>5, OwnKept DEF OwnOK
  <2>3. ASSUME NEW c \in Callers, NEW i \in DOMAIN frame_storage'[c]
        PROVE  OwnFrame(frame_storage[c][i])'
    <3>1. frame_storage[c] \in Seq(Answer) /\ (frame_storage'[c] = Append(frame_storage[c], f)
                                               \/ frame_storage'[c] = frame_storage[c])
      BY <1>1, <1>3
    <3>2. frame_storage'[c][i] = f \/ (i \in DOMAIN frame_storage[c] /\ frame_storage'[c][i] = frame_storage[c][i])
      BY <1>4, <3>1
    <3> QED BY <1>4, <1>5, <3>2, OwnKept DEF OwnOK
  <2> QED BY <2>1, <2>2, <2>3 DEF OwnOK
<1>7. ValueOK'
  <2> SUFFICES ASSUME NEW c \in Callers, pc[c] \in {"await", "timedout"}, op[c] # Reset,
                      value'[c] # NoFrame
               PROVE  value'[c].call = c
    BY <1>1 DEF ValueOK
  <2>1. CASE c \in Full
    <3>1. Live(c) /\ LiveNumber(c) = seqnum[c]
      BY DEF Live, LiveNumber
    <3>2. f.call = c
      BY <1>2, <1>4, <2>1, <3>1, OwnMatch
    <3> QED BY <1>1, <2>1, <3>2
  <2>2. CASE c \notin Full
    BY <1>1, <2>2 DEF ValueOK
  <2> QED BY <2>1, <2>2
<1> QED BY <1>6, <1>7

\* A number that is not in use is given to the oldest request.
LEMMA TransmitOwn ==
  ASSUME TypeOK, AnswerInv, OwnOK, ValueOK, BusTransmits, next \notin NumbersInUse
  PROVE  OwnOK' /\ ValueOK'
<1>0. PICK c, q, n : c = Head(fifo) /\ q = [call |-> c, op |-> op[c], seq |-> next] /\ n = next
  OBVIOUS
<1>1. /\ fifo # <<>> /\ status' = [status EXCEPT ![c] = "sent"]
      /\ number' = [number EXCEPT ![c] = n] /\ wire' = Append(wire, q)
      /\ UNCHANGED <<pc, op, promiseVars, frame_queue>>
  BY <1>0 DEF BusTransmits, Bus!Transmit
<1>2. /\ fifo \in Seq(Callers) /\ status \in [Callers -> {"idle", "queued", "sent", "done"}]
      /\ number \in [Callers -> Seqnums] /\ wire \in Seq(Request)
      /\ frame_queue \in Seq(Answer) /\ frame_storage \in [Callers -> Seq(Answer)]
  BY DEF TypeOK
<1>3. c \in Callers /\ status[c] = "queued" /\ q \in Request
  BY <1>0, <1>1, <1>2 DEF AnswerInv, FifoOK, TypeOK, Request
<1>4. pc[c] = "sending"
  BY <1>3 DEF AnswerInv, CallsOK
<1>5. /\ LiveNumber(c)' = n
      /\ \A d \in Callers : d # c => Live(d)' = Live(d) /\ LiveNumber(d)' = LiveNumber(d)
  BY <1>1, <1>2, <1>3, <1>4 DEF Live, LiveNumber, promiseVars
<1>6. \A d \in Callers : Live(d) => LiveNumber(d) # n
  BY <1>0 DEF NumbersInUse, Live, LiveNumber
<1>7. /\ \A i \in DOMAIN wire : wire[i].seq # n
      /\ \A i \in DOMAIN frame_queue : frame_queue[i].seq # n
      /\ \A d \in Callers : \A i \in DOMAIN frame_storage[d] : frame_storage[d][i].seq # n
  BY <1>0 DEF NumbersInUse, Numbers
<1>8. \A x : x.seq # n => (Own(x) => Own(x)') /\ (OwnFrame(x) => OwnFrame(x)')
  BY <1>5 DEF Own, OwnFrame
<1>9. Own(q)'
  BY <1>0, <1>5, <1>6 DEF Own
<1>10. \A i \in DOMAIN wire' : wire'[i] = q \/ (i \in DOMAIN wire /\ wire'[i] = wire[i])
  <2>1. wire \in Seq(Request) /\ q \in Request /\ wire' = Append(wire, q)
    BY <1>1, <1>2, <1>3
  <2> QED BY ONLY <2>1
<1>11. OwnOK'
  BY <1>1, <1>7, <1>8, <1>9, <1>10 DEF OwnOK, promiseVars
<1>12. ValueOK'
  BY <1>1 DEF ValueOK, promiseVars
<1> QED BY <1>11, <1>12

\* The answer to a request has its number, or none, and its call.
LEMMA NodeOwn ==
  ASSUME TypeOK, OwnOK, ValueOK, NodeAnswers \/ NoAnswer
  PROVE  OwnOK' /\ ValueOK'
<1>1. /\ UNCHANGED <<status, number, pc, op, promiseVars>>
      /\ wire # <<>> /\ wire' = Tail(wire)
      /\ frame_queue' = frame_queue
         \/ \E f \in Answers(Head(wire)) : frame_queue' = Append(frame_queue, f)
  BY DEF NodeAnswers, NoAnswer, busVars
<1>2. wire \in Seq(Request) /\ frame_queue \in Seq(Answer)
  BY DEF TypeOK
<1>3. \A c \in Callers : Live(c)' = Live(c) /\ LiveNumber(c)' = LiveNumber(c)
  BY <1>1 DEF Live, LiveNumber, promiseVars
<1>4. \A i \in DOMAIN wire' : wire'[i] = wire[i + 1] /\ i + 1 \in DOMAIN wire
  BY <1>1, <1>2
<1>5. ASSUME NEW f \in Answers(Head(wire)) PROVE f \in Answer /\ OwnFrame(f)'
  <2>1. PICK q : q = Head(wire)
    OBVIOUS
  <2>2. Own(q)
    BY <1>1, <1>2, <2>1 DEF OwnOK
  <2>3. /\ f \in Answer /\ f.call = q.call
        /\ f.type = "NODE_TURNED_ON" \/ f.seq = q.seq
    BY <2>1 DEF Answers
  <2>4. OwnFrame(f)
    BY <2>2, <2>3 DEF Own, OwnFrame
  <2> QED BY <1>3, <2>3, <2>4, OwnKept
<1>6. OwnOK'
  <2>1. \A i \in DOMAIN wire' : Own(wire[i])'
    BY <1>3, <1>4, OwnKept DEF OwnOK
  <2>2. ASSUME NEW i \in DOMAIN frame_queue' PROVE OwnFrame(frame_queue[i])'
    <3>1. CASE frame_queue' = frame_queue
      BY <1>3, <3>1, OwnKept DEF OwnOK
    <3>2. ASSUME NEW f \in Answers(Head(wire)), frame_queue' = Append(frame_queue, f)
          PROVE  OwnFrame(frame_queue[i])'
      <4>1. f \in Answer /\ OwnFrame(f)'
        BY <1>5
      <4>2. frame_queue'[i] = f \/ (i \in DOMAIN frame_queue /\ frame_queue'[i] = frame_queue[i])
        BY <1>2, <3>2, <4>1
      <4> QED BY <1>3, <4>1, <4>2, OwnKept DEF OwnOK
    <3> QED BY <1>1, <3>1, <3>2
  <2>3. \A c \in Callers : \A i \in DOMAIN frame_storage'[c] : OwnFrame(frame_storage[c][i])'
    BY <1>1, <1>3, OwnKept DEF OwnOK, promiseVars
  <2> QED BY <2>1, <2>2, <2>3 DEF OwnOK
<1>7. ValueOK'
  BY <1>1 DEF ValueOK, promiseVars
<1> QED BY <1>6, <1>7

\* All steps.
LEMMA NextOwnInv == TypeOK /\ AnswerInv /\ OwnInv /\ [Next]_vars => OwnInv'
<1> SUFFICES ASSUME TypeOK, AnswerInv, OwnInv, [Next]_vars, ~reused' PROVE OwnOK' /\ ValueOK'
  BY DEF OwnInv
<1>a. ~reused /\ (BusTransmits => next \notin NumbersInUse)
  <2>1. BusTransmits => reused' = (reused \/ next \in NumbersInUse)
    BY DEF BusTransmits
  <2>2. ~BusTransmits => reused' = reused
    BY DEF Next, Caller, CreatePromise, Send, SetComparatorSeqnum, TakeAnswer, Timeout,
           DestroyAfterTimeout, Finish, OnFrameRecv, Environment, BusAcknowledges, NodeAnswers,
           NoAnswer, vars
  <2>3. CASE BusTransmits
    BY <2>1, <2>3, Zenon
  <2>4. CASE ~BusTransmits
    <3>1. reused' = reused
      BY <2>2, <2>4
    <3>2. ~reused
      BY <3>1
    <3> QED BY <2>4, <3>2
  <2> QED BY <2>3, <2>4, Zenon
<1>b. OwnOK /\ ValueOK
  BY <1>a DEF OwnInv
<1>c. /\ pc \in [Callers -> CallPCs] /\ status \in [Callers -> {"idle", "queued", "sent", "done"}]
      /\ op \in [Callers -> Ops]
  BY DEF TypeOK
<1>1. ASSUME NEW c \in Callers, NEW o \in Ops, CreatePromise(c, o) PROVE OwnOK' /\ ValueOK'
  BY <1>1, <1>b, <1>c, SameOwn DEF CreatePromise, busVars, Live, LiveNumber
<1>2. ASSUME NEW c \in Callers, Send(c) PROVE OwnOK' /\ ValueOK'
  BY <1>2, <1>b, <1>c, SameOwn DEF Send, Bus!Accept, promiseVars, Live, LiveNumber
<1>3. ASSUME NEW c \in Callers, NEW r, TakeAnswer(c, r) PROVE OwnOK' /\ ValueOK'
  BY <1>3, <1>b, FinishOwn DEF TakeAnswer
<1>4. ASSUME NEW c \in Callers, DestroyAfterTimeout(c) PROVE OwnOK' /\ ValueOK'
  BY <1>4, <1>b, FinishOwn DEF DestroyAfterTimeout
<1>5. ASSUME NEW c \in Callers, Timeout(c) PROVE OwnOK' /\ ValueOK'
  BY <1>5, <1>b, <1>c, SameOwn DEF Timeout, busVars, promiseVars, Live, LiveNumber
<1>6. ASSUME NEW c \in Callers, BusAcknowledges(c) PROVE OwnOK' /\ ValueOK'
  BY <1>6, <1>b, <1>c, SameOwn DEF BusAcknowledges, Bus!Acknowledge, promiseVars, Live, LiveNumber
<1>7. CASE UNCHANGED vars
  BY <1>7, <1>b, SameOwn DEF vars, busVars, promiseVars, Live, LiveNumber
<1> QED
  BY <1>1, <1>2, <1>3, <1>4, <1>5, <1>6, <1>7, <1>a, <1>b, NumberOwn, ReceiveOwn, TransmitOwn, NodeOwn
  DEF Next, Caller, Environment

\* The promise of a register call is set to the answer to its own request, never to a
\* late answer to an earlier one or to the answer to another thread's, as long as no
\* number was given out while a call or a frame still used it.
THEOREM AnswersOwn == Spec => []AnswerIsForCall
<1>1. Init => OwnInv
  BY DEF Init, OwnInv, OwnOK, ValueOK
<1>2. OwnInv => AnswerIsForCall
  BY DEF OwnInv, ValueOK, AnswerIsForCall
<1> QED BY <1>1, <1>2, NextOwnInv, AnswerInvariant, TypeCorrect, PTL DEF Spec
=============================================================================

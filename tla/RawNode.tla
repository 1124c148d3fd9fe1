------------------------------ MODULE RawNode ------------------------------
(***************************************************************************)
(* Requests of h9d's threads to one node (src/h9d/raw_node.cc, raw_node.h, *)
(* common/h9framecomparator.cc).  A call creates a FramePromise, sends its *)
(* request over the bus (blocking, SendService), learns the sequence       *)
(* number of the request only when send_frame returns, and waits for the   *)
(* answer with a timeout.  Frames reach the promises from the update       *)
(* thread of NodeMgr, possibly before the call knows its number: such      *)
(* frames are stored and replayed.                                         *)
(*                                                                         *)
(* The node and the CAN bus are external: requests are answered in order,  *)
(* late, or not at all.  Every frame carries, as history, the call that it *)
(* is about.                                                               *)
(***************************************************************************)
EXTENDS Naturals, Sequences, FiniteSets

CONSTANTS
  Callers,    \* threads that call get_reg, set_reg, set_bit, clear_bit, reset
  Registers,
  Reset,      \* the operation of reset(), and the "register" of its answer
  SeqMax,     \* H9Frame::SEQNUM_MAX_VALUE
  MaxFrames,  \* bound: requests on their way; frames queued and stored for a call
  Nobody,     \* the call of a frame whose call is over, or that answers none
  NoFrame,    \* the promise is not set
  NoSeq       \* the comparator has no sequence number yet

ASSUME RawNodeAssumption ==
  /\ Reset \notin Registers
  /\ Nobody \notin Callers
  /\ SeqMax \in Nat
  /\ NoSeq \notin Nat
  /\ MaxFrames \in Nat \ {0}

VARIABLES
  fifo, status, number, next,  \* the bus as its callers see it
  pc,                 \* where each caller is
  op,                 \* the register asked for, or Reset
  frame_promise_set,  \* callers whose promise is registered
  alive,              \* callers whose promise is allocated
  seqnum,             \* H9FrameComparator::seqnum, or NoSeq
  frame_storage,      \* frames matched before the number was known
  value,              \* what the promise was set to
  sets,               \* how often the promise was set
  wire,               \* external: transmitted requests the node has not handled
  frame_queue,        \* received frames the update thread has not handled
  answered,           \* history: calls whose answer on_frame_recv has seen
  reused              \* history: a number was given out while still in use

busVars     == <<fifo, status, number, next>>
promiseVars == <<frame_promise_set, alive, seqnum, frame_storage, value, sets>>
vars == <<busVars, pc, op, promiseVars, wire, frame_queue, answered, reused>>

Bus == INSTANCE SendService

Seqnums == 0..SeqMax
Ops == Registers \cup {Reset}

\* Frames a node sends. reg is the first data byte of a REG_VALUE. A NODE_TURNED_ON
\* is a broadcast: no number is read from its CAN identifier, so H9Frame::_seqnum
\* is whatever the memory held.
Answer ==
  [type : {"REG_VALUE"}, seq : Seqnums, reg : Registers, dlc : {1, 2}, call : Callers \cup {Nobody}]
    \cup
  [type : {"COMMAND_ERROR"}, seq : Seqnums, reg : {Reset}, dlc : {1}, call : Callers \cup {Nobody}]
    \cup
  [type : {"NODE_TURNED_ON"}, seq : Seqnums, reg : {Reset}, dlc : {2}, call : Callers \cup {Nobody}]

ASSUME NoFrameAssumption == NoFrame \notin Answer

Request == [call : Callers \cup {Nobody}, op : Ops, seq : Seqnums]

Init ==
  /\ Bus!Init
  /\ pc = [c \in Callers |-> "idle"]
  /\ op = [c \in Callers |-> Reset]
  /\ frame_promise_set = {}
  /\ alive = {}
  /\ seqnum = [c \in Callers |-> NoSeq]
  /\ frame_storage = [c \in Callers |-> <<>>]
  /\ value = [c \in Callers |-> NoFrame]
  /\ sets = [c \in Callers |-> 0]
  /\ wire = <<>>
  /\ frame_queue = <<>>
  /\ answered = {}
  /\ reused = FALSE

-----------------------------------------------------------------------------
(* The comparator of a call. *)

\* Mutant: the number is not compared.
EqAnyNumber(c, n, f) ==
  IF op[c] = Reset
  THEN f.type = "COMMAND_ERROR"
  ELSE f.type = "REG_VALUE" /\ f.dlc >= 1 /\ f.reg = op[c]

\* H9FrameComparator::eq on set 1: a register answer with the register in its first
\* byte, or, for reset(), an error. n is the number compared with, if any.
Eq(c, n, f) ==
  /\ n = NoSeq \/ f.seq = n
  /\ IF op[c] = Reset
     THEN f.type = "COMMAND_ERROR"
     ELSE f.type = "REG_VALUE" /\ f.dlc >= 1 /\ f.reg = op[c]

\* eq_alternate_set on set 2: an error, or, for reset(), a NODE_TURNED_ON whose
\* number is compared with the override 0.
EqAlternate(c, n, f) ==
  IF op[c] = Reset
  THEN f.seq = 0 /\ f.type = "NODE_TURNED_ON"
  ELSE (n = NoSeq \/ f.seq = n) /\ f.type = "COMMAND_ERROR"

\* operator==. The source id holds of every frame this node's promises are shown;
\* the destination id is not compared.
Matches(c, n, f) == Eq(c, n, f) \/ EqAlternate(c, n, f)

-----------------------------------------------------------------------------
(* A call. *)

\* Mutant: the promise stays registered.
EraseNot(c) == UNCHANGED frame_promise_set

\* frame_promise_set.erase.
Erase(c) == frame_promise_set' = frame_promise_set \ {c}

\* create_frame_promise.
CreatePromise(c, o) ==
  /\ pc[c] = "idle"
  /\ pc' = [pc EXCEPT ![c] = "created"]
  /\ op' = [op EXCEPT ![c] = o]
  /\ frame_promise_set' = frame_promise_set \cup {c}
  /\ alive' = alive \cup {c}
  /\ UNCHANGED <<busVars, seqnum, frame_storage, value, sets, wire, frame_queue, answered, reused>>

\* bus->send_frame is called.
Send(c) ==
  /\ pc[c] = "created"
  /\ pc' = [pc EXCEPT ![c] = "sending"]
  /\ Bus!Accept(c)
  /\ UNCHANGED <<op, promiseVars, wire, frame_queue, answered, reused>>

\* Mutant: the stored frames are forgotten.
HitsNone(c, n) == {}

\* The stored frames that match once the number n is known.
Hits(c, n) == {i \in DOMAIN frame_storage[c] : Matches(c, n, frame_storage[c][i])}

\* send_frame returns the number, and set_comparator_seqnum replays the stored frames
\* under the lock. Frames that arrive before it gets the lock are stored as before.
SetComparatorSeqnum(c) ==
  /\ pc[c] = "sending"
  /\ Bus!Return(c)
  /\ pc' = [pc EXCEPT ![c] = "await"]
  /\ seqnum' = [seqnum EXCEPT ![c] = number[c]]
  /\ IF Hits(c, number[c]) = {}
     THEN /\ frame_storage' = [frame_storage EXCEPT ![c] = <<>>]
          /\ UNCHANGED <<frame_promise_set, value, sets>>
     ELSE /\ \E i \in Hits(c, number[c]) :
               /\ \A j \in Hits(c, number[c]) : i <= j
               /\ value' = [value EXCEPT ![c] = frame_storage[c][i]]
          /\ sets' = [sets EXCEPT ![c] = @ + 1]
          /\ Erase(c)
          /\ UNCHANGED frame_storage
  /\ UNCHANGED <<op, alive, wire, frame_queue, answered, reused>>

\* What a call returns for an answer: the length read, the node's error, or
\* MALFORMED_FRAME_ERROR.
Interpret(c, f) ==
  CASE op[c] = Reset /\ f.type = "NODE_TURNED_ON" -> "value"
    [] op[c] # Reset /\ f.type = "REG_VALUE" /\ f.dlc > 1 -> "value"
    [] f.type = "COMMAND_ERROR" /\ f.dlc = 1 -> "error"
    [] OTHER -> "malformed"

\* Frames about a call that is over are about nobody.
Forget(c, s) == [i \in DOMAIN s |-> IF s[i].call = c THEN [s[i] EXCEPT !.call = Nobody] ELSE s[i]]

\* destroy_frame_promise and the return of the call: what belonged to the promise is
\* again as a new promise finds it.
Finish(c) ==
  /\ Erase(c)
  /\ alive' = alive \ {c}
  /\ pc' = [pc EXCEPT ![c] = "idle"]
  /\ wire' = Forget(c, wire)
  /\ frame_queue' = Forget(c, frame_queue)
  /\ frame_storage' = [d \in Callers |-> IF d = c THEN <<>> ELSE Forget(c, frame_storage[d])]
  /\ op' = [op EXCEPT ![c] = Reset]
  /\ seqnum' = [seqnum EXCEPT ![c] = NoSeq]
  /\ value' = [value EXCEPT ![c] = NoFrame]
  /\ sets' = [sets EXCEPT ![c] = 0]
  /\ answered' = answered \ {c}
  /\ UNCHANGED <<busVars, reused>>

\* The future is ready: get, destroy, and return what the answer means.
TakeAnswer(c, result) ==
  /\ pc[c] = "await"
  /\ value[c] # NoFrame
  /\ result = Interpret(c, value[c])
  /\ Finish(c)

\* Mutant: wait instead of wait_for.
TimeoutNever(c) ==
  /\ pc[c] = "await"
  /\ value[c] # NoFrame
  /\ UNCHANGED vars

\* wait_for returns without an answer ...
Timeout(c) ==
  /\ pc[c] = "await"
  /\ value[c] = NoFrame
  /\ pc' = [pc EXCEPT ![c] = "timedout"]
  /\ UNCHANGED <<busVars, op, promiseVars, wire, frame_queue, answered, reused>>

\* ... and the promise is destroyed, whether or not it has been set since; the call
\* returns TIMEOUT_ERROR.
DestroyAfterTimeout(c) ==
  /\ pc[c] = "timedout"
  /\ Finish(c)

Caller(c) ==
  \/ \E o \in Ops : CreatePromise(c, o)
  \/ Send(c) \/ SetComparatorSeqnum(c)
  \/ \E result \in {"value", "error", "malformed"} : TakeAnswer(c, result)
  \/ Timeout(c) \/ DestroyAfterTimeout(c)

-----------------------------------------------------------------------------
(* The update thread. *)

\* RawNode::on_frame_recv under the lock: FramePromise::on_frame of every registered
\* promise. A match sets the promise if the number is known, else stores the frame.
OnFrameRecv ==
  /\ frame_queue # <<>>
  /\ frame_queue' = Tail(frame_queue)
  /\ LET f    == Head(frame_queue)
         hit  == {c \in frame_promise_set : Matches(c, seqnum[c], f)}
         full == {c \in hit : seqnum[c] # NoSeq}
     IN /\ value' = [c \in Callers |-> IF c \in full THEN f ELSE value[c]]
        /\ sets' = [c \in Callers |-> IF c \in full THEN sets[c] + 1 ELSE sets[c]]
        /\ frame_promise_set' = frame_promise_set \ full
        /\ frame_storage' = [c \in Callers |-> IF c \in hit \ full
                                               THEN Append(frame_storage[c], f)
                                               ELSE frame_storage[c]]
        /\ answered' = answered \cup ({f.call} \cap Callers)
  /\ UNCHANGED <<busVars, pc, op, alive, seqnum, wire, reused>>

-----------------------------------------------------------------------------
(* The bus and the node. *)

Numbers(s) == {s[i].seq : i \in DOMAIN s}

\* The numbers of calls that wait for an answer and of frames that are around.
NumbersInUse ==
  {seqnum[c] : c \in {d \in Callers : pc[d] \in {"await", "timedout"}}}
    \cup {number[c] : c \in {d \in Callers : status[d] \in {"sent", "done"}}}
    \cup Numbers(wire) \cup Numbers(frame_queue)
    \cup UNION {Numbers(frame_storage[c]) : c \in Callers}

\* The bus transmits the oldest request: every request here takes a number.
BusTransmits ==
  /\ fifo # <<>>
  /\ Len(wire) < MaxFrames
  /\ Bus!Transmit(TRUE)
  /\ wire' = Append(wire, [call |-> Head(fifo), op |-> op[Head(fifo)], seq |-> next])
  /\ reused' = (reused \/ next \in NumbersInUse)
  /\ UNCHANGED <<pc, op, promiseVars, frame_queue, answered>>

BusAcknowledges(c) ==
  /\ Bus!Acknowledge(c)
  /\ UNCHANGED <<pc, op, promiseVars, wire, frame_queue, answered, reused>>

\* What the node may answer to request q.
Answers(q) ==
  {f \in Answer :
    /\ f.call = q.call
    /\ \/ f.type = "REG_VALUE" /\ f.reg = q.op /\ f.seq = q.seq
       \/ f.type = "COMMAND_ERROR" /\ f.seq = q.seq
       \/ f.type = "NODE_TURNED_ON" /\ q.op = Reset}

NodeAnswers ==
  /\ wire # <<>>
  /\ \A c \in Callers : Len(frame_queue) + Len(frame_storage[c]) < MaxFrames
  /\ \E f \in Answers(Head(wire)) : frame_queue' = Append(frame_queue, f)
  /\ wire' = Tail(wire)
  /\ UNCHANGED <<busVars, pc, op, promiseVars, answered, reused>>

\* The node is off or the request or its answer is lost.
NoAnswer ==
  /\ wire # <<>>
  /\ wire' = Tail(wire)
  /\ UNCHANGED <<busVars, pc, op, promiseVars, frame_queue, answered, reused>>

Environment ==
  \/ BusTransmits
  \/ \E c \in Callers : BusAcknowledges(c)
  \/ NodeAnswers \/ NoAnswer

Next ==
  \/ \E c \in Callers : Caller(c)
  \/ OnFrameRecv
  \/ Environment

Spec == Init /\ [][Next]_vars

\* The threads run; the bus transmits and acknowledges (the liveness of Bus); the node
\* handles or loses what it is sent. No answer is ever promised.
Fairness ==
  /\ \A c \in Callers : WF_vars(pc[c] # "idle" /\ Caller(c))
  /\ WF_vars(OnFrameRecv)
  /\ WF_vars(BusTransmits)
  /\ \A c \in Callers : WF_vars(BusAcknowledges(c))
  /\ WF_vars(NodeAnswers \/ NoAnswer)

FairSpec == Spec /\ Fairness

-----------------------------------------------------------------------------
(* Properties. *)

CallPCs == {"idle", "created", "sending", "await", "timedout"}

\* The variables have their types.
TypeOK ==
  /\ fifo \in Seq(Callers)
  /\ status \in [Callers -> {"idle", "queued", "sent", "done"}]
  /\ number \in [Callers -> Seqnums]
  /\ next \in Seqnums
  /\ pc \in [Callers -> CallPCs]
  /\ op \in [Callers -> Ops]
  /\ frame_promise_set \subseteq Callers
  /\ alive \subseteq Callers
  /\ seqnum \in [Callers -> Seqnums \cup {NoSeq}]
  /\ frame_storage \in [Callers -> Seq(Answer)]
  /\ value \in [Callers -> Answer \cup {NoFrame}]
  /\ sets \in [Callers -> Nat]
  /\ wire \in Seq(Request)
  /\ frame_queue \in Seq(Answer)
  /\ answered \subseteq Callers
  /\ reused \in BOOLEAN

\* The update thread, a call that times out and a call that replays its stored frames
\* never meet over one promise: a registered promise is allocated and not yet set, so
\* on_frame_recv neither uses a deleted promise nor sets one twice (which would throw).
PromiseSafe ==
  /\ frame_promise_set \subseteq alive
  /\ \A c \in frame_promise_set : sets[c] = 0
  /\ \A c \in Callers : sets[c] <= 1

\* A register call is given the answer to its own request, never a late answer to an
\* earlier one or the answer to another thread's request, as long as no number was
\* given out while a call or frame still used it.
AnswerIsForCall ==
  ~reused => \A c \in Callers :
    pc[c] \in {"await", "timedout"} /\ op[c] # Reset /\ value[c] # NoFrame => value[c].call = c

\* The answer to the request of c was shown to the promises, and c waits in vain.
Missed(c) == pc[c] = "await" /\ c \in answered /\ value[c] = NoFrame

\* An answer to a register call is never dropped while the call waits, even if it
\* arrived before send_frame returned and the number was known.
RegisterAnswerNotMissed == \A c \in Callers : op[c] # Reset => ~Missed(c)

\* The same for reset(), whose answer is NODE_TURNED_ON.
ResetAnswerNotMissed == \A c \in Callers : op[c] = Reset => ~Missed(c)

\* Every call returns, answered or not.
CallReturns == \A c \in Callers : pc[c] # "idle" ~> pc[c] = "idle"
=============================================================================

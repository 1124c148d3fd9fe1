----------------------------- MODULE SendService -----------------------------
(***************************************************************************)
(* What Bus::send_frame promises its callers, without threads, events or   *)
(* endpoints: calls are transmitted one at a time in the order in which    *)
(* they were accepted, each transmitted request that takes a number gets   *)
(* the successor of the last number given, and every call is acknowledged  *)
(* once, after its transmission and before it returns.                     *)
(***************************************************************************)
EXTENDS Naturals, Sequences

CONSTANTS Callers, SeqMax

VARIABLES
  fifo,    \* accepted calls, oldest first
  status,  \* of each caller's call
  number,  \* the number its frame carries; 0 when it was given none
  next     \* the number the next numbered frame gets

svars == <<fifo, status, number, next>>

Init ==
  /\ fifo = <<>>
  /\ status = [c \in Callers |-> "idle"]
  /\ number = [c \in Callers |-> 0]
  /\ next = 0

Accept(c) ==
  /\ status[c] = "idle"
  /\ status' = [status EXCEPT ![c] = "queued"]
  /\ fifo' = Append(fifo, c)
  /\ UNCHANGED <<number, next>>

\* Mutant: the numbers are not taken modulo SeqMax + 1.
TransmitUnbounded(numbered) ==
  /\ fifo # <<>>
  /\ status' = [status EXCEPT ![Head(fifo)] = "sent"]
  /\ fifo' = Tail(fifo)
  /\ IF numbered
     THEN /\ number' = [number EXCEPT ![Head(fifo)] = next]
          /\ next' = next + 1
     ELSE UNCHANGED <<number, next>>

Transmit(numbered) ==
  /\ fifo # <<>>
  /\ status' = [status EXCEPT ![Head(fifo)] = "sent"]
  /\ fifo' = Tail(fifo)
  /\ IF numbered
     THEN /\ number' = [number EXCEPT ![Head(fifo)] = next]
          /\ next' = (next + 1) % (SeqMax + 1)
     ELSE UNCHANGED <<number, next>>

Acknowledge(c) ==
  /\ status[c] = "sent"
  /\ status' = [status EXCEPT ![c] = "done"]
  /\ UNCHANGED <<fifo, number, next>>

Return(c) ==
  /\ status[c] = "done"
  /\ status' = [status EXCEPT ![c] = "idle"]
  /\ number' = [number EXCEPT ![c] = 0]
  /\ UNCHANGED <<fifo, next>>

Next ==
  \/ \E c \in Callers : Accept(c) \/ Acknowledge(c) \/ Return(c)
  \/ \E numbered \in BOOLEAN : Transmit(numbered)

Spec == Init /\ [][Next]_svars
=============================================================================

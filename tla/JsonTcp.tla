------------------------------- MODULE JsonTcp -------------------------------
(***************************************************************************)
(* A connection of a client program to h9d: TCPSocket (the length-prefixed *)
(* messages), JSONTCPSocket (their JSON) and H9Connector (numbers of       *)
(* requests), all in src/common/.                                          *)
(*                                                                         *)
(* What the daemon sends is a stream of bytes, a big-endian length of four *)
(* bytes before each message; recv takes from it as much as has arrived.   *)
(* The text of the k-th message is a few bytes no other message has: text  *)
(* that mixes messages is no JSON.  Requests are kept whole: send loops    *)
(* until all bytes are taken, and the daemon reads them with this class.   *)
(***************************************************************************)
EXTENDS Integers, Sequences, FiniteSetsExt

VARIABLES
  peer,           \* the daemon's end: "refusing", "listening", "open", "closed"
  up,             \* requests the daemon has not read
  stream,         \* bytes the client has not read
  sent,           \* messages the daemon has sent
  taken,          \* of these, the ones recv has returned (0: what was no JSON)
  recv_bytes, bytes_to_recv, header_buf, data_buf, \* TCPSocket
  msg,            \* what recv has returned and the program has not looked at
  next_msg_id     \* H9Connector

recvVars == <<stream, taken, recv_bytes, bytes_to_recv, header_buf, data_buf>>
tcpVars == <<peer, up, sent, msg, next_msg_id, recvVars>>

HEADER == 4  \* sizeof(header_buf)

\* Results of recv that are no message: not complete yet, closed, no JSON.
NoFrame == [type |-> "none", source_id |-> 0, destination_id |-> 0, data |-> <<>>]
Nothing(what) == [kind |-> what, id |-> 0, world |-> 0, frame |-> NoFrame]
EAGAIN == Nothing("EAGAIN")
Closed == Nothing("closed")
Invalid == Nothing("invalid")

Length(k) == 1 + (k % 2)
Text(k) == [i \in 1..Length(k) |-> 10 * k + i]

ntohl(h) == h[1] * 2^24 + h[2] * 2^16 + h[3] * 2^8 + h[4]
htonl(n) == <<0, 0, 0, n>>

TcpInit ==
  /\ peer \in {"refusing", "listening"}
  /\ up = <<>> /\ stream = <<>> /\ sent = <<>> /\ taken = <<>>
  /\ recv_bytes = 0 /\ bytes_to_recv = HEADER /\ header_buf = <<>> /\ data_buf = <<>>
  /\ msg = EAGAIN /\ next_msg_id = 1

\* TCPSocket::send of the daemon: the length, then the text.
Emit(m) ==
  LET k == Len(sent) + 1
  IN sent' = Append(sent, m) /\ stream' = stream \o htonl(Length(k)) \o Text(k)

\* H9Connector::send with the next number.  To a daemon that has closed it
\* fails, or succeeds and the request is lost.
get_next_id == next_msg_id + 1
Send(request) ==
  /\ next_msg_id' = get_next_id
  /\ up' = IF peer = "open" THEN Append(up, [request EXCEPT !.id = get_next_id]) ELSE up
SendFails == peer = "closed"

-----------------------------------------------------------------------------
(* One call of TCPSocket::recv by recv_complete_msg. *)

Drop(n) == SubSeq(stream, n + 1, Len(stream))

\* JSONTCPSocket::recv parses a complete text; 0 if it is no JSON.
Parsed(text) ==
  LET ks == {k \in 1..Len(sent) : Text(k) = text} IN IF ks = {} THEN 0 ELSE Max(ks)

\* Mutant: bytes_to_recv still holds the length of this message.
NextMessageKeepsLength(to_recv) == recv_bytes' = 0 /\ bytes_to_recv' = to_recv

NextMessage(to_recv) == recv_bytes' = 0 /\ bytes_to_recv' = HEADER

\* n bytes of data arrive, behind from bytes of a header h.
ReadData(h, to_recv, from, n) ==
  LET text == data_buf \o SubSeq(stream, from + 1, from + n)
  IN /\ stream' = Drop(from + n)
     /\ IF HEADER + Len(text) < to_recv
        THEN /\ header_buf' = h /\ data_buf' = text
             /\ recv_bytes' = HEADER + Len(text) /\ bytes_to_recv' = to_recv
             /\ UNCHANGED <<taken, msg>>
        ELSE /\ taken' = Append(taken, Parsed(text))
             /\ msg' = IF Parsed(text) = 0 THEN Invalid ELSE sent[Parsed(text)]
             /\ header_buf' = <<>> /\ data_buf' = <<>>
             /\ NextMessage(to_recv)

ReadClosed ==
  /\ stream = <<>> /\ peer = "closed"
  /\ msg' = Closed /\ UNCHANGED recvVars

\* The header, blocking; if it is complete also the data that is there.
ReadHeader(n) ==
  LET h == header_buf \o SubSeq(stream, 1, n)
  IN IF Len(h) < HEADER
     THEN /\ header_buf' = h /\ recv_bytes' = recv_bytes + n /\ stream' = Drop(n)
          /\ UNCHANGED <<taken, bytes_to_recv, data_buf, msg>>
     ELSE LET to_recv == bytes_to_recv + ntohl(h)
          IN \E d \in 0..Min({to_recv - HEADER, Len(stream) - n}) : ReadData(h, to_recv, n, d)

recv ==
  /\ msg = EAGAIN
  /\ \/ ReadClosed
     \/ recv_bytes < HEADER
        /\ \E n \in 1..Min({HEADER - recv_bytes, Len(stream)}) : ReadHeader(n)
     \/ recv_bytes >= HEADER
        /\ \E n \in 1..Min({bytes_to_recv - recv_bytes, Len(stream)}) :
             ReadData(header_buf, bytes_to_recv, 0, n)
  /\ UNCHANGED <<peer, up, sent, next_msg_id>>
=============================================================================

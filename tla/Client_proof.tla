---------------------------- MODULE Client_proof ----------------------------
(***************************************************************************)
(* Proofs about Client, for any command lines and configurations, lines    *)
(* typed, states of the daemon, frames of other nodes and bounds: the      *)
(* messages that recv returns and the answers that calls take; what the    *)
(* cache of h9cli resolves; and what h9fwupload leaves in the flash.       *)
(***************************************************************************)
EXTENDS Client, SequenceTheorems, FiniteSetTheorems, WellFoundedInduction, TLAPS

\* A sequence, whatever its elements.
IsSeq(s) == Len(s) \in Nat /\ s = [i \in 1..Len(s) |-> s[i]]

-----------------------------------------------------------------------------
(* The stream: message k takes HEADER + Length(k) bytes, of which Byte gives *)
(* the i-th; Offset(k) bytes are those of the first k messages.  What has    *)
(* been read of the next message is in the two buffers, the rest in stream.  *)

Byte(k, i) == IF i < HEADER THEN 0 ELSE IF i = HEADER THEN Length(k) ELSE 10 * k + (i - HEADER)
Offset(k) == 5 * k + (k + 1) \div 2
Read == Offset(Len(taken)) + recv_bytes

TcpTypes ==
  /\ IsSeq(sent) /\ IsSeq(taken) /\ IsSeq(stream) /\ IsSeq(header_buf) /\ IsSeq(data_buf)
  /\ Len(taken) <= Len(sent)
  /\ \A i \in 1..Len(taken) : taken[i] = i

StreamInv ==
  /\ Len(stream) = Offset(Len(sent)) - Read
  /\ \A k \in 1..Len(sent) : \A i \in 1..HEADER + Length(k) :
       Offset(k - 1) + i > Read => stream[Offset(k - 1) + i - Read] = Byte(k, i)

BufferInv ==
  /\ recv_bytes \in Nat
  /\ recv_bytes < HEADER => /\ bytes_to_recv = HEADER
                            /\ Len(header_buf) = recv_bytes /\ Len(data_buf) = 0
  /\ recv_bytes >= HEADER => /\ bytes_to_recv = HEADER + Length(Len(taken) + 1)
                             /\ Len(header_buf) = HEADER /\ Len(data_buf) = recv_bytes - HEADER
                             /\ recv_bytes < bytes_to_recv
  /\ \A i \in 1..Len(header_buf) : header_buf[i] = Byte(Len(taken) + 1, i)
  /\ \A i \in 1..Len(data_buf) : data_buf[i] = Byte(Len(taken) + 1, HEADER + i)

TcpInv == TcpTypes /\ StreamInv /\ BufferInv

-----------------------------------------------------------------------------
(* The request whose answer is awaited is with the daemon, or its answer is  *)
(* the one message not taken, or the message just returned, or it is lost;   *)
(* and where no answer is awaited before the frames come, nothing is under   *)
(* way.                                                                      *)

AllTaken == Len(sent) = Len(taken)
Asks(r) ==
  /\ r.id = waiting.id /\ r.method # "subscribe"
  /\ waiting.what = "registers" => r.method = "get_registers_list" /\ r.node = line.node.num
Answers(m) ==
  /\ m.kind \in {"response", "error"} /\ m.id = waiting.id /\ m.world \in 1..Len(Worlds)
  /\ waiting.what = "registers" /\ m.kind = "response"
       => line.node.num \in DOMAIN Worlds[m.world].regs

Pending ==
  \/ /\ Len(up) = 1 /\ up = <<up[1]>> /\ Asks(up[1]) /\ AllTaken
     /\ msg = EAGAIN \/ (msg = Closed /\ peer = "closed")
  \/ /\ up = <<>> /\ Len(sent) = Len(taken) + 1 /\ Answers(sent[Len(sent)]) /\ msg = EAGAIN
  \/ /\ up = <<>> /\ AllTaken /\ (msg \in {EAGAIN, Closed} \/ Answers(msg))

Quiet == up = <<>> /\ AllTaken /\ msg = EAGAIN

Asking == \/ pc \in {"parse_command_line_arg", "load_configuration", "read_ihex", "open",
                     "authenticated", "parse"}
          \/ pc = "run" /\ Prog \in {"h9cli", "h9stats"}

CallInv ==
  /\ pc = "parse" => Prog = "h9cli"
  /\ pc = "recv" => waiting.id # 0 /\ ~subscribed /\ Pending
  /\ pc = "recv" /\ waiting.what \in DOMAIN MethodOf => Prog = "h9cli"
  /\ pc # "recv" => waiting = NotWaiting
  /\ Asking => ~subscribed /\ Quiet
  /\ start \in Starts /\ next_msg_id \in Nat /\ world \in 1..Len(Worlds)
  /\ IsLine(line) /\ line.cmd # "subscribe"

-----------------------------------------------------------------------------
(* Sequences, whatever their elements.                                       *)

LEMMA SeqOfAny == ASSUME NEW s, IsSeq(s) PROVE \E S : s \in Seq(S)
<1> DEFINE S == {s[i] : i \in 1..Len(s)}
<1>1. s \in [1..Len(s) -> S] BY DEF IsSeq
<1> QED BY <1>1, SeqDef DEF IsSeq

LEMMA AnyOfSeq == ASSUME NEW S, NEW s \in Seq(S) PROVE IsSeq(s)
  BY LenProperties DEF IsSeq

LEMMA EmptyAny == IsSeq(<<>>) /\ Len(<<>>) = 0
  BY DEF IsSeq

\* A message more.
LEMMA AppendAny ==
  ASSUME NEW s, IsSeq(s), NEW x
  PROVE  /\ IsSeq(Append(s, x)) /\ Len(Append(s, x)) = Len(s) + 1
         /\ Append(s, x)[Len(s) + 1] = x
         /\ \A i \in 1..Len(s) : Append(s, x)[i] = s[i]
<1>1. PICK S : s \in Seq(S) BY SeqOfAny
<1>2. s \in Seq(S \cup {x}) /\ x \in S \cup {x} BY <1>1
<1>3. Append(s, x) \in Seq(S \cup {x}) BY <1>2
<1>4. IsSeq(Append(s, x)) BY <1>3, AnyOfSeq
<1>5. /\ Len(Append(s, x)) = Len(s) + 1 /\ Append(s, x)[Len(s) + 1] = x
      /\ \A i \in 1..Len(s) : Append(s, x)[i] = s[i]
  BY <1>2, AppendProperties
<1> QED BY <1>4, <1>5

\* u is s with t behind it.
Joined(s, t, u) ==
  /\ IsSeq(u) /\ Len(u) = Len(s) + Len(t)
  /\ \A i \in 1..Len(s) : u[i] = s[i]
  /\ \A i \in 1..Len(t) : u[Len(s) + i] = t[i]

LEMMA ConcatAny == ASSUME NEW s, NEW t, IsSeq(s), IsSeq(t) PROVE Joined(s, t, s \o t)
<1>1. PICK S : s \in Seq(S) BY SeqOfAny
<1>2. PICK T : t \in Seq(T) BY SeqOfAny
<1>3. s \in Seq(S \cup T) /\ t \in Seq(S \cup T) BY <1>1, <1>2
<1>4. s \o t \in Seq(S \cup T) BY <1>3
<1>5. IsSeq(s \o t) BY <1>4, AnyOfSeq
<1>6. Len(s \o t) = Len(s) + Len(t) BY <1>3, ConcatProperties
<1>7. \A i \in 1..Len(s) + Len(t) : (s \o t)[i] = IF i <= Len(s) THEN s[i] ELSE t[i - Len(s)]
  BY <1>3, ConcatProperties
<1>8. Len(s) \in Nat /\ Len(t) \in Nat BY DEF IsSeq
<1>9. \A i \in 1..Len(t) : (s \o t)[Len(s) + i] = t[i]
  <2> TAKE i \in 1..Len(t)
  <2>1. Len(s) + i \in 1..Len(s) + Len(t) /\ ~(Len(s) + i <= Len(s)) /\ Len(s) + i - Len(s) = i
    BY <1>8
  <2> QED BY <2>1, <1>7
<1>10. \A i \in 1..Len(s) : (s \o t)[i] = s[i]
  BY <1>7, <1>8
<1> QED BY <1>5, <1>6, <1>9, <1>10 DEF Joined

\* A piece of the stream.
LEMMA SubSeqAny ==
  ASSUME NEW s, IsSeq(s), NEW m \in Nat, NEW n \in Nat, m <= n, n <= Len(s)
  PROVE  /\ IsSeq(SubSeq(s, m + 1, n)) /\ Len(SubSeq(s, m + 1, n)) = n - m
         /\ \A i \in 1..n - m : SubSeq(s, m + 1, n)[i] = s[m + i]
<1> DEFINE t == SubSeq(s, m + 1, n)
<1>1. PICK S : s \in Seq(S) BY SeqOfAny
<1>2. \A i \in (m + 1)..n : s[i] \in S BY <1>1
<1>3. t \in Seq(S) /\ Len(t) = IF m + 1 <= n THEN n - (m + 1) + 1 ELSE 0
  BY <1>1, <1>2, SubSeqProperties
<1>4. Len(t) = n - m BY <1>3
<1>5. \A i \in 1..n - m : t[i] = s[m + i]
  <2> TAKE i \in 1..n - m
  <2>1. t[i] = s[m + 1 + i - 1] BY <1>1, <1>2, <1>4, SubSeqProperties
  <2> QED BY <2>1
<1> HIDE DEF t
<1>6. IsSeq(t) BY <1>3, AnyOfSeq
<1> QED BY <1>4, <1>5, <1>6 DEF t

-----------------------------------------------------------------------------
(* Where messages are in the stream.                                         *)

LEMMA OffsetNext ==
  ASSUME NEW k \in Nat
  PROVE  /\ Length(k + 1) \in 1..2 /\ Offset(k) \in Nat
         /\ Offset(k + 1) = Offset(k) + HEADER + Length(k + 1)
  BY DEF Length, Offset, HEADER

LEMMA OffsetGrows == ASSUME NEW j \in Nat, NEW k \in Nat, j <= k PROVE Offset(j) <= Offset(k)
  BY DEF Offset

\* The text of a message is that of no other.
LEMMA TextParsed ==
  ASSUME NEW k \in 1..Len(sent), Len(sent) \in Nat
  PROVE  Parsed(Text(k)) = k
<1> DEFINE ks == {j \in 1..Len(sent) : Text(j) = Text(k)}
<1>1. \A j \in 1..Len(sent) : 1 \in 1..Length(j) BY DEF Length
<1>2. \A j \in 1..Len(sent) : Text(j)[1] = 10 * j + 1 BY <1>1 DEF Text
<1>3. ks = {k} BY <1>2
<1>4. Max({k}) = k BY DEF Max
<1> QED BY <1>3, <1>4 DEF Parsed

\* Bytes that are those of a message make up its text.
LEMMA TextComplete ==
  ASSUME NEW k \in Nat \ {0}, NEW s, IsSeq(s), Len(s) = Length(k),
         \A i \in 1..Len(s) : s[i] = Byte(k, HEADER + i)
  PROVE  s = Text(k)
<1>1. \A i \in 1..Len(s) : HEADER + i > HEADER /\ HEADER + i - HEADER = i BY DEF HEADER, IsSeq
<1>2. \A i \in 1..Len(s) : Byte(k, HEADER + i) = 10 * k + i BY <1>1 DEF Byte, HEADER
<1>3. \A i \in 1..Len(s) : s[i] = 10 * k + i BY <1>2
<1>4. s = [i \in 1..Length(k) |-> 10 * k + i] BY <1>3 DEF IsSeq
<1> QED BY <1>4 DEF Text

\* A header says how long the message is.
LEMMA HeaderRead ==
  ASSUME NEW k \in Nat \ {0}, NEW h, IsSeq(h), Len(h) = HEADER,
         \A i \in 1..HEADER : h[i] = Byte(k, i)
  PROVE  ntohl(h) = Length(k)
<1>1. h[1] = 0 /\ h[2] = 0 /\ h[3] = 0 /\ h[4] = Length(k) BY DEF Byte, HEADER
<1>2. Length(k) \in Nat BY DEF Length
<1> QED BY <1>1, <1>2 DEF ntohl

\* What the daemon sends comes behind what it sent.
LEMMA EmitKeeps ==
  ASSUME TcpInv, NEW m, Emit(m), UNCHANGED <<taken, recv_bytes, bytes_to_recv, header_buf, data_buf>>
  PROVE  /\ TcpInv' /\ Len(sent') = Len(sent) + 1 /\ sent'[Len(sent')] = m
         /\ \A i \in 1..Len(sent) : sent'[i] = sent[i]
<1> DEFINE n == Len(sent) + 1
<1> USE DEF TcpInv, TcpTypes
<1>1. Len(sent) \in Nat /\ Len(taken) \in Nat /\ Len(stream) \in Nat BY DEF IsSeq
<1>2. n \in Nat /\ Length(n) \in 1..2 /\ Offset(n) = Offset(Len(sent)) + HEADER + Length(n)
  BY <1>1, OffsetNext
<1>3. IsSeq(htonl(Length(n))) /\ Len(htonl(Length(n))) = 4 BY DEF htonl, IsSeq
<1>4. IsSeq(Text(n)) /\ Len(Text(n)) = Length(n)
  <2>1. Text(n) \in Seq(Nat)
    <3>1. Text(n) \in [1..Length(n) -> Nat] BY <1>2 DEF Text
    <3> QED BY <3>1, <1>2, SeqDef
  <2>2. DOMAIN Text(n) = 1..Length(n) BY DEF Text
  <2>3. Len(Text(n)) = Length(n) BY <2>1, <2>2, <1>2, LenProperties
  <2> QED BY <2>1, <2>3, AnyOfSeq
<1>5. PICK before : before = stream \o htonl(Length(n)) OBVIOUS
<1>6. Joined(stream, htonl(Length(n)), before)
  <2>1. IsSeq(stream) OBVIOUS
  <2> QED BY <2>1, <1>3, <1>5, ConcatAny
<1>7. sent' = Append(sent, m) /\ Joined(before, Text(n), stream')
  <2>1. IsSeq(before) BY <1>6 DEF Joined
  <2>2. stream' = before \o Text(n) BY <1>5 DEF Emit
  <2>3. Joined(before, Text(n), before \o Text(n)) BY <2>1, <1>4, ConcatAny
  <2> QED BY <2>2, <2>3 DEF Emit
<1>8. /\ IsSeq(sent') /\ Len(sent') = n /\ sent'[n] = m
      /\ \A i \in 1..Len(sent) : sent'[i] = sent[i]
  BY <1>7, AppendAny
<1>9. /\ IsSeq(stream') /\ Len(stream') = Len(stream) + HEADER + Length(n)
      /\ \A i \in 1..Len(stream) : stream'[i] = stream[i]
      /\ \A i \in 1..HEADER + Length(n) : stream'[Len(stream) + i] = Byte(n, i)
  <2>1. Len(before) = Len(stream) + 4 /\ Len(stream') = Len(before) + Length(n)
    BY <1>3, <1>4, <1>6, <1>7 DEF Joined
  <2>2. ASSUME NEW i \in 1..Len(stream) PROVE stream'[i] = stream[i]
    <3>1. before[i] = stream[i] BY <1>6 DEF Joined
    <3>2. i \in 1..Len(before) BY <2>1, <1>1
    <3> QED BY <3>1, <3>2, <1>7 DEF Joined
  <2>3. ASSUME NEW i \in 1..HEADER + Length(n) PROVE stream'[Len(stream) + i] = Byte(n, i)
    <3>1. CASE i \in 1..4
      <4>1. before[Len(stream) + i] = htonl(Length(n))[i] BY <3>1, <1>3, <1>6 DEF Joined
      <4>2. htonl(Length(n))[i] = IF i < 4 THEN 0 ELSE Length(n) BY <3>1 DEF htonl
      <4>3. Len(stream) + i \in 1..Len(before) BY <3>1, <2>1, <1>1
      <4>4. stream'[Len(stream) + i] = before[Len(stream) + i] BY <4>3, <1>7 DEF Joined
      <4> QED BY <3>1, <4>1, <4>2, <4>4 DEF Byte, HEADER
    <3>2. CASE i > 4
      <4>1. i - 4 \in 1..Len(Text(n)) /\ Len(before) + (i - 4) = Len(stream) + i
        BY <3>2, <1>4, <1>2, <1>1, <2>1 DEF HEADER
      <4>2. stream'[Len(before) + (i - 4)] = Text(n)[i - 4] BY <4>1, <1>7 DEF Joined
      <4>3. Text(n)[i - 4] = 10 * n + (i - 4) BY <4>1, <1>4 DEF Text
      <4>4. i \in Nat BY <1>2 DEF HEADER
      <4> HIDE DEF n
      <4>5. Byte(n, i) = 10 * n + (i - 4) BY <4>4, <3>2 DEF Byte, HEADER
      <4> QED BY <4>1, <4>2, <4>3, <4>5
    <3>3. i \in 1..4 \/ i > 4 BY <1>2 DEF HEADER
    <3> QED BY <3>1, <3>2, <3>3
  <2>4. IsSeq(stream') BY <1>7 DEF Joined
  <2>5. Len(stream') = Len(stream) + HEADER + Length(n) BY <2>1, <1>1, <1>2 DEF HEADER
  <2> QED BY <2>2, <2>3, <2>4, <2>5
<1> HIDE DEF n
<1>10. TcpTypes' BY <1>1, <1>8, <1>9, <1>2 DEF n
<1>11. Read' = Read /\ Read \in Nat
  <2>1. Offset(Len(taken)) \in Nat BY <1>1, OffsetNext
  <2>2. recv_bytes \in Nat BY DEF BufferInv
  <2>3. Read' = Read BY DEF Read
  <2> QED BY <2>1, <2>2, <2>3 DEF Read
<1>12. StreamInv'
  <2>1. Len(stream') = Offset(n) - Read
    <3>1. Offset(Len(sent)) \in Nat BY <1>1, OffsetNext
    <3>2. Len(stream) = Offset(Len(sent)) - Read BY DEF StreamInv
    <3>3. HEADER = 4 /\ Len(stream') = Len(stream) + 4 + Length(n) BY <1>9 DEF HEADER
    <3>4. Offset(n) = Offset(Len(sent)) + 4 + Length(n) /\ Length(n) \in Nat BY <1>2 DEF HEADER
    <3> QED BY <3>1, <3>2, <3>3, <3>4, <1>11
  <2>2. ASSUME NEW k \in 1..n, NEW i \in 1..HEADER + Length(k), Offset(k - 1) + i > Read
        PROVE  stream'[Offset(k - 1) + i - Read] = Byte(k, i)
    <3>1. k - 1 \in Nat /\ k - 1 + 1 = k BY <1>1 DEF n
    <3>2. Offset(k - 1) \in Nat /\ Offset(k) = Offset(k - 1) + HEADER + Length(k)
      BY <3>1, OffsetNext
    <3>3. CASE k <= Len(sent)
      <4>1. stream[Offset(k - 1) + i - Read] = Byte(k, i) BY <3>3, <2>2 DEF StreamInv
      <4>2. Offset(k) <= Offset(Len(sent)) BY <3>3, <1>1, OffsetGrows
      <4>3. Offset(k - 1) + i - Read \in 1..Len(stream)
        <5>1. Length(k) \in Nat BY DEF Length
        <5>2. Offset(Len(sent)) \in Nat BY <1>1, OffsetNext
        <5>3. i \in Nat /\ i <= HEADER + Length(k) BY <5>1 DEF HEADER
        <5>4. Len(stream) = Offset(Len(sent)) - Read BY DEF StreamInv
        <5>5. Offset(k - 1) + i <= Offset(Len(sent)) BY <5>1, <5>2, <5>3, <4>2, <3>2 DEF HEADER
        <5> QED BY <5>2, <5>3, <5>4, <5>5, <3>2, <2>2, <1>11
      <4> QED BY <4>1, <4>3, <1>9
    <3>4. CASE k = n
      <4>1. Offset(k - 1) = Offset(Len(sent)) BY <3>4, <1>1 DEF n
      <4>2. Offset(k - 1) + i - Read = Len(stream) + i
        BY <4>1, <1>11, <3>2, <1>2 DEF StreamInv, HEADER
      <4> QED BY <4>2, <1>9, <3>4
    <3> QED BY <3>3, <3>4, <1>1 DEF n
  <2> QED BY <2>1, <2>2, <1>8, <1>11 DEF StreamInv
<1>13. BufferInv' BY DEF BufferInv, Byte
<1>14. TcpInv' BY <1>10, <1>12, <1>13 DEF TcpInv
<1> QED BY <1>8, <1>14 DEF n

-----------------------------------------------------------------------------
(* recv.                                                                     *)

\* What has arrived and what is missing.
LEMMA ReadBounds ==
  ASSUME TcpInv
  PROVE  /\ Len(taken) \in Nat /\ Len(sent) \in Nat /\ Len(stream) \in Nat
         /\ recv_bytes \in Nat /\ Offset(Len(taken)) \in Nat
         /\ AllTaken => recv_bytes = 0 /\ stream = <<>>
         /\ ~AllTaken => /\ Len(taken) + 1 \in 1..Len(sent)
                         /\ Len(stream) >= HEADER + Length(Len(taken) + 1) - recv_bytes
                         /\ stream # <<>>
<1> USE DEF TcpInv, TcpTypes
<1>1. Len(taken) \in Nat /\ Len(sent) \in Nat /\ Len(stream) \in Nat BY DEF IsSeq
<1>2. recv_bytes \in Nat BY DEF BufferInv
<1>3. Offset(Len(taken)) \in Nat /\ Offset(Len(sent)) \in Nat BY <1>1, OffsetNext
<1>4. Len(stream) = Offset(Len(sent)) - (Offset(Len(taken)) + recv_bytes) BY DEF StreamInv, Read
<1>5. ASSUME AllTaken PROVE recv_bytes = 0 /\ stream = <<>>
  <2>1. recv_bytes = 0 /\ Len(stream) = 0 BY <1>5, <1>1, <1>2, <1>3, <1>4 DEF AllTaken
  <2>2. PICK S : stream \in Seq(S) BY SeqOfAny
  <2> QED BY <2>1, <2>2, EmptySeq
<1>6. ASSUME ~AllTaken
      PROVE  /\ Len(taken) + 1 \in 1..Len(sent)
             /\ Len(stream) >= HEADER + Length(Len(taken) + 1) - recv_bytes
             /\ stream # <<>>
  <2>1. Len(taken) + 1 \in 1..Len(sent) BY <1>6, <1>1 DEF AllTaken
  <2>2. /\ Offset(Len(taken) + 1) = Offset(Len(taken)) + HEADER + Length(Len(taken) + 1)
        /\ Length(Len(taken) + 1) \in 1..2
    BY <1>1, OffsetNext
  <2>3. Offset(Len(taken) + 1) <= Offset(Len(sent)) BY <2>1, <1>1, OffsetGrows
  <2>4. Len(stream) >= HEADER + Length(Len(taken) + 1) - recv_bytes
    BY <2>2, <2>3, <1>1, <1>2, <1>3, <1>4 DEF HEADER
  <2>5. recv_bytes < HEADER + Length(Len(taken) + 1) BY <2>2, <1>2 DEF BufferInv, HEADER
  <2>6. Len(stream) > 0 BY <2>2, <2>4, <2>5, <1>1, <1>2 DEF HEADER
  <2> QED BY <2>1, <2>4, <2>6, EmptyAny
<1> QED BY <1>1, <1>2, <1>3, <1>5, <1>6

\* The next bytes of the stream are those missing of the message.
LEMMA NextBytes ==
  ASSUME TcpInv, ~AllTaken, NEW i \in 1..Len(stream),
         recv_bytes + i <= HEADER + Length(Len(taken) + 1)
  PROVE  stream[i] = Byte(Len(taken) + 1, recv_bytes + i)
<1> DEFINE k == Len(taken) + 1
<1>1. /\ Len(taken) \in Nat /\ recv_bytes \in Nat /\ Offset(Len(taken)) \in Nat
      /\ k \in 1..Len(sent)
  BY ReadBounds
<1>2. Length(k) \in Nat /\ i \in Nat /\ i > 0 BY ReadBounds DEF Length
<1>3. recv_bytes + i \in 1..HEADER + Length(k) BY <1>1, <1>2 DEF HEADER
<1>4. k - 1 = Len(taken) BY <1>1
<1>5. Offset(k - 1) + (recv_bytes + i) > Read /\ Offset(k - 1) + (recv_bytes + i) - Read = i
  BY <1>1, <1>2, <1>4 DEF Read
<1> HIDE DEF k
<1> QED BY <1>1, <1>3, <1>5 DEF TcpInv, StreamInv, k

\* What is left of the stream when n bytes of this message have been read.
LEMMA Dropped ==
  ASSUME TcpInv, NEW n \in 0..Len(stream), stream' = Drop(n), Read' = Read + n, sent' = sent
  PROVE  IsSeq(stream') /\ StreamInv'
<1>1. /\ Len(stream) \in Nat /\ IsSeq(stream) /\ Len(sent) \in Nat /\ Read \in Nat
  BY ReadBounds DEF TcpInv, TcpTypes, Read
<1>2. /\ IsSeq(stream') /\ Len(stream') = Len(stream) - n
      /\ \A i \in 1..Len(stream) - n : stream'[i] = stream[n + i]
  BY <1>1, SubSeqAny DEF Drop
<1>3. Len(stream') = Offset(Len(sent)) - Read'
  <2>1. Offset(Len(sent)) \in Nat BY <1>1, OffsetNext
  <2> QED BY <2>1, <1>1, <1>2 DEF TcpInv, StreamInv
<1>4. ASSUME NEW k \in 1..Len(sent), NEW i \in 1..HEADER + Length(k), Offset(k - 1) + i > Read'
      PROVE  stream'[Offset(k - 1) + i - Read'] = Byte(k, i)
  <2>1. k - 1 \in Nat /\ k - 1 + 1 = k /\ k \in Nat BY <1>1
  <2>0. Offset(k - 1) \in Nat /\ Offset(k) = Offset(k - 1) + HEADER + Length(k)
    BY <2>1, OffsetNext
  <2>2. Length(k) \in Nat /\ HEADER = 4 BY <2>1 DEF Length, HEADER
  <2>3. Offset(k) <= Offset(Len(sent)) /\ Offset(Len(sent)) \in Nat
    BY <2>1, <1>1, OffsetGrows, OffsetNext
  <2>4. i \in Nat /\ i <= HEADER + Length(k) BY <2>2
  <2>5. Offset(k - 1) + i <= Offset(Len(sent)) BY <2>0, <2>2, <2>3, <2>4
  <2> DEFINE p == Offset(k - 1) + i - Read'
  <2>6. p \in 1..Len(stream) - n /\ n + p = Offset(k - 1) + i - Read
    <3>1. p >= 1 /\ n + p = Offset(k - 1) + i - Read BY <2>0, <2>4, <1>1, <1>4
    <3>2. p <= Len(stream') BY <2>0, <2>3, <2>4, <2>5, <1>1, <1>3
    <3> QED BY <3>1, <3>2, <2>0, <2>4, <1>1, <1>2
  <2>7. stream[Offset(k - 1) + i - Read] = Byte(k, i)
    <3>1. Offset(k - 1) + i > Read BY <1>1, <1>4, <2>0, <2>4
    <3> QED BY <3>1 DEF TcpInv, StreamInv
  <2> HIDE DEF p
  <2>8. stream'[p] = stream[n + p] BY <2>6, <1>2
  <2> QED BY <2>6, <2>7, <2>8 DEF p
<1> QED BY <1>2, <1>3, <1>4 DEF StreamInv

\* What one call of recv does to a program: nothing it could see, the end of
\* the connection, or the next message.
Partly == UNCHANGED <<taken, msg>>
Ends == stream = <<>> /\ peer = "closed" /\ msg' = Closed /\ taken' = taken
Returns ==
  /\ ~AllTaken /\ taken' = Append(taken, Len(taken) + 1) /\ msg' = sent[Len(taken) + 1]

\* Bytes of data: h is the header, from its bytes just read.
LEMMA DataRead ==
  ASSUME TcpInv, ~AllTaken, NEW h, NEW from \in 0..HEADER, NEW n \in Nat,
         IsSeq(h), Len(h) = HEADER, from + n <= Len(stream),
         \A i \in 1..HEADER : h[i] = Byte(Len(taken) + 1, i),
         recv_bytes + from = HEADER + Len(data_buf),
         Len(data_buf) + n <= Length(Len(taken) + 1),
         ReadData(h, HEADER + Length(Len(taken) + 1), from, n), UNCHANGED <<sent, up>>
  PROVE  TcpInv' /\ (Partly \/ Returns)
<1> DEFINE k == Len(taken) + 1
           some == SubSeq(stream, from + 1, from + n)
           text == data_buf \o some
<1>0. HEADER = 4 BY DEF HEADER
<1>1. /\ Len(taken) \in Nat /\ Len(stream) \in Nat /\ recv_bytes \in Nat
      /\ Offset(Len(taken)) \in Nat /\ Len(sent) \in Nat /\ k \in 1..Len(sent)
  BY ReadBounds
<1>2. IsSeq(stream) /\ IsSeq(data_buf) /\ IsSeq(taken) /\ IsSeq(sent) BY DEF TcpInv, TcpTypes
<1>3. Length(k) \in 1..2 /\ Offset(k) = Offset(Len(taken)) + HEADER + Length(k)
  BY <1>1, OffsetNext
<1>4. /\ IsSeq(some) /\ Len(some) = n /\ \A i \in 1..n : some[i] = stream[from + i]
  <2>1. from \in Nat /\ from + n \in Nat /\ from <= from + n /\ from + n - from = n
    BY <1>0
  <2> QED BY <2>1, <1>2, SubSeqAny
<1> HIDE DEF some
<1>5. Joined(data_buf, some, text) BY <1>2, <1>4, ConcatAny
<1> HIDE DEF text
<1>6. Len(data_buf) \in Nat BY <1>2 DEF IsSeq
<1>7. IsSeq(text) /\ Len(text) = Len(data_buf) + n BY <1>4, <1>5 DEF Joined
<1>12. from \in Nat /\ n \in Nat /\ recv_bytes = 4 + Len(data_buf) - from
  <2>1. from \in Nat BY <1>0
  <2>2. recv_bytes + from = 4 + Len(data_buf) BY <1>0
  <2> QED BY <2>1, <2>2, <1>1, <1>6
<1>8. \A i \in 1..Len(text) : text[i] = Byte(k, HEADER + i)
  <2> TAKE i \in 1..Len(text)
  <2>1. CASE i \in 1..Len(data_buf)
    <3>1. data_buf[i] = Byte(k, HEADER + i) BY <2>1 DEF TcpInv, BufferInv
    <3> QED BY <3>1, <2>1, <1>5 DEF Joined
  <2>2. CASE i > Len(data_buf)
    <3>1. i - Len(data_buf) \in 1..n /\ Len(data_buf) + (i - Len(data_buf)) = i
      BY <2>2, <1>6, <1>7
    <3> DEFINE d == i - Len(data_buf)
    <3>2. text[i] = some[d] BY <3>1, <1>4, <1>5 DEF Joined
    <3>3. some[d] = stream[from + d] BY <3>1, <1>4
    <3>4. from + d \in 1..Len(stream) /\ recv_bytes + (from + d) = HEADER + i
      <4>1. from \in Nat /\ d \in 1..n /\ i = Len(data_buf) + d /\ i \in Nat BY <3>1, <1>0, <1>6, <1>7
      <4> HIDE DEF d
      <4>2. from + d \in 1..Len(stream) BY <4>1, <1>1
      <4>3. recv_bytes + (from + d) = HEADER + i BY <4>1, <1>0, <1>12, <1>6
      <4> QED BY <4>2, <4>3
    <3>5. HEADER + i <= HEADER + Length(k) BY <1>0, <1>3, <1>6, <1>7
    <3> HIDE DEF d, k
    <3>6. stream[from + d] = Byte(k, recv_bytes + (from + d))
      BY <3>4, <3>5, NextBytes DEF k
    <3> QED BY <3>2, <3>3, <3>4, <3>6
  <2> QED BY <2>1, <2>2, <1>6, <1>7
<1>9. stream' = Drop(from + n) /\ from + n \in 0..Len(stream) BY <1>0, <1>1 DEF ReadData
<1> HIDE DEF k
<1>10. CASE HEADER + Len(text) < HEADER + Length(k)
  <2>1. /\ header_buf' = h /\ data_buf' = text /\ recv_bytes' = HEADER + Len(text)
        /\ bytes_to_recv' = HEADER + Length(k) /\ UNCHANGED <<taken, msg>>
    BY <1>10 DEF ReadData, text, some, k
  <2>2. Read' = Read + (from + n)
    <3>1. Read' = Offset(Len(taken)) + (HEADER + Len(text)) BY <2>1 DEF Read
    <3>2. Read = Offset(Len(taken)) + recv_bytes BY DEF Read
    <3>3. HEADER + Len(text) = recv_bytes + (from + n) BY <1>0, <1>1, <1>6, <1>7, <1>12
    <3>4. Offset(Len(taken)) + (recv_bytes + (from + n)) = Offset(Len(taken)) + recv_bytes + (from + n)
      BY <1>1, <1>12
    <3> QED BY <3>1, <3>2, <3>3, <3>4
  <2>3. IsSeq(stream') /\ StreamInv' BY <2>2, <1>9, Dropped
  <2>4. TcpTypes' BY <2>1, <2>3, <1>7 DEF TcpInv, TcpTypes
  <2>5. k' = k BY <2>1 DEF k
  <2>6. BufferInv'
    <3>1. recv_bytes' \in Nat /\ recv_bytes' >= HEADER /\ recv_bytes' - HEADER = Len(text)
      BY <2>1, <1>0, <1>6, <1>7
    <3>2. recv_bytes' < bytes_to_recv' BY <2>1, <1>10
    <3>3. \A i \in 1..Len(header_buf') : header_buf'[i] = Byte(k', i) BY <2>1, <2>5 DEF k
    <3>4. \A i \in 1..Len(data_buf') : data_buf'[i] = Byte(k', HEADER + i) BY <2>1, <2>5, <1>8
    <3>5. bytes_to_recv' = HEADER + Length(k') /\ Len(header_buf') = HEADER
      BY <2>1, <2>5
    <3>6. ~(recv_bytes' < HEADER) BY <3>1, <1>0
    <3>7. Len(data_buf') = recv_bytes' - HEADER BY <3>1, <2>1
    <3> QED BY <3>1, <3>2, <3>3, <3>4, <3>5, <3>6, <3>7 DEF BufferInv, k
  <2> QED BY <2>1, <2>3, <2>4, <2>6 DEF TcpInv, Partly
<1>11. CASE ~(HEADER + Len(text) < HEADER + Length(k))
  <2>1. Len(text) = Length(k) BY <1>11, <1>0, <1>3, <1>6, <1>7 DEF k
  <2>2. k \in Nat \ {0} BY <1>1
  <2>3. text = Text(k) BY <2>1, <2>2, <1>7, <1>8, TextComplete
  <2>4. Parsed(text) = k BY <2>3, <1>1, TextParsed
  <2>5. /\ taken' = Append(taken, k) /\ msg' = sent[k] /\ header_buf' = <<>> /\ data_buf' = <<>>
        /\ recv_bytes' = 0 /\ bytes_to_recv' = HEADER
    <3>1. /\ taken' = Append(taken, Parsed(text))
          /\ msg' = IF Parsed(text) = 0 THEN Invalid ELSE sent[Parsed(text)]
          /\ header_buf' = <<>> /\ data_buf' = <<>> /\ recv_bytes' = 0 /\ bytes_to_recv' = HEADER
      BY <1>11 DEF ReadData, NextMessage, text, some, k
    <3> QED BY <3>1, <2>2, <2>4
  <2>6. /\ IsSeq(taken') /\ Len(taken') = k /\ taken'[k] = k
        /\ \A i \in 1..Len(taken) : taken'[i] = taken[i]
    BY <2>5, <1>2, AppendAny DEF k
  <2>7. Read' = Read + (from + n)
    <3>1. Read' = Offset(k) BY <2>5, <2>6, <1>1, <1>3, <1>0 DEF Read
    <3>2. Length(k) = Len(data_buf) + n BY <2>1, <1>7
    <3> QED BY <3>1, <3>2, <1>0, <1>1, <1>3, <1>6, <1>12 DEF Read
  <2>8. IsSeq(stream') /\ StreamInv' BY <2>7, <1>9, Dropped
  <2>9. TcpTypes'
    <3>1. Len(taken') <= Len(sent') BY <2>6, <1>1
    <3>2. \A i \in 1..Len(taken') : taken'[i] = i
      <4>1. \A i \in 1..Len(taken) : taken[i] = i BY DEF TcpInv, TcpTypes
      <4>2. \A i \in 1..k : i = k \/ i \in 1..Len(taken) BY <1>1 DEF k
      <4> QED BY <4>1, <4>2, <2>6
    <3> QED BY <3>1, <3>2, <2>5, <2>6, <2>8, EmptyAny DEF TcpInv, TcpTypes
  <2>10. BufferInv' BY <2>5, <1>0, EmptyAny DEF BufferInv
  <2> QED BY <2>5, <2>8, <2>9, <2>10 DEF TcpInv, Returns, k
<1> QED BY <1>10, <1>11

LEMMA UpToMin ==
  ASSUME NEW a \in Int, NEW b \in Int, NEW l \in Int, NEW n \in l..Min({a, b})
  PROVE  n \in Int /\ n >= l /\ n <= a /\ n <= b
<1>1. \E x \in {a, b} : \A y \in {a, b} : x <= y
  <2>1. CASE a <= b BY <2>1
  <2>2. CASE ~(a <= b) BY <2>2
  <2> QED BY <2>1, <2>2
<1>2. Min({a, b}) \in Int /\ Min({a, b}) <= a /\ Min({a, b}) <= b BY <1>1 DEF Min
<1> QED BY <1>2

\* With the header complete, the data that has arrived.
LEMMA HeaderComplete ==
  ASSUME NEW n, ReadHeader(n), NEW h, h = header_buf \o SubSeq(stream, 1, n), ~(Len(h) < HEADER)
  PROVE  \E d \in 0..Min({(bytes_to_recv + ntohl(h)) - HEADER, Len(stream) - n}) :
           ReadData(h, bytes_to_recv + ntohl(h), n, d)
  BY Zenon DEF ReadHeader

\* The header, as much of it as has arrived.
LEMMA HeaderBytes ==
  ASSUME TcpInv, ~AllTaken, recv_bytes < HEADER,
         NEW n \in 1..Min({HEADER - recv_bytes, Len(stream)}), ReadHeader(n), UNCHANGED <<sent, up>>
  PROVE  TcpInv' /\ (Partly \/ Returns)
<1> DEFINE k == Len(taken) + 1
           some == SubSeq(stream, 1, n)
           h == header_buf \o some
<1>0. HEADER = 4 BY DEF HEADER
<1>1. /\ Len(taken) \in Nat /\ Len(stream) \in Nat /\ recv_bytes \in Nat
      /\ Offset(Len(taken)) \in Nat /\ Len(sent) \in Nat /\ k \in 1..Len(sent)
  BY ReadBounds
<1>2. IsSeq(stream) /\ IsSeq(header_buf) /\ IsSeq(data_buf) BY DEF TcpInv, TcpTypes
<1>3. bytes_to_recv = HEADER /\ Len(header_buf) = recv_bytes /\ Len(data_buf) = 0
  BY DEF TcpInv, BufferInv
<1>4. n \in Nat /\ n >= 1 /\ n <= HEADER - recv_bytes /\ n <= Len(stream)
  <2>1. HEADER - recv_bytes \in Int /\ Len(stream) \in Int /\ 1 \in Int BY <1>0, <1>1
  <2>2. n \in Int /\ n >= 1 /\ n <= HEADER - recv_bytes /\ n <= Len(stream)
    BY <2>1, UpToMin
  <2> QED BY <2>2
<1>5. /\ IsSeq(some) /\ Len(some) = n /\ \A i \in 1..n : some[i] = stream[i]
  <2>1. 0 \in Nat /\ 0 <= n /\ 0 + 1 = 1 /\ n - 0 = n /\ \A i \in 1..n : 0 + i = i BY <1>4
  <2>2. /\ IsSeq(SubSeq(stream, 0 + 1, n)) /\ Len(SubSeq(stream, 0 + 1, n)) = n - 0
        /\ \A i \in 1..n - 0 : SubSeq(stream, 0 + 1, n)[i] = stream[0 + i]
    BY <1>2, <1>4, SubSeqAny
  <2> QED BY <2>1, <2>2
<1> HIDE DEF some
<1>6. Joined(header_buf, some, h) BY <1>2, <1>5, ConcatAny
<1> HIDE DEF h
<1>7. IsSeq(h) /\ Len(h) = recv_bytes + n BY <1>3, <1>5, <1>6 DEF Joined
<1> HIDE DEF k
<1>8. Length(k) \in 1..2 BY <1>1 DEF Length
<1>9. \A i \in 1..Len(h) : h[i] = Byte(k, i)
  <2> TAKE i \in 1..Len(h)
  <2>1. CASE i \in 1..Len(header_buf)
    BY <2>1, <1>6 DEF Joined, TcpInv, BufferInv, k
  <2>2. CASE i > Len(header_buf)
    <3>1. PICK d \in 1..n : i = recv_bytes + d
      <4>1. i - recv_bytes \in 1..n /\ i = recv_bytes + (i - recv_bytes)
        BY <2>2, <1>1, <1>3, <1>4, <1>7
      <4> QED BY <4>1
    <3>2. h[i] = some[d] BY <3>1, <1>3, <1>5, <1>6 DEF Joined
    <3>3. d \in 1..Len(stream) /\ recv_bytes + d <= HEADER + Length(k)
      BY <3>1, <1>0, <1>1, <1>4, <1>8
    <3>4. stream[d] = Byte(k, recv_bytes + d) BY <3>3, NextBytes DEF k
    <3> QED BY <3>1, <3>2, <3>4, <1>5
  <2> QED BY <2>1, <2>2, <1>1, <1>3, <1>7
<1>10. CASE Len(h) < HEADER
  <2>1. /\ header_buf' = h /\ recv_bytes' = recv_bytes + n /\ stream' = Drop(n)
        /\ UNCHANGED <<taken, bytes_to_recv, data_buf, msg>>
    BY <1>10 DEF ReadHeader, h, some
  <2>2. Read' = Read + n
    <3>1. Read' = Offset(Len(taken)) + (recv_bytes + n) BY <2>1 DEF Read
    <3>2. Read = Offset(Len(taken)) + recv_bytes BY DEF Read
    <3> QED BY <3>1, <3>2, <1>1, <1>4
  <2>3. IsSeq(stream') /\ StreamInv'
    <3>1. n \in 0..Len(stream) BY <1>1, <1>4
    <3> QED BY <2>1, <2>2, <3>1, Dropped
  <2>4. TcpTypes' BY <2>1, <2>3, <1>7 DEF TcpInv, TcpTypes
  <2>5. BufferInv'
    <3>1. recv_bytes' \in Nat /\ recv_bytes' < HEADER /\ ~(recv_bytes' >= HEADER)
      BY <2>1, <1>0, <1>1, <1>4, <1>7, <1>10
    <3>2. bytes_to_recv' = HEADER /\ Len(header_buf') = recv_bytes' /\ Len(data_buf') = 0
      BY <2>1, <1>3, <1>7
    <3>3. \A i \in 1..Len(header_buf') : header_buf'[i] = Byte(Len(taken') + 1, i)
      BY <2>1, <1>9 DEF k
    <3> QED BY <3>1, <3>2, <3>3 DEF BufferInv
  <2> QED BY <2>1, <2>3, <2>4, <2>5 DEF TcpInv, Partly
<1>11. CASE ~(Len(h) < HEADER)
  <2>1. Len(h) = HEADER BY <1>11, <1>0, <1>1, <1>4, <1>7
  <2>2. ntohl(h) = Length(k)
    <3>1. k \in Nat \ {0} BY <1>1
    <3> QED BY <3>1, <2>1, <1>7, <1>9, HeaderRead
  <2>3. PICK d \in 0..Min({(HEADER + Length(k)) - HEADER, Len(stream) - n}) :
          ReadData(h, HEADER + Length(k), n, d)
    <3>1. \E d \in 0..Min({(bytes_to_recv + ntohl(h)) - HEADER, Len(stream) - n}) :
            ReadData(h, bytes_to_recv + ntohl(h), n, d)
      BY <1>11, HeaderComplete DEF h, some
    <3> QED BY <3>1, <2>2, <1>3
  <2>4. d \in Nat /\ d <= Length(k) /\ d <= Len(stream) - n
    <3>1. (HEADER + Length(k)) - HEADER \in Int /\ Len(stream) - n \in Int /\ 0 \in Int
      BY <1>0, <1>1, <1>4, <1>8
    <3>2. d \in Nat /\ d <= (HEADER + Length(k)) - HEADER /\ d <= Len(stream) - n
      BY <3>1, UpToMin
    <3> QED BY <3>2, <1>0, <1>8
  <2>5. n \in 0..HEADER /\ n + d <= Len(stream) /\ recv_bytes + n = HEADER + Len(data_buf)
        /\ Len(data_buf) + d <= Length(k)
    <3>1. recv_bytes + n = 4 BY <2>1, <1>0, <1>7
    <3>2. n + d <= Len(stream) BY <2>4, <1>1, <1>4
    <3>3. n \in 0..HEADER BY <1>0, <1>1, <1>4
    <3>4. HEADER + Len(data_buf) = 4 /\ Len(data_buf) + d <= Length(k)
      BY <2>4, <1>0, <1>3
    <3> QED BY <3>1, <3>2, <3>3, <3>4
  <2>6. \A i \in 1..HEADER : h[i] = Byte(k, i) BY <2>1, <1>9
  <2> QED BY <2>1, <2>3, <2>4, <2>5, <2>6, <1>7, DataRead DEF k
<1> QED BY <1>10, <1>11

\* One call of recv.
LEMMA RecvStep ==
  ASSUME TcpInv, recv
  PROVE  TcpInv' /\ (Partly \/ Ends \/ Returns)
<1>0. HEADER = 4 BY DEF HEADER
<1>1. UNCHANGED <<sent, up>> BY DEF recv
<1>2. CASE ReadClosed
  <2>1. UNCHANGED recvVars /\ stream = <<>> /\ peer = "closed" /\ msg' = Closed
    BY <1>2 DEF ReadClosed
  <2>2. TcpInv'
    BY <2>1, <1>1 DEF TcpInv, TcpTypes, StreamInv, BufferInv, Read, recvVars
  <2> QED BY <2>1, <2>2 DEF Ends, recvVars
<1>3. /\ Len(taken) \in Nat /\ Len(stream) \in Nat /\ recv_bytes \in Nat
      /\ AllTaken => recv_bytes = 0 /\ stream = <<>>
  BY ReadBounds
<1>4. ASSUME recv_bytes < HEADER,
             NEW n \in 1..Min({HEADER - recv_bytes, Len(stream)}), ReadHeader(n)
      PROVE  TcpInv' /\ (Partly \/ Returns)
  <2>1. n >= 1 /\ n <= Len(stream) /\ n \in Nat
    <3>1. HEADER - recv_bytes \in Int BY <1>0, <1>3
    <3> QED BY <3>1, <1>3, UpToMin
  <2>2. ~AllTaken BY <2>1, <1>3
  <2> QED BY <2>2, <1>1, <1>4, HeaderBytes
<1>5. ASSUME ~(recv_bytes < HEADER),
             NEW n \in 1..Min({bytes_to_recv - recv_bytes, Len(stream)}),
             ReadData(header_buf, bytes_to_recv, 0, n)
      PROVE  TcpInv' /\ (Partly \/ Returns)
  <2>1. ~AllTaken BY <1>0, <1>3, <1>5
  <2>2. /\ bytes_to_recv = HEADER + Length(Len(taken) + 1)
        /\ Len(header_buf) = HEADER /\ Len(data_buf) = recv_bytes - HEADER
    BY <1>0, <1>3, <1>5 DEF TcpInv, BufferInv
  <2>3. Length(Len(taken) + 1) \in 1..2 BY <1>3 DEF Length
  <2>4. n \in Nat /\ n <= bytes_to_recv - recv_bytes /\ n <= Len(stream)
    <3>1. bytes_to_recv - recv_bytes \in Int BY <1>0, <1>3, <2>2, <2>3
    <3> QED BY <3>1, <1>3, UpToMin
  <2>5. /\ 0 \in 0..HEADER /\ 0 + n <= Len(stream) /\ recv_bytes + 0 = HEADER + Len(data_buf)
        /\ Len(data_buf) + n <= Length(Len(taken) + 1)
    BY <2>2, <2>3, <2>4, <1>0, <1>3
  <2>6. IsSeq(header_buf) /\ \A i \in 1..HEADER : header_buf[i] = Byte(Len(taken) + 1, i)
    BY <2>2 DEF TcpInv, TcpTypes, BufferInv
  <2>7. ReadData(header_buf, HEADER + Length(Len(taken) + 1), 0, n) BY <1>5, <2>2
  <2> QED BY <2>1, <2>2, <2>4, <2>5, <2>6, <2>7, <1>1, DataRead
<1>6. ReadClosed
      \/ (recv_bytes < HEADER
            /\ \E n \in 1..Min({HEADER - recv_bytes, Len(stream)}) : ReadHeader(n))
      \/ (~(recv_bytes < HEADER)
            /\ \E n \in 1..Min({bytes_to_recv - recv_bytes, Len(stream)}) :
                 ReadData(header_buf, bytes_to_recv, 0, n))
  <2>1. recv_bytes >= HEADER => ~(recv_bytes < HEADER) BY <1>0, <1>3
  <2> QED BY <2>1, Zenon DEF recv
<1> QED BY <1>2, <1>4, <1>5, <1>6

-----------------------------------------------------------------------------
(* TCPSocket in every step.                                                  *)

LEMMA TcpSame ==
  ASSUME TcpInv, UNCHANGED <<sent, recvVars>> PROVE TcpInv'
  BY DEF TcpInv, TcpTypes, StreamInv, BufferInv, Read, recvVars

LEMMA TcpStart == ASSUME TcpInit PROVE TcpInv
<1>1. Len(sent) = 0 /\ Len(taken) = 0 /\ Len(stream) = 0 /\ Len(header_buf) = 0
      /\ Len(data_buf) = 0 /\ recv_bytes = 0 /\ bytes_to_recv = HEADER
  BY EmptyAny DEF TcpInit
<1>2. TcpTypes BY <1>1, EmptyAny DEF TcpInit, TcpTypes
<1>3. BufferInv BY <1>1 DEF BufferInv, HEADER
<1>4. StreamInv BY <1>1 DEF StreamInv, Offset, Read
<1> QED BY <1>2, <1>3, <1>4 DEF TcpInv

\* What a frame on the bus does to the connection.
LEMMA FrameSent ==
  ASSUME TcpInv, NEW f, FrameOnBus(f),
         UNCHANGED <<taken, recv_bytes, bytes_to_recv, header_buf, data_buf>>
  PROVE  TcpInv' /\ (~subscribed => UNCHANGED <<sent, stream>>)
<1>1. \/ UNCHANGED <<sent, stream>>
      \/ subscribed /\ Emit([kind |-> "notification", id |-> 0, world |-> 0, frame |-> f])
  BY DEF FrameOnBus
<1>2. CASE UNCHANGED <<sent, stream>> BY <1>2, TcpSame DEF recvVars
<1>3. CASE subscribed /\ Emit([kind |-> "notification", id |-> 0, world |-> 0, frame |-> f])
  BY <1>3, EmitKeeps
<1> QED BY <1>1, <1>2, <1>3

BusStep == NodeStep \/ NodeFails \/ \E f \in Noise : OtherNode(f)
LEMMA BusStepSends ==
  ASSUME TcpInv, BusStep
  PROVE  /\ TcpInv' /\ UNCHANGED SilentVars
         /\ ~subscribed => UNCHANGED <<sent, stream>>
<1>1. UNCHANGED SilentVars BY DEF BusStep, NodeStep, NodeFails, OtherNode
<1>2. UNCHANGED <<taken, recv_bytes, bytes_to_recv, header_buf, data_buf>>
  BY <1>1 DEF SilentVars
<1>3. (\E f : FrameOnBus(f)) \/ UNCHANGED <<sent, stream>>
  BY DEF BusStep, NodeStep, NodeFails, OtherNode, FromNode
<1>4. CASE UNCHANGED <<sent, stream>> BY <1>1, <1>2, <1>4, TcpSame DEF recvVars
<1>5. CASE \E f : FrameOnBus(f) BY <1>1, <1>2, <1>5, FrameSent
<1> QED BY <1>3, <1>4, <1>5

\* The steps of the program that do not call recv leave the connection's
\* incoming half as it is.
LEMMA ProgramKeepsStream ==
  ASSUME Program, ~Receive PROVE UNCHANGED <<sent, recvVars>>
  BY DEF Program, ParseCommandLineArg, LoadConfiguration, ReadIhex, Open, Authenticated,
     Subscribe, AskDaemon, Refreshed, Resolve, Execute, CommandAnswered, StatsAsk, StatsAnswered,
     SendsOnce, SendExits, NoFrameReceived, Sniff, UploadBegins, Upload, TakeFrame, Answered, Look,
     tcpVars, recvVars

LEMMA TcpStep == ASSUME TcpInv, [Next]_clientVars PROVE TcpInv'
<1>1. CASE Receive BY <1>1, RecvStep DEF Receive
<1>2. CASE Program /\ ~Receive BY <1>2, ProgramKeepsStream, TcpSame
<1>3. CASE (\E l \in Lines : TypeLine(l)) \/ EndOfInput \/ WorldChanges \/ DaemonStops
  BY <1>3, TcpSame DEF TypeLine, EndOfInput, WorldChanges, DaemonStops, tcpVars, recvVars
<1>4. CASE Serve BY <1>4, EmitKeeps DEF Serve
<1>5. CASE BusStep BY <1>5, BusStepSends
<1>6. CASE UNCHANGED clientVars BY <1>6, TcpSame DEF clientVars, tcpVars
<1> QED BY <1>1, <1>2, <1>3, <1>4, <1>5, <1>6 DEF Next, BusStep

\* What recv has taken, what its two buffers hold and what is still in the stream
\* are together the messages sent, byte by byte, wherever the stream is cut.
THEOREM StreamSafe == Spec => []TcpInv
<1>1. ClientInit => TcpInv BY TcpStart DEF ClientInit
<1> QED BY <1>1, TcpStep, PTL DEF Spec

-----------------------------------------------------------------------------
(* Requests and answers.                                                     *)

\* A step that leaves the call alone; elsewhere than in a call and before one,
\* whatever happens on the connection.
LEMMA CallSame ==
  ASSUME CallInv, UNCHANGED <<start, pc, waiting, line>>,
         next_msg_id' \in Nat, world' \in 1..Len(Worlds), peer' \in {peer, "closed"},
         pc = "recv" \/ Asking => UNCHANGED <<up, sent, taken, msg, subscribed>>
  PROVE  CallInv'
<1>1. Prog' = Prog /\ (Asking' <=> Asking) BY DEF Prog, Asking
<1>2. pc = "recv" /\ Pending => Pending'
  BY DEF Pending, Asks, Answers, AllTaken
<1>3. Asking => (Quiet' <=> Quiet) BY DEF Quiet, AllTaken
<1> QED BY <1>1, <1>2, <1>3 DEF CallInv

\* The program goes on elsewhere, without a request under way; to a place before
\* a call only if nothing is under way.
LEMMA CallElsewhere ==
  ASSUME CallInv, UNCHANGED <<start, world>>, next_msg_id' \in Nat,
         pc' # "recv", waiting' = NotWaiting, pc' = "parse" => Prog = "h9cli",
         IsLine(line'), line'.cmd # "subscribe",
         Asking' => ~subscribed /\ Quiet /\ UNCHANGED <<up, sent, taken, msg, subscribed>>
  PROVE  CallInv'
<1>1. Prog' = Prog BY DEF Prog
<1>2. Asking' => Quiet' BY DEF Quiet, AllTaken
<1> QED BY <1>1, <1>2 DEF CallInv

\* The same after an answer, of which nothing is left.
LEMMA CallAnswered ==
  ASSUME CallInv, NEW what, Answered(what), UNCHANGED <<start, world, up, next_msg_id, subscribed>>,
         pc' # "recv", pc' = "parse" => Prog = "h9cli", pc' # "exit" => msg # Closed,
         IsLine(line'), line'.cmd # "subscribe"
  PROVE  CallInv'
<1>1. pc = "recv" /\ msg # EAGAIN /\ msg' = EAGAIN /\ sent' = sent /\ taken' = taken
      /\ waiting' = NotWaiting
  BY DEF Answered, Look, recvVars
<1>2. Prog' = Prog BY DEF Prog
<1>3. pc' # "exit" => up = <<>> /\ AllTaken BY <1>1 DEF CallInv, Pending
<1>4. Asking' => Quiet' BY <1>1, <1>3 DEF Quiet, AllTaken, Asking
<1> QED BY <1>1, <1>2, <1>4 DEF CallInv

\* A request is sent where nothing is under way.
IsRequest(r) == {"method", "id", "node"} \subseteq DOMAIN r
LEMMA CallStarts ==
  ASSUME CallInv, Asking, NEW r, NEW what, Call(r, what), IsRequest(r), r.method # "subscribe",
         what = "registers" => r.method = "get_registers_list" /\ r.node = line.node.num,
         what \in DOMAIN MethodOf => Prog = "h9cli",
         UNCHANGED <<start, peer, sent, taken, msg, subscribed, world, line>>
  PROVE  CallInv'
<1>1. /\ next_msg_id' = get_next_id /\ get_next_id \in Nat /\ get_next_id # 0
      /\ waiting' = [id |-> get_next_id, what |-> what] /\ pc' = "recv"
  BY DEF Call, Send, Goto, get_next_id, CallInv
<1>2. up = <<>> /\ AllTaken /\ msg = EAGAIN /\ ~subscribed BY DEF CallInv, Quiet
<1>3. PICK q : /\ q = [r EXCEPT !.id = get_next_id]
               /\ q.id = get_next_id /\ q.method = r.method /\ q.node = r.node
  <2> DEFINE q == [r EXCEPT !.id = get_next_id]
  <2>1. q.id = get_next_id /\ q.method = r.method /\ q.node = r.node BY DEF IsRequest
  <2> QED BY <2>1
<1>4. up' = <<q>> \/ up' = <<>>
  <2>1. up' = (IF peer = "open" THEN Append(up, q) ELSE up) BY <1>3 DEF Call, Send
  <2>2. Append(<<>>, q) = <<q>> OBVIOUS
  <2> QED BY <2>1, <2>2, <1>2
<1>5. AllTaken' /\ msg' = EAGAIN BY <1>2 DEF AllTaken
<1>6. Pending'
  <2>1. CASE up' = <<>> BY <2>1, <1>5 DEF Pending
  <2>2. CASE up' = <<q>>
    <3>1. Len(up') = 1 /\ up'[1] = q BY <2>2
    <3>2. Asks(q)' BY <1>1, <1>3 DEF Asks
    <3> QED BY <3>1, <3>2, <2>2, <1>5 DEF Pending
  <2> QED BY <1>4, <2>1, <2>2
<1>7. Prog' = Prog /\ ~Asking' /\ waiting'.id # 0 /\ waiting'.what = what
  BY <1>1 DEF Prog, Asking
<1> QED BY <1>1, <1>2, <1>6, <1>7 DEF CallInv

\* What the cache asks for.
LEMMA UnresolvedKnown == Unresolved \in {"nodes", "registers", "bits", "none"}
  BY DEF Unresolved
LEMMA RefreshKnown == Refresh \in {"nodes", "registers", "devs", "methods", "none"}
<1>1. Completing \in {"nodes", "registers", "devs", "methods", "none"}
  BY DEF Completing
<1>2. Unresolved \in {"nodes", "registers", "bits", "none"} BY UnresolvedKnown
<1> QED BY <1>1, <1>2 DEF Refresh
LEMMA MethodsKnown ==
  /\ DOMAIN MethodOf = {"nodes", "registers", "devs", "methods"}
  /\ \A what \in DOMAIN MethodOf : MethodOf[what] # "subscribe"
  /\ MethodOf["registers"] = "get_registers_list"
  BY DEF MethodOf
LEMMA RequestIs == ASSUME NEW method PROVE IsRequest(Request(method)) /\ Request(method).method = method
  BY DEF IsRequest, Request

LEMMA CallAsk == ASSUME CallInv, AskDaemon PROVE CallInv'
<1> DEFINE r == [Request(MethodOf[Refresh]) EXCEPT !.node = line.node.num, !.dev = line.dev]
<1>1. pc = "parse" /\ Asking /\ Refresh # "none" /\ Prog = "h9cli" BY DEF AskDaemon, Asking, CallInv
<1>2. Refresh \in DOMAIN MethodOf BY <1>1, RefreshKnown, MethodsKnown
<1>3. UNCHANGED <<start, peer, sent, taken, msg, subscribed, world, line>>
  BY DEF AskDaemon, recvVars, cliVars
<1>4. CASE Call(r, Refresh)
  <2>1. IsRequest(r) /\ r.method = MethodOf[Refresh] /\ r.node = line.node.num
    BY DEF IsRequest, Request
  <2>2. r.method # "subscribe" BY <2>1, <1>2, MethodsKnown
  <2>3. Refresh = "registers" => r.method = "get_registers_list" BY <2>1, MethodsKnown
  <2> HIDE DEF r
  <2> QED BY <1>1, <1>3, <1>4, <2>1, <2>2, <2>3, CallStarts
<1>5. CASE CannotSend /\ UNCHANGED waiting
  <2>1. pc' = "exit" /\ UNCHANGED <<up, next_msg_id>> BY <1>5 DEF CannotSend, Exit
  <2> QED BY <2>1, <1>1, <1>3, <1>5, CallElsewhere DEF CallInv, Asking
<1> QED BY <1>4, <1>5 DEF AskDaemon

LEMMA CallExecute == ASSUME CallInv, Execute PROVE CallInv'
<1> DEFINE r == [Request(line.cmd) EXCEPT !.node = line.node.num, !.reg = line.reg.num,
                                          !.bit = line.bit.num, !.dev = line.dev]
<1>1. pc = "parse" /\ Asking /\ Prog = "h9cli" /\ waiting = NotWaiting /\ ~subscribed /\ Quiet
  BY DEF Execute, Asking, CallInv
<1>2. UNCHANGED <<start, peer, sent, taken, msg, subscribed, world, line>>
  BY DEF Execute, recvVars
<1>3. CASE Call(r, "command")
  <2>1. IsRequest(r) /\ r.method = line.cmd  BY DEF IsRequest, Request
  <2>2. r.method # "subscribe" BY <2>1 DEF CallInv
  <2>3. "command" \notin DOMAIN MethodOf BY MethodsKnown
  <2> HIDE DEF r
  <2> QED BY <1>1, <1>2, <1>3, <2>1, <2>2, <2>3, CallStarts
<1>4. CASE CannotSend /\ UNCHANGED waiting
  <2>1. pc' = "exit" /\ UNCHANGED <<up, next_msg_id>> BY <1>4 DEF CannotSend, Exit
  <2> QED BY <2>1, <1>1, <1>2, <1>4, CallElsewhere DEF CallInv, Asking
<1>5. CASE Goto("run") /\ UNCHANGED <<up, next_msg_id, waiting>>
  BY <1>1, <1>2, <1>5, CallElsewhere DEF CallInv, Goto
<1> QED BY <1>3, <1>4, <1>5 DEF Execute

LEMMA CallStats == ASSUME CallInv, StatsAsk PROVE CallInv'
<1>1. pc = "run" /\ Asking /\ Prog = "h9stats" /\ waiting = NotWaiting
  BY DEF StatsAsk, Asking, CallInv
<1>2. UNCHANGED <<start, peer, sent, taken, msg, subscribed, world, line>>
  BY DEF StatsAsk, recvVars, cliVars
<1>3. ASSUME NEW method \in {"get_version", "get_stats"}, Call(Request(method), method)
      PROVE  CallInv'
  <2>1. IsRequest(Request(method)) /\ Request(method).method = method BY RequestIs
  <2>2. method # "subscribe" /\ method # "registers" /\ method \notin DOMAIN MethodOf
    BY MethodsKnown
  <2> QED BY <1>1, <1>2, <1>3, <2>1, <2>2, CallStarts
<1>4. CASE CannotSend /\ UNCHANGED waiting
  <2>1. pc' = "exit" /\ UNCHANGED <<up, next_msg_id>> BY <1>4 DEF CannotSend, Exit
  <2> QED BY <2>1, <1>1, <1>2, <1>4, CallElsewhere DEF CallInv, Asking
<1> QED BY <1>3, <1>4 DEF StatsAsk

LEMMA CallOpen == ASSUME CallInv, Open PROVE CallInv'
<1>1. pc = "open" /\ Asking /\ ~subscribed /\ Quiet /\ waiting = NotWaiting
  BY DEF Open, Asking, CallInv
<1>2. UNCHANGED <<start, sent, taken, msg, subscribed, world, line, next_msg_id>>
  BY DEF Open, recvVars, cliVars, worldVars
<1>3. CASE UNCHANGED <<up, waiting>> /\ pc' = "exit"
  BY <1>1, <1>2, <1>3, CallElsewhere DEF CallInv, Asking
<1>4. CASE UNCHANGED <<up, waiting>> /\ pc' = Running /\ ~Connects
  <2>1. pc' \in {"frames", "run"} /\ Prog \notin {"h9cli", "h9stats"} /\ Prog' = Prog
    BY <1>2, <1>4 DEF Running, Connects, Prog
  <2> QED BY <2>1, <1>1, <1>2, <1>4, CallElsewhere DEF CallInv, Asking
<1>5. CASE /\ up' = <<[Request("authenticate") EXCEPT !.id = 1]>>
           /\ waiting' = [id |-> 1, what |-> "authenticate"] /\ pc' = "recv"
  <2>1. PICK q : /\ q = [Request("authenticate") EXCEPT !.id = 1]
                 /\ q.id = 1 /\ q.method = "authenticate"
    <3> DEFINE q == [Request("authenticate") EXCEPT !.id = 1]
    <3>1. q.id = 1 /\ q.method = "authenticate" BY DEF Request
    <3> QED BY <3>1
  <2>2. up' = <<q>> /\ Len(up') = 1 /\ up'[1] = q BY <2>1, <1>5
  <2>3. Asks(q)' BY <2>1, <1>5 DEF Asks
  <2>4. AllTaken' /\ msg' = EAGAIN BY <1>1, <1>2 DEF Quiet, AllTaken
  <2>5. Pending' BY <2>2, <2>3, <2>4 DEF Pending
  <2>6. Prog' = Prog /\ ~Asking' /\ waiting'.id # 0 /\ waiting'.what \notin DOMAIN MethodOf
    BY <1>2, <1>5, MethodsKnown DEF Prog, Asking
  <2> QED BY <2>5, <2>6, <1>1, <1>2, <1>5 DEF CallInv
<1> QED BY <1>3, <1>4, <1>5 DEF Open, OpenFails, Exit, Goto

LEMMA CallReceive == ASSUME TcpInv, CallInv, Receive PROVE CallInv'
<1>1. UNCHANGED <<start, pc, waiting, line, world, subscribed, peer, up, sent, next_msg_id>>
  BY DEF Receive, recv, progVars, cliVars, worldVars
<1>2. Partly \/ Ends \/ Returns BY RecvStep DEF Receive
<1>3. ~Asking /\ msg = EAGAIN BY DEF Receive, recv, Asking
<1>4. Prog' = Prog /\ (Asking' <=> Asking) BY <1>1 DEF Prog, Asking
<1>5. ASSUME pc = "recv" PROVE Pending'
  <2>1. Pending BY <1>5 DEF CallInv
  <2>2. ~Answers(EAGAIN) BY DEF Answers, EAGAIN, Nothing
  <2>3. /\ Len(taken) \in Nat /\ IsSeq(taken) /\ (~AllTaken => stream # <<>>)
    BY ReadBounds DEF TcpInv, TcpTypes
  <2>4. CASE Partly BY <2>1, <2>4, <1>1 DEF Partly, Pending, Asks, Answers, AllTaken
  <2>5. CASE Ends
    <3>1. AllTaken /\ taken' = taken /\ msg' = Closed /\ peer = "closed"
      BY <2>3, <2>5 DEF Ends
    <3> QED BY <3>1, <2>1, <2>3, <1>1 DEF Pending, Asks, AllTaken
  <2>6. CASE Returns
    <3>1. /\ ~AllTaken /\ Len(taken') = Len(taken) + 1 /\ msg' = sent[Len(taken) + 1]
      BY <2>3, <2>6, AppendAny DEF Returns
    <3>2. up = <<>> /\ Len(sent) = Len(taken) + 1 /\ Answers(sent[Len(sent)])
      BY <3>1, <2>1 DEF Pending
    <3>3. AllTaken' /\ msg' = sent[Len(sent)] BY <3>1, <3>2, <1>1 DEF AllTaken
    <3>4. Answers(msg)' BY <3>2, <3>3, <1>1 DEF Answers
    <3> QED BY <3>2, <3>3, <3>4, <1>1 DEF Pending
  <2> QED BY <1>2, <2>4, <2>5, <2>6
<1> QED BY <1>1, <1>3, <1>4, <1>5 DEF CallInv

LEMMA CallServed == ASSUME TcpInv, CallInv, Serve PROVE CallInv'
<1>1. /\ UNCHANGED <<start, pc, waiting, line, world, next_msg_id, msg, taken, peer>>
      /\ UNCHANGED <<recv_bytes, bytes_to_recv, header_buf, data_buf>>
  BY DEF Serve, progVars, cliVars
<1>2. CASE pc = "recv"
  <2>1. /\ Len(up) = 1 /\ up = <<up[1]>> /\ Asks(up[1]) /\ AllTaken /\ msg = EAGAIN
        /\ ~subscribed /\ waiting.id # 0
    BY <1>2 DEF CallInv, Pending, Serve
  <2> DEFINE r == up[1]
             m == [kind |-> IF Unknown(r) THEN "error" ELSE "response", id |-> r.id,
                   world |-> world, frame |-> NoFrame]
  <2>2. Head(up) = r /\ Tail(up) = <<>>
    <3>1. PICK x : x = up[1] OBVIOUS
    <3>2. Head(<<x>>) = x /\ Tail(<<x>>) = <<>> OBVIOUS
    <3> QED BY <2>1, <3>1, <3>2
  <2>3. Emit(m) /\ up' = <<>> /\ subscribed' = (subscribed \/ r.method = "subscribe")
    BY <2>2 DEF Serve
  <2>4. Len(sent') = Len(sent) + 1 /\ sent'[Len(sent')] = m BY <1>1, <2>3, EmitKeeps
  <2>5. m.kind \in {"response", "error"} /\ m.id = waiting.id /\ m.world \in 1..Len(Worlds)
    BY <2>1 DEF Asks, CallInv
  <2>6. waiting.what = "registers" /\ m.kind = "response"
          => line.node.num \in DOMAIN Worlds[m.world].regs
    BY <2>1 DEF Asks, Unknown
  <2>7. Answers(sent[Len(sent)])' BY <2>4, <2>5, <2>6, <1>1 DEF Answers
  <2>8. Len(taken) \in Nat /\ Len(sent') = Len(taken') + 1 BY <2>1, <2>4, <1>1, ReadBounds DEF AllTaken
  <2>9. subscribed' = FALSE BY <2>1, <2>3 DEF Asks
  <2>10. Prog' = Prog /\ ~Asking' BY <1>1, <1>2 DEF Prog, Asking
  <2> HIDE DEF m
  <2>11. Pending' BY <2>3, <2>7, <2>8, <2>1, <1>1 DEF Pending, AllTaken
  <2> QED BY <2>9, <2>10, <2>11, <2>1, <1>1, <1>2 DEF CallInv
<1>3. CASE pc # "recv"
  <2>1. ~Asking BY DEF Serve, CallInv, Quiet
  <2> QED BY <2>1, <1>1, <1>3, CallSame DEF CallInv
<1> QED BY <1>2, <1>3

LEMMA LineKept ==
  ASSUME NEW l, IsLine(l), NEW m,
         \/ m = [l EXCEPT !.asked = TRUE]
         \/ \E x : m = [l EXCEPT !.asked = FALSE, !.node = x]
         \/ \E x : m = [l EXCEPT !.asked = FALSE, !.reg = x]
         \/ \E x : m = [l EXCEPT !.asked = FALSE, !.bit = x]
  PROVE  IsLine(m) /\ m.cmd = l.cmd
  BY DEF IsLine

LEMMA CallRefreshed ==
  ASSUME CallInv, NEW what \in DOMAIN MethodOf, Refreshed(what)
  PROVE  CallInv'
<1>1. /\ Answered(what) /\ UNCHANGED <<start, world, up, next_msg_id, subscribed>>
      /\ msg # EAGAIN /\ pc = "recv" /\ waiting.what = what
  BY DEF Refreshed, worldVars, Answered, Look
<1>2. CASE Exit("failure") \/ Exit("terminated")
  <2>1. pc' = "exit" BY <1>2 DEF Exit
  <2>2. line' = line \/ line' = [line EXCEPT !.asked = TRUE] BY DEF Refreshed
  <2>3. IsLine(line') /\ line'.cmd # "subscribe" BY <2>2, LineKept DEF CallInv
  <2> QED BY <1>1, <2>1, <2>3, CallAnswered
<1>3. CASE /\ ~(msg.kind \in {"closed", "invalid"}) /\ pc' = "parse"
           /\ line' = [line EXCEPT !.asked = TRUE]
  <2>1. IsLine(line') /\ line'.cmd # "subscribe" BY <1>3, LineKept DEF CallInv
  <2>2. msg # Closed BY <1>3 DEF Closed, Nothing
  <2>3. Prog = "h9cli" BY <1>1 DEF CallInv
  <2> QED BY <1>1, <1>3, <2>1, <2>2, <2>3, CallAnswered
<1> QED BY <1>2, <1>3 DEF Refreshed, Goto

LEMMA CallResolved == ASSUME CallInv, Resolve PROVE CallInv'
<1>1. UNCHANGED <<start, pc, waiting, next_msg_id, world, peer, up, sent, taken, msg, subscribed>>
  BY DEF Resolve, progVars, tcpVars, worldVars, recvVars
<1>2. Unresolved \in {"nodes", "registers", "bits"} BY UnresolvedKnown DEF Resolve
<1>3. \/ \E x : line' = [line EXCEPT !.asked = FALSE, !.node = x]
      \/ \E x : line' = [line EXCEPT !.asked = FALSE, !.reg = x]
      \/ \E x : line' = [line EXCEPT !.asked = FALSE, !.bit = x]
  BY <1>2 DEF Resolve
<1>4. IsLine(line') /\ line'.cmd # "subscribe" BY <1>3, LineKept DEF CallInv
<1>5. pc = "parse" /\ Asking BY DEF Resolve, Asking
<1> QED BY <1>1, <1>4, <1>5, CallElsewhere DEF CallInv

\* An answer after which the line is as it was.
LEMMA CallAnsweredOther ==
  ASSUME CallInv,
         Authenticated \/ CommandAnswered \/ StatsAnswered("get_version")
                       \/ StatsAnswered("get_stats")
  PROVE  CallInv'
<1>1. PICK what : Answered(what)
  BY DEF Authenticated, CommandAnswered, StatsAnswered
<1>2. UNCHANGED <<start, world, up, next_msg_id, subscribed, line>>
  BY DEF Authenticated, CommandAnswered, StatsAnswered, worldVars, cliVars
<1>3. pc' \in {"authenticated", "run", "exit"}
  BY DEF Authenticated, CommandAnswered, StatsAnswered, Goto, Exit, OpenFails
<1>4. pc' # "exit" => msg # Closed
  BY DEF Authenticated, CommandAnswered, StatsAnswered, Goto, Exit, OpenFails, Closed, Nothing
<1> QED BY <1>1, <1>2, <1>3, <1>4, CallAnswered DEF CallInv

\* The start of the program, until the connection is opened.
LEMMA CallBefore ==
  ASSUME CallInv, ParseCommandLineArg \/ LoadConfiguration \/ ReadIhex
  PROVE  CallInv'
<1>1. UNCHANGED <<start, world, next_msg_id, waiting, line, up, sent, taken, msg, subscribed>>
  BY DEF ParseCommandLineArg, LoadConfiguration, ReadIhex, tcpVars, recvVars, worldVars, cliVars
<1>2. start.args \in {"ok", "help", "bad"} BY StartsAssumption DEF CallInv
<1>3. pc' \in {"load_configuration", "read_ihex", "open", "exit"}
  BY <1>2 DEF ParseCommandLineArg, LoadConfiguration, ReadIhex, Goto, Exit
<1>4. pc # "recv" /\ Asking BY DEF ParseCommandLineArg, LoadConfiguration, ReadIhex, Asking
<1> QED BY <1>1, <1>3, <1>4, CallElsewhere DEF CallInv

LEMMA CallSubscribe == ASSUME CallInv, Subscribe PROVE CallInv'
<1>1. /\ UNCHANGED <<start, world, waiting, line, sent, taken, msg, subscribed>>
      /\ pc = "authenticated" /\ Asking
  BY DEF Subscribe, recvVars, worldVars, cliVars, Asking
<1>2. next_msg_id' \in Nat BY DEF Subscribe, Send, get_next_id, CallInv
<1>3. pc' \in {"frames", "run", "exit"} BY DEF Subscribe, Goto, Exit, Running
<1>4. Prog \in {"h9cli", "h9stats"} => up' = up BY DEF Subscribe
<1>5. Prog' = Prog BY <1>1 DEF Prog
<1> QED BY <1>1, <1>2, <1>3, <1>4, <1>5, CallElsewhere DEF CallInv, Asking

LEMMA CallTyped == ASSUME CallInv, NEW l \in Lines, TypeLine(l) PROVE CallInv'
<1>1. /\ UNCHANGED <<start, world, next_msg_id, waiting, up, sent, taken, msg, subscribed>>
      /\ pc = "run" /\ Prog = "h9cli" /\ Asking /\ line' = l /\ pc' = "parse"
  BY DEF TypeLine, tcpVars, recvVars, worldVars, Asking, Goto
<1> QED BY <1>1, CallElsewhere, LinesAssumption DEF CallInv

\* Programs that send frames or receive them call no more.
LEMMA CallOver ==
  ASSUME CallInv, SendsOnce \/ SendExits \/ NoFrameReceived \/ Sniff \/ UploadBegins \/ Upload
  PROVE  CallInv'
<1>1. UNCHANGED <<start, world, line, waiting>>
  BY DEF SendsOnce, SendExits, NoFrameReceived, Sniff, UploadBegins, Upload, progVars, cliVars,
     worldVars
<1>2. next_msg_id' \in Nat
  BY DEF SendsOnce, SendExits, NoFrameReceived, Sniff, UploadBegins, Upload, SendFrame, Send,
     CannotSend, get_next_id, CallInv
<1>3. /\ pc' \in {"run", "sent", "frames", "exit"} /\ pc # "recv"
      /\ pc' = "run" => Prog \notin {"h9cli", "h9stats"}
  BY DEF SendsOnce, SendExits, NoFrameReceived, Sniff, UploadBegins, Upload, TakeFrame, CannotSend,
     Goto, Exit, progVars
<1>4. Prog' = Prog BY <1>1 DEF Prog
<1> QED BY <1>1, <1>2, <1>3, <1>4, CallElsewhere DEF CallInv, Asking

LEMMA CallStep == ASSUME TcpInv, CallInv, [Next]_clientVars PROVE CallInv'
<1>1. CASE ParseCommandLineArg \/ LoadConfiguration \/ ReadIhex BY <1>1, CallBefore
<1>2. CASE Open BY <1>2, CallOpen
<1>3. CASE Receive BY <1>3, CallReceive
<1>4. CASE Authenticated \/ CommandAnswered \/ StatsAnswered("get_version")
                         \/ StatsAnswered("get_stats")
  BY <1>4, CallAnsweredOther
<1>5. CASE Subscribe BY <1>5, CallSubscribe
<1>6. CASE AskDaemon BY <1>6, CallAsk
<1>7. CASE \E what \in DOMAIN MethodOf : Refreshed(what) BY <1>7, CallRefreshed
<1>8. CASE Resolve BY <1>8, CallResolved
<1>9. CASE Execute BY <1>9, CallExecute
<1>10. CASE StatsAsk BY <1>10, CallStats
<1>11. CASE SendsOnce \/ SendExits \/ NoFrameReceived \/ Sniff \/ UploadBegins \/ Upload
  BY <1>11, CallOver
<1>12. CASE \E l \in Lines : TypeLine(l) BY <1>12, CallTyped
<1>13. CASE EndOfInput
  <2>1. /\ UNCHANGED <<start, world, next_msg_id, waiting, line>> /\ pc' = "exit" /\ pc = "run"
    BY <1>13 DEF EndOfInput, tcpVars, worldVars, cliVars, Exit
  <2> QED BY <2>1, CallElsewhere DEF CallInv, Asking
<1>14. CASE Serve BY <1>14, CallServed
<1>15. CASE WorldChanges \/ DaemonStops
  <2>1. /\ UNCHANGED <<start, pc, waiting, line, next_msg_id, up, sent, taken, msg, subscribed>>
        /\ peer' \in {peer, "closed"} /\ (world' = world \/ (world < Len(Worlds) /\ world' = world + 1))
    BY <1>15 DEF WorldChanges, DaemonStops, tcpVars, recvVars, progVars, cliVars
  <2>2. world' \in 1..Len(Worlds) BY <2>1, WorldsAssumption DEF CallInv
  <2> QED BY <2>1, <2>2, CallSame DEF CallInv
<1>16. CASE BusStep
  <2>1. UNCHANGED SilentVars /\ (~subscribed => UNCHANGED <<sent, stream>>)
    BY <1>16, BusStepSends
  <2>2. UNCHANGED <<start, pc, waiting, line, next_msg_id, up, taken, msg, subscribed, peer, world>>
    BY <2>1 DEF SilentVars, progVars, cliVars
  <2>3. pc = "recv" \/ Asking => ~subscribed BY DEF CallInv
  <2> QED BY <2>1, <2>2, <2>3, CallSame DEF CallInv
<1>17. CASE UNCHANGED clientVars
  <2>1. UNCHANGED <<start, pc, waiting, line, next_msg_id, up, sent, taken, msg, subscribed, peer,
                    world>>
    BY <1>17 DEF clientVars, tcpVars, recvVars, progVars, cliVars, worldVars
  <2> QED BY <2>1, CallSame DEF CallInv
<1> QED BY <1>1, <1>2, <1>3, <1>4, <1>5, <1>6, <1>7, <1>8, <1>9, <1>10, <1>11, <1>12, <1>13,
           <1>14, <1>15, <1>16, <1>17
        DEF Next, Program, BusStep

LEMMA CallBegins == ASSUME ClientInit PROVE CallInv
<1>1. up = <<>> /\ AllTaken /\ msg = EAGAIN BY DEF ClientInit, TcpInit, AllTaken
<1>2. IsLine(NoLine) /\ NoLine.cmd # "subscribe" BY DEF IsLine, NoLine
<1>3. 1 \in 1..Len(Worlds) BY WorldsAssumption
<1> QED BY <1>1, <1>2, <1>3 DEF ClientInit, TcpInit, CallInv, Quiet

\* While a call waits, its request is with the daemon, or its answer is the one
\* message on the way or just returned, or the connection is gone; and no program
\* calls with anything else on the way.
THEOREM CallsPaired == Spec => []CallInv
<1>1. ClientInit => TcpInv /\ CallInv BY TcpStart, CallBegins DEF ClientInit
<1>2. TcpInv /\ CallInv /\ [Next]_clientVars => TcpInv' /\ CallInv' BY TcpStep, CallStep
<1> QED BY <1>1, <1>2, PTL DEF Spec

\* TCPSocket::recv returns the daemon's messages whole, each once and in order,
\* and a call takes for its answer the answer to its own request, for any
\* daemon, command line, lines typed and frames of other nodes.
THEOREM AnswersSafe == Spec => []AnswersTaken
<1>1. TcpInv /\ CallInv => AnswersTaken
  <2> SUFFICES ASSUME TcpInv, CallInv PROVE AnswersTaken OBVIOUS
  <2>1. \A i \in DOMAIN taken : taken[i] = i
    <3>1. DOMAIN taken = 1..Len(taken) BY DEF TcpInv, TcpTypes, IsSeq
    <3> QED BY <3>1 DEF TcpInv, TcpTypes
  <2>2. ASSUME waiting.id # 0, msg.kind \in {"response", "error", "notification"}
        PROVE  msg.kind # "notification" /\ msg.id = waiting.id
    <3>1. pc = "recv" BY <2>2 DEF CallInv, NotWaiting
    <3>2. msg # EAGAIN /\ msg # Closed BY <2>2 DEF EAGAIN, Closed, Nothing
    <3>3. Answers(msg) BY <3>1, <3>2 DEF CallInv, Pending
    <3> QED BY <3>3 DEF Answers
  <2> QED BY <2>1, <2>2 DEF AnswersTaken
<1> QED BY <1>1, StreamSafe, CallsPaired, PTL

-----------------------------------------------------------------------------
(* The cache of h9cli.                                                       *)

IsCache(c) ==
  {"node_name_to_id", "node_list", "dev_list", "dev_method_list", "registries_list",
   "name_to_number", "bits_list", "bits_name_to_number"} \subseteq DOMAIN c

\* What a report of registers says of a name, and of a bit of a register.
SaysNumber(w, n, x, number) ==
  \E i \in DOMAIN Worlds[w].regs[n] :
    Worlds[w].regs[n][i].name = x /\ Worlds[w].regs[n][i].number = number
SaysBit(w, n, k, b, bit) ==
  \E i \in DOMAIN Worlds[w].regs[n] :
    /\ Worlds[w].regs[n][i].number = k
    /\ bit + 1 \in DOMAIN Worlds[w].regs[n][i].bits
    /\ Worlds[w].regs[n][i].bits[bit + 1] = b

\* CacheSinceClear, by kind of name.
NodesSince(c, reports) ==
  \A x \in DOMAIN c.node_name_to_id :
    \E s \in reports : /\ s[1] = "nodes" /\ Has(Worlds[s[3]].nodes, x)
                       /\ Worlds[s[3]].nodes[x] = c.node_name_to_id[x]
NumbersSince(c, reports) ==
  \A n \in DOMAIN c.name_to_number : \A x \in DOMAIN c.name_to_number[n] :
    \E s \in reports : /\ s[1] = "registers" /\ s[2] = n
                       /\ SaysNumber(s[3], n, x, c.name_to_number[n][x])
BitsSince(c, reports) ==
  \A n \in DOMAIN c.bits_name_to_number : \A k \in DOMAIN c.bits_name_to_number[n] :
    \A b \in DOMAIN c.bits_name_to_number[n][k] :
      \E s \in reports : /\ s[1] = "registers" /\ s[2] = n
                         /\ SaysBit(s[3], n, k, b, c.bits_name_to_number[n][k][b])

CacheInv == IsCache(cache) /\ CacheSinceClear

LEMMA CacheParts ==
  CacheSinceClear <=> NodesSince(cache, since) /\ NumbersSince(cache, since) /\ BitsSince(cache, since)
  BY DEF CacheSinceClear, NodesSince, NumbersSince, BitsSince, SaysNumber, SaysBit

LEMMA CacheSaid ==
  ASSUME NodesSince(cache', since'), NumbersSince(cache', since'), BitsSince(cache', since')
  PROVE  CacheSinceClear'
  BY DEF CacheSinceClear, NodesSince, NumbersSince, BitsSince, SaysNumber, SaysBit

\* The entries of one map over those of another, and an entry more.
LEMMA OverEntries ==
  ASSUME NEW f, NEW g
  PROVE  /\ DOMAIN Over(f, g) = DOMAIN f \cup DOMAIN g
         /\ \A x \in DOMAIN f : Over(f, g)[x] = f[x]
         /\ \A x \in DOMAIN g : x \notin DOMAIN f => Over(f, g)[x] = g[x]
  BY DEF Over, Has

\* map with value for key.
With(map, key, value, changed) ==
  /\ DOMAIN changed = {key} \cup DOMAIN map /\ changed[key] = value
  /\ \A x \in DOMAIN map : x # key => changed[x] = map[x]

LEMMA PutEntries ==
  ASSUME NEW map, NEW key, NEW value PROVE With(map, key, value, Put(map, key, value))
<1> DEFINE entry == [k \in {key} |-> value]
<1>1. DOMAIN entry = {key} /\ entry[key] = value OBVIOUS
<1> HIDE DEF entry
<1>2. Put(map, key, value) = Over(entry, map) BY DEF Put, entry
<1>3. /\ DOMAIN Over(entry, map) = DOMAIN entry \cup DOMAIN map
      /\ \A x \in DOMAIN entry : Over(entry, map)[x] = entry[x]
      /\ \A x \in DOMAIN map : x \notin DOMAIN entry => Over(entry, map)[x] = map[x]
  BY OverEntries
<1> QED BY <1>1, <1>2, <1>3 DEF With

\* The number of a bit is its place in the list of its register's bits.
LEMMA IndexPlaces ==
  ASSUME NEW T, NEW s \in Seq(T), NEW b \in DOMAIN Index(s)
  PROVE  Index(s)[b] + 1 \in DOMAIN s /\ s[Index(s)[b] + 1] = b
<1>1. DOMAIN Index(s) = {s[i] : i \in DOMAIN s} BY DEF Index
<1>2. \E i \in DOMAIN s : s[i] = b BY <1>1
<1> DEFINE j == CHOOSE i \in DOMAIN s : s[i] = b
<1>3. j \in DOMAIN s /\ s[j] = b BY <1>2
<1>4. Index(s)[b] = j - 1 BY <1>1 DEF Index
<1> HIDE DEF j
<1>5. j \in Int BY <1>3, LenProperties
<1> QED BY <1>3, <1>4, <1>5

\* The numbers of the registers, and of their bits, that a report gives.
LEMMA NumbersReported ==
  ASSUME NEW c, IsCache(c), NEW id, NEW m
  PROVE  \E N : /\ refresh_register(c, id, m).name_to_number = Put(c.name_to_number, id, N)
                /\ \A x \in DOMAIN N : Reported(m) /\ SaysNumber(m.world, id, x, N[x])
<1> DEFINE regs == IF Reported(m) THEN Worlds[m.world].regs[id] ELSE <<>>
           names == {regs[i].name : i \in DOMAIN regs}
           Named(x) == CHOOSE r \in {regs[i] : i \in DOMAIN regs} : r.name = x
           N == [x \in names |-> Named(x).number]
<1>1. refresh_register(c, id, m).name_to_number = Put(c.name_to_number, id, N)
  BY DEF refresh_register, IsCache
<1>2. ASSUME NEW x \in DOMAIN N PROVE Reported(m) /\ SaysNumber(m.world, id, x, N[x])
  <2>1. \E r \in {regs[i] : i \in DOMAIN regs} : r.name = x OBVIOUS
  <2>2. PICK r \in {regs[i] : i \in DOMAIN regs} : r = Named(x) /\ r.name = x BY <2>1
  <2>3. N[x] = r.number BY <2>2
  <2>4. PICK i \in DOMAIN regs : r = regs[i] BY <2>2
  <2>5. Reported(m) BY <2>4
  <2>6. regs = Worlds[m.world].regs[id] BY <2>5
  <2> QED BY <2>2, <2>3, <2>4, <2>5, <2>6 DEF SaysNumber
<1> HIDE DEF N
<1> QED BY <1>1, <1>2

\* The cache had this number of a bit.
HadBit(c, id, k, b, bit) ==
  /\ id \in DOMAIN c.bits_name_to_number /\ k \in DOMAIN c.bits_name_to_number[id]
  /\ b \in DOMAIN c.bits_name_to_number[id][k] /\ c.bits_name_to_number[id][k][b] = bit

LEMMA BitsReported ==
  ASSUME NEW c, IsCache(c), NEW id, NEW m,
         Reported(m) => m.world \in 1..Len(Worlds) /\ id \in DOMAIN Worlds[m.world].regs,
         refresh_register(c, id, m).bits_name_to_number # c.bits_name_to_number
  PROVE  \E B : /\ refresh_register(c, id, m).bits_name_to_number = Put(c.bits_name_to_number, id, B)
                /\ \A k \in DOMAIN B : \A b \in DOMAIN B[k] :
                     \/ HadBit(c, id, k, b, B[k][b])
                     \/ Reported(m) /\ SaysBit(m.world, id, k, b, B[k][b])
<1> DEFINE regs == IF Reported(m) THEN Worlds[m.world].regs[id] ELSE <<>>
           Numbered(k) == CHOOSE r \in {regs[i] : i \in DOMAIN regs} : r.number = k
           numbers == {regs[i].number : i \in DOMAIN regs}
           old == IF Has(c.bits_name_to_number, id) THEN c.bits_name_to_number[id] ELSE Empty
           named == {x \in numbers : Numbered(x).bits # <<>>}
           kept(k) == IF Has(old, k) THEN old[k] ELSE Empty
           bits == [k \in named |-> Over(Index(Numbered(k).bits), kept(k))]
           B == Over(bits, old)
<1>1. refresh_register(c, id, m).bits_name_to_number = Put(c.bits_name_to_number, id, B)
  BY DEF refresh_register, IsCache
<1>2. DOMAIN Empty = {} BY DEF Empty
<1>3. ASSUME NEW k \in DOMAIN old, NEW b \in DOMAIN old[k] PROVE HadBit(c, id, k, b, old[k][b])
  BY <1>2 DEF HadBit, Has
<1>4. ASSUME NEW k \in named
      PROVE  /\ Reported(m)
             /\ \A b \in DOMAIN Index(Numbered(k).bits) :
                  SaysBit(m.world, id, k, b, Index(Numbered(k).bits)[b])
  <2>1. \E r \in {regs[i] : i \in DOMAIN regs} : r.number = k OBVIOUS
  <2>2. PICK r \in {regs[i] : i \in DOMAIN regs} : r = Numbered(k) /\ r.number = k BY <2>1
  <2>3. PICK i \in DOMAIN regs : r = regs[i] BY <2>2
  <2>4. Reported(m) BY <2>3
  <2>5. regs = Worlds[m.world].regs[id] BY <2>4
  <2>6. r.bits \in Seq(STRING) BY <2>3, <2>4, <2>5, WorldsAssumption
  <2>7. ASSUME NEW b \in DOMAIN Index(r.bits)
        PROVE  Index(r.bits)[b] + 1 \in DOMAIN r.bits /\ r.bits[Index(r.bits)[b] + 1] = b
    BY <2>6, IndexPlaces
  <2> HIDE DEF regs, Numbered
  <2>8. ASSUME NEW b \in DOMAIN Index(r.bits) PROVE SaysBit(m.world, id, k, b, Index(r.bits)[b])
    BY <2>2, <2>3, <2>5, <2>7 DEF SaysBit
  <2> QED BY <2>2, <2>4, <2>8
<1> HIDE DEF old, named, Numbered
<1>5. ASSUME NEW k \in DOMAIN B, NEW b \in DOMAIN B[k]
      PROVE  \/ HadBit(c, id, k, b, B[k][b])
             \/ Reported(m) /\ SaysBit(m.world, id, k, b, B[k][b])
  <2>1. /\ DOMAIN B = DOMAIN bits \cup DOMAIN old
        /\ \A x \in DOMAIN bits : B[x] = bits[x]
        /\ \A x \in DOMAIN old : x \notin DOMAIN bits => B[x] = old[x]
    <3> HIDE DEF bits
    <3>1. /\ DOMAIN Over(bits, old) = DOMAIN bits \cup DOMAIN old
          /\ \A x \in DOMAIN bits : Over(bits, old)[x] = bits[x]
          /\ \A x \in DOMAIN old : x \notin DOMAIN bits => Over(bits, old)[x] = old[x]
      BY OverEntries
    <3> QED BY <3>1
  <2>2. CASE k \in named
    <3>1. B[k] = Over(Index(Numbered(k).bits), kept(k)) BY <2>1, <2>2
    <3> DEFINE f == Index(Numbered(k).bits)
    <3>2. f = Index(Numbered(k).bits) OBVIOUS
    <3> HIDE DEF f
    <3>3. PICK g : g = kept(k) OBVIOUS
    <3>4. B[k] = Over(f, g) BY <3>1, <3>2, <3>3
    <3>5. /\ DOMAIN Over(f, g) = DOMAIN f \cup DOMAIN g
          /\ \A x \in DOMAIN f : Over(f, g)[x] = f[x]
          /\ \A x \in DOMAIN g : x \notin DOMAIN f => Over(f, g)[x] = g[x]
      BY OverEntries
    <3> HIDE DEF B
    <3>6. CASE b \in DOMAIN f
      <4>1. B[k][b] = f[b] BY <3>4, <3>5, <3>6
      <4> QED BY <4>1, <3>2, <3>6, <1>4, <2>2
    <3>7. CASE b \notin DOMAIN f
      <4>1. b \in DOMAIN g /\ B[k][b] = g[b] BY <3>4, <3>5, <3>7
      <4>2. k \in DOMAIN old /\ g = old[k] BY <4>1, <3>3, <1>2 DEF Has
      <4> QED BY <4>1, <4>2, <1>3
    <3> QED BY <3>6, <3>7
  <2>3. CASE k \notin named
    <3>1. DOMAIN bits = named OBVIOUS
    <3> HIDE DEF B, bits
    <3>2. k \in DOMAIN old /\ B[k] = old[k] BY <2>1, <2>3, <3>1
    <3> QED BY <3>2, <1>3
  <2> QED BY <2>2, <2>3
<1> HIDE DEF B
<1> QED BY <1>1, <1>5

\* What stays in the cache is still backed by a report.
LEMMA NodesKept ==
  ASSUME NEW c, NEW d, NEW R, NEW Q, R \subseteq Q, NodesSince(c, R),
         d.node_name_to_id = c.node_name_to_id
  PROVE  NodesSince(d, Q)
  BY DEF NodesSince

LEMMA NumbersKept ==
  ASSUME NEW c, NEW d, NEW R, NEW Q, R \subseteq Q, NumbersSince(c, R),
         d.name_to_number = c.name_to_number
  PROVE  NumbersSince(d, Q)
  BY DEF NumbersSince

LEMMA BitsKept ==
  ASSUME NEW c, NEW d, NEW R, NEW Q, R \subseteq Q, BitsSince(c, R),
         d.bits_name_to_number = c.bits_name_to_number
  PROVE  BitsSince(d, Q)
  BY DEF BitsSince

\* The three refreshes that a report of registers does not concern.
LEMMA OtherRefreshed ==
  ASSUME NEW c, IsCache(c), NEW m, NEW dev
  PROVE  /\ IsCache(refresh_node(c, m)) /\ IsCache(refresh_dev(c, m))
         /\ IsCache(refresh_dev_method(c, dev, m))
         /\ refresh_node(c, m).node_name_to_id
              = IF Reported(m) THEN Worlds[m.world].nodes ELSE Empty
         /\ refresh_dev(c, m).node_name_to_id = c.node_name_to_id
         /\ refresh_dev_method(c, dev, m).node_name_to_id = c.node_name_to_id
         /\ \A d \in {refresh_node(c, m), refresh_dev(c, m), refresh_dev_method(c, dev, m)} :
              d.name_to_number = c.name_to_number /\ d.bits_name_to_number = c.bits_name_to_number
  BY DEF IsCache, refresh_node, refresh_dev, refresh_dev_method

LEMMA RegisterRefreshed ==
  ASSUME NEW c, IsCache(c), NEW id, NEW m
  PROVE  /\ IsCache(refresh_register(c, id, m))
         /\ refresh_register(c, id, m).node_name_to_id = c.node_name_to_id
  BY DEF IsCache, refresh_register

LEMMA RegisterNumbers ==
  ASSUME NEW c, IsCache(c), NEW id, NEW m, NEW R, NEW Q, R \subseteq Q, NumbersSince(c, R),
         Reported(m) => <<"registers", id, m.world>> \in Q
  PROVE  NumbersSince(refresh_register(c, id, m), Q)
<1> DEFINE d == refresh_register(c, id, m)
<1>1. PICK N : /\ d.name_to_number = Put(c.name_to_number, id, N)
               /\ \A x \in DOMAIN N : Reported(m) /\ SaysNumber(m.world, id, x, N[x])
  BY NumbersReported
<1> HIDE DEF d
<1>2. PICK map : map = c.name_to_number OBVIOUS
<1>3. With(map, id, N, Put(map, id, N))
  BY PutEntries
<1>4. ASSUME NEW n \in DOMAIN d.name_to_number, NEW x \in DOMAIN d.name_to_number[n]
      PROVE  \E s \in Q : /\ s[1] = "registers" /\ s[2] = n
                          /\ SaysNumber(s[3], n, x, d.name_to_number[n][x])
  <2>1. CASE n = id
    <3>1. d.name_to_number[n] = N BY <1>1, <1>2, <1>3, <2>1 DEF With
    <3>2. Reported(m) /\ SaysNumber(m.world, id, x, N[x]) BY <1>1, <3>1
    <3>3. <<"registers", id, m.world>> \in Q BY <3>2
    <3> QED BY <2>1, <3>1, <3>2, <3>3
  <2>2. CASE n # id
    <3>1. n \in DOMAIN map /\ d.name_to_number[n] = map[n] BY <1>1, <1>2, <1>3, <2>2 DEF With
    <3> QED BY <3>1, <1>2 DEF NumbersSince
  <2> QED BY <2>1, <2>2
<1>5. NumbersSince(d, Q) BY <1>4 DEF NumbersSince
<1> QED BY <1>5 DEF d

LEMMA RegisterBits ==
  ASSUME NEW c, IsCache(c), NEW id, NEW m, NEW R, NEW Q, R \subseteq Q, BitsSince(c, R),
         Reported(m) => m.world \in 1..Len(Worlds) /\ id \in DOMAIN Worlds[m.world].regs,
         Reported(m) => <<"registers", id, m.world>> \in Q
  PROVE  BitsSince(refresh_register(c, id, m), Q)
<1> DEFINE d == refresh_register(c, id, m)
<1>1. CASE d.bits_name_to_number = c.bits_name_to_number BY <1>1, BitsKept
<1>2. CASE d.bits_name_to_number # c.bits_name_to_number
  <2>1. PICK B : /\ d.bits_name_to_number = Put(c.bits_name_to_number, id, B)
                 /\ \A k \in DOMAIN B : \A b \in DOMAIN B[k] :
                      \/ HadBit(c, id, k, b, B[k][b])
                      \/ Reported(m) /\ SaysBit(m.world, id, k, b, B[k][b])
    BY <1>2, BitsReported
  <2> HIDE DEF d
  <2>2. PICK map : map = c.bits_name_to_number OBVIOUS
  <2>3. With(map, id, B, Put(map, id, B))
    BY PutEntries
  <2>4. ASSUME NEW n \in DOMAIN d.bits_name_to_number, NEW k \in DOMAIN d.bits_name_to_number[n],
               NEW b \in DOMAIN d.bits_name_to_number[n][k]
        PROVE  \E s \in Q : /\ s[1] = "registers" /\ s[2] = n
                            /\ SaysBit(s[3], n, k, b, d.bits_name_to_number[n][k][b])
    <3>1. CASE n = id
      <4>1. d.bits_name_to_number[n] = B BY <2>1, <2>2, <2>3, <3>1 DEF With
      <4>2. CASE HadBit(c, id, k, b, B[k][b])
        <5>1. \E s \in R : /\ s[1] = "registers" /\ s[2] = id
                           /\ SaysBit(s[3], id, k, b, c.bits_name_to_number[id][k][b])
          BY <4>2 DEF HadBit, BitsSince
        <5> QED BY <5>1, <4>1, <4>2, <3>1 DEF HadBit
      <4>3. CASE Reported(m) /\ SaysBit(m.world, id, k, b, B[k][b])
        <5>1. <<"registers", id, m.world>> \in Q BY <4>3
        <5> QED BY <5>1, <4>1, <4>3, <3>1
      <4> QED BY <4>1, <4>2, <4>3, <2>1
    <3>2. CASE n # id
      <4>1. n \in DOMAIN map /\ d.bits_name_to_number[n] = map[n] BY <2>1, <2>2, <2>3, <3>2 DEF With
      <4> QED BY <4>1, <2>2 DEF BitsSince
    <3> QED BY <3>1, <3>2
  <2>5. BitsSince(d, Q) BY <2>4 DEF BitsSince
  <2> QED BY <2>5 DEF d
<1> QED BY <1>1, <1>2

LEMMA CacheSame == ASSUME CacheInv, UNCHANGED <<cache, since>> PROVE CacheInv'
<1>1. IsCache(cache') /\ NodesSince(cache', since') /\ NumbersSince(cache', since')
      /\ BitsSince(cache', since')
  BY CacheParts DEF CacheInv
<1> QED BY <1>1, CacheSaid DEF CacheInv

LEMMA CacheRefreshed ==
  ASSUME CallInv, CacheInv, NEW what \in DOMAIN MethodOf, Refreshed(what)
  PROVE  CacheInv'
<1> DEFINE id == line.node.num
<1>1. Answered(what) /\ pc = "recv" /\ waiting.what = what /\ msg # EAGAIN
  BY DEF Refreshed, Answered, Look
<1>2. CASE UNCHANGED <<cache, line, since>> BY <1>2, CacheSame
<1>3. CASE /\ ~(msg.kind \in {"closed", "invalid"})
           /\ cache' = CASE what = "nodes"     -> refresh_node(cache, msg)
                         [] what = "registers" -> refresh_register(cache, id, msg)
                         [] what = "devs"      -> refresh_dev(cache, msg)
                         [] what = "methods"   -> refresh_dev_method(cache, line.dev, msg)
           /\ since' = IF Reported(msg) THEN since \cup {<<what, id, msg.world>>} ELSE since
  <2>1. msg # Closed BY <1>3 DEF Closed, Nothing
  <2>2. Answers(msg) BY <1>1, <2>1 DEF CallInv, Pending
  <2>3. msg.world \in 1..Len(Worlds) BY <2>2 DEF Answers
  <2>4. what = "registers" /\ Reported(msg) => id \in DOMAIN Worlds[msg.world].regs
    BY <2>2, <1>1 DEF Answers, Reported
  <2>5. since \subseteq since' /\ (Reported(msg) => <<what, id, msg.world>> \in since') BY <1>3
  <2>6. /\ IsCache(cache) /\ NodesSince(cache, since) /\ NumbersSince(cache, since)
        /\ BitsSince(cache, since)
    BY CacheParts DEF CacheInv
  <2> HIDE DEF id
  <2>7. CASE what = "registers"
    <3>1. cache' = refresh_register(cache, id, msg) BY <1>3, <2>7
    <3>2. IsCache(cache') /\ cache'.node_name_to_id = cache.node_name_to_id
      BY <3>1, <2>6, RegisterRefreshed
    <3>3. NodesSince(cache', since') BY <2>5, <2>6, <3>2, NodesKept
    <3>4. NumbersSince(cache', since') BY <2>5, <2>6, <2>7, <3>1, RegisterNumbers
    <3>5. BitsSince(cache', since') BY <2>3, <2>4, <2>5, <2>6, <2>7, <3>1, RegisterBits
    <3> QED BY <3>2, <3>3, <3>4, <3>5, CacheSaid DEF CacheInv
  <2>8. CASE what # "registers"
    <3>1. \/ what = "nodes" /\ cache' = refresh_node(cache, msg)
          \/ what = "devs" /\ cache' = refresh_dev(cache, msg)
          \/ what = "methods" /\ cache' = refresh_dev_method(cache, line.dev, msg)
      BY <1>3, <2>8 DEF MethodOf
    <3>2. /\ IsCache(cache') /\ cache'.name_to_number = cache.name_to_number
          /\ cache'.bits_name_to_number = cache.bits_name_to_number
      BY <3>1, <2>6, OtherRefreshed
    <3>3. NumbersSince(cache', since') BY <2>5, <2>6, <3>2, NumbersKept
    <3>4. BitsSince(cache', since') BY <2>5, <2>6, <3>2, BitsKept
    <3>5. NodesSince(cache', since')
      <4>1. CASE what # "nodes"
        <5>1. cache'.node_name_to_id = cache.node_name_to_id BY <3>1, <4>1, <2>6, OtherRefreshed
        <5> QED BY <5>1, <2>5, <2>6, NodesKept
      <4>2. CASE what = "nodes"
        <5>1. cache'.node_name_to_id = IF Reported(msg) THEN Worlds[msg.world].nodes ELSE Empty
          BY <3>1, <4>2, <2>6, OtherRefreshed
        <5>2. CASE ~Reported(msg)
          <6>1. DOMAIN cache'.node_name_to_id = {} BY <5>1, <5>2 DEF Empty
          <6> QED BY <6>1 DEF NodesSince
        <5>3. CASE Reported(msg)
          <6>1. <<"nodes", id, msg.world>> \in since' BY <2>5, <4>2, <5>3
          <6>2. cache'.node_name_to_id = Worlds[msg.world].nodes BY <5>1, <5>3
          <6> QED BY <6>1, <6>2 DEF NodesSince, Has
        <5> QED BY <5>2, <5>3
      <4> QED BY <4>1, <4>2
    <3> QED BY <3>2, <3>3, <3>4, <3>5, CacheSaid DEF CacheInv
  <2> QED BY <2>7, <2>8
<1> QED BY <1>2, <1>3 DEF Refreshed

LEMMA CacheEmpty ==
  /\ IsCache(NoCache)
  /\ \A R : NodesSince(NoCache, R) /\ NumbersSince(NoCache, R) /\ BitsSince(NoCache, R)
<1>1. DOMAIN Empty = {} BY DEF Empty
<1>2. /\ NoCache.node_name_to_id = Empty /\ NoCache.name_to_number = Empty
      /\ NoCache.bits_name_to_number = Empty /\ IsCache(NoCache)
  BY DEF NoCache, IsCache
<1> QED BY <1>1, <1>2 DEF NodesSince, NumbersSince, BitsSince

LEMMA CacheStep == ASSUME CallInv, CacheInv, [Next]_clientVars PROVE CacheInv'
<1>1. CASE \E what \in DOMAIN MethodOf : Refreshed(what) BY <1>1, CacheRefreshed
<1>2. CASE Execute /\ cache' = NoCache
  <2>1. /\ IsCache(cache') /\ NodesSince(cache', since') /\ NumbersSince(cache', since')
        /\ BitsSince(cache', since')
    BY <1>2, CacheEmpty
  <2> QED BY <2>1, CacheSaid DEF CacheInv
<1>3. CASE UNCHANGED <<cache, since>> BY <1>3, CacheSame
<1>4. Execute => UNCHANGED <<cache, since>> \/ cache' = NoCache BY DEF Execute, clear
<1>5. ParseCommandLineArg \/ LoadConfiguration \/ ReadIhex \/ Open \/ Receive \/ Authenticated
        \/ Subscribe \/ AskDaemon \/ Resolve \/ CommandAnswered \/ StatsAsk
        \/ StatsAnswered("get_version") \/ StatsAnswered("get_stats")
      => UNCHANGED <<cache, since>>
  BY DEF ParseCommandLineArg, LoadConfiguration, ReadIhex, Open, Receive, Authenticated, Subscribe,
     AskDaemon, Resolve, CommandAnswered, StatsAsk, StatsAnswered, cliVars
<1>6. SendsOnce \/ SendExits \/ NoFrameReceived \/ Sniff \/ UploadBegins \/ Upload
        \/ (\E l \in Lines : TypeLine(l)) \/ EndOfInput \/ Serve \/ WorldChanges \/ DaemonStops
      => UNCHANGED <<cache, since>>
  BY DEF SendsOnce, SendExits, NoFrameReceived, Sniff, UploadBegins, Upload, TypeLine, EndOfInput,
     Serve, WorldChanges, DaemonStops, cliVars
<1>7. NodeStep \/ NodeFails \/ (\E f \in Noise : OtherNode(f)) \/ UNCHANGED clientVars
      => UNCHANGED <<cache, since>>
  BY DEF NodeStep, NodeFails, OtherNode, SilentVars, clientVars, cliVars
<1> QED BY <1>1, <1>2, <1>3, <1>4, <1>5, <1>6, <1>7 DEF Next, Program

\* The ids and numbers that h9cli puts for the names typed are those the daemon
\* has reported for that node since the last "cli clear_cache".
THEOREM CacheSafe == Spec => []CacheSinceClear
<1>1. ClientInit => CacheInv
  <2>1. ClientInit => cache = NoCache BY DEF ClientInit
  <2> QED BY <2>1, CacheEmpty, CacheParts DEF CacheInv
<1>2. TcpInv /\ CallInv /\ CacheInv /\ [Next]_clientVars => CacheInv' BY CacheStep
<1>3. CacheInv => CacheSinceClear BY DEF CacheInv
<1> QED BY <1>1, <1>2, <1>3, StreamSafe, CallsPaired, PTL DEF Spec

-----------------------------------------------------------------------------
(* Induction over the natural numbers, for a set: no operator is passed.     *)

LEMMA Smallest ==
  ASSUME NEW T, T \subseteq Nat, T # {}
  PROVE  \E x \in T : \A y \in Nat : y < x => y \notin T
<1>1. PICK x \in T : \A y \in T : ~(<<y, x>> \in OpToRel(<, Nat))
  BY NatLessThanWellFounded, WFMin
<1>2. \A y \in Nat : y < x => y \notin T BY <1>1 DEF OpToRel
<1> QED BY <1>2

LEMMA SetInduction ==
  ASSUME NEW S, 0 \in S, \A n \in Nat : n \in S => n + 1 \in S
  PROVE  Nat \subseteq S
<1> SUFFICES ASSUME Nat \ S # {} PROVE FALSE OBVIOUS
<1>1. PICK x \in Nat \ S : \A y \in Nat : y < x => y \notin Nat \ S BY Smallest
<1>2. x - 1 \in Nat /\ x - 1 < x OBVIOUS
<1>3. x - 1 \in S BY <1>1, <1>2
<1> QED BY <1>3, <1>2

-----------------------------------------------------------------------------
(* The Intel HEX reader.                                                     *)

Reads(lines, n, read) ==
  read = [i \in 0..n |-> IF i = 0 THEN NoData ELSE ReadLine(read[i - 1], lines[i])]

\* Reading a file line by line gives a result after every line.
LEMMA ReadExists ==
  ASSUME NEW lines, NEW n \in Nat PROVE \E read : Reads(lines, n, read)
<1> DEFINE S == {m \in Nat : \E read : Reads(lines, m, read)}
<1>1. 0 \in S
  <2> DEFINE r == [i \in 0..0 |-> NoData]
  <2>1. r = [i \in 0..0 |-> IF i = 0 THEN NoData ELSE ReadLine(r[i - 1], lines[i])] OBVIOUS
  <2> HIDE DEF r
  <2>2. Reads(lines, 0, r) BY <2>1 DEF Reads
  <2> QED BY <2>2
<1>2. ASSUME NEW m \in Nat, m \in S PROVE m + 1 \in S
  <2>1. PICK r : Reads(lines, m, r) BY <1>2
  <2>2. r = [i \in 0..m |-> IF i = 0 THEN NoData ELSE ReadLine(r[i - 1], lines[i])] BY <2>1 DEF Reads
  <2> DEFINE q == [i \in 0..m + 1 |-> IF i <= m THEN r[i] ELSE ReadLine(r[m], lines[m + 1])]
  <2>3. \A i \in 0..m : q[i] = r[i] OBVIOUS
  <2>4. q[m + 1] = ReadLine(r[m], lines[m + 1]) OBVIOUS
  <2>5. q = [i \in 0..m + 1 |-> q[i]] OBVIOUS
  <2> HIDE DEF q
  <2>6. ASSUME NEW i \in 0..m + 1
        PROVE  q[i] = IF i = 0 THEN NoData ELSE ReadLine(q[i - 1], lines[i])
    <3>1. CASE i = 0
      <4>1. q[0] = r[0] /\ r[0] = NoData BY <2>2, <2>3
      <4> QED BY <3>1, <4>1
    <3>2. CASE i \in 1..m
      <4>1. i - 1 \in 0..m /\ i \in 0..m BY <3>2
      <4>2. r[i] = ReadLine(r[i - 1], lines[i]) BY <3>2, <4>1, <2>2
      <4> QED BY <3>2, <4>1, <4>2, <2>3
    <3>3. CASE i = m + 1
      <4>1. m \in 0..m /\ m + 1 - 1 = m /\ i # 0 BY <3>3
      <4> QED BY <3>3, <4>1, <2>3, <2>4
    <3> QED BY <3>1, <3>2, <3>3
  <2>7. q = [i \in 0..m + 1 |-> IF i = 0 THEN NoData ELSE ReadLine(q[i - 1], lines[i])]
    BY <2>5, <2>6
  <2>8. Reads(lines, m + 1, q) BY <2>7 DEF Reads
  <2> QED BY <2>8
<1> HIDE DEF S
<1>3. Nat \subseteq S BY <1>1, <1>2, SetInduction
<1> QED BY <1>3 DEF S

LEMMA ReadEach ==
  ASSUME NEW lines, Len(lines) \in Nat
  PROVE  /\ ReadLines(lines)[0] = NoData
         /\ \A n \in 1..Len(lines) :
              ReadLines(lines)[n] = ReadLine(ReadLines(lines)[n - 1], lines[n])
<1> DEFINE R == ReadLines(lines)
<1>1. Reads(lines, Len(lines), R)
  <2>1. R = CHOOSE read : Reads(lines, Len(lines), read) BY DEF ReadLines, Reads
  <2>2. \E read : Reads(lines, Len(lines), read) BY ReadExists
  <2> QED BY <2>1, <2>2
<1> HIDE DEF R
<1>2. R = [i \in 0..Len(lines) |-> IF i = 0 THEN NoData ELSE ReadLine(R[i - 1], lines[i])]
  BY <1>1 DEF Reads
<1>3. R[0] = NoData BY <1>2
<1>4. \A n \in 1..Len(lines) : R[n] = ReadLine(R[n - 1], lines[n]) BY <1>2
<1> QED BY <1>3, <1>4 DEF R

-----------------------------------------------------------------------------
(* Addresses.                                                                *)

LEMMA LineTypes ==
  ASSUME NEW lines, IsIhex(lines)
  PROVE  /\ Len(lines) \in Nat /\ DOMAIN lines = 1..Len(lines)
         /\ \A i \in 1..Len(lines) :
              /\ lines[i].address \in 0..SEGMENT - 1 /\ lines[i].data \in Seq(Nat)
              /\ Len(lines[i].data) \in Nat /\ Len(lines[i].data) < SEGMENT
              /\ lines[i].type = 4 => Base(lines[i]) \in Nat
<1>1. lines \in Seq(IhexLines) BY DEF IsIhex
<1>2. Len(lines) \in Nat /\ DOMAIN lines = 1..Len(lines) BY <1>1, LenProperties
<1>3. ASSUME NEW i \in 1..Len(lines)
      PROVE /\ lines[i].address \in 0..SEGMENT - 1 /\ lines[i].data \in Seq(Nat)
            /\ Len(lines[i].data) \in Nat /\ Len(lines[i].data) < SEGMENT
            /\ lines[i].type = 4 => Base(lines[i]) \in Nat
  <2>0. lines[i] \in IhexLines BY <1>1, <1>2, ElementOfSeq
  <2>1. /\ lines[i].type \in 0..255 /\ lines[i].address \in 0..SEGMENT - 1
        /\ lines[i].data \in Seq(0..255)
    BY <2>0, SMT DEF IhexLines
  <2>2. lines[i].data \in Seq(Nat)
    <3> DEFINE n == Len(lines[i].data)
    <3>1. n \in Nat /\ lines[i].data \in [1..n -> 0..255] BY <2>1, LenProperties
    <3>2. 0..255 \subseteq Nat OBVIOUS
    <3>3. lines[i].data \in [1..n -> Nat] BY <3>1, <3>2, Zenon
    <3> QED BY <3>1, <3>3, SeqDef
  <2>3. Len(lines[i].data) \in Nat BY <2>2, LenProperties
  <2>4. Len(lines[i].data) < SEGMENT
    <3>1. Len(lines[i].data) <= 255 BY <1>2 DEF IsIhex
    <3>2. SEGMENT \in Nat /\ 255 < SEGMENT BY SMT DEF SEGMENT
    <3> QED BY <3>1, <3>2, <2>3
  <2>5. ASSUME lines[i].type = 4 PROVE Base(lines[i]) \in Nat
    <3>1. Len(lines[i].data) = 2 BY <2>5, <1>2 DEF IsIhex
    <3>2. 1 \in 1..Len(lines[i].data) /\ 2 \in 1..Len(lines[i].data) BY <3>1
    <3>3. lines[i].data[1] \in Nat /\ lines[i].data[2] \in Nat BY <2>2, <3>2, ElementOfSeq
    <3>4. SEGMENT \in Nat BY SMT DEF SEGMENT
    <3>5. \A hi, lo \in Nat : (hi * 256 + lo) * SEGMENT \in Nat
      <4> TAKE hi \in Nat, lo \in Nat
      <4>1. PICK x \in Nat : x = hi * 256 + lo OBVIOUS
      <4>2. x * SEGMENT \in Nat BY <3>4
      <4> QED BY <4>1, <4>2
    <3> QED BY <3>3, <3>5 DEF Base
  <2> QED BY <2>1, <2>2, <2>3, <2>4, <2>5
<1> QED BY <1>2, <1>3

\* The files whose addresses the reader takes: without segment addresses.
Plain(lines) == InOrder(lines) /\ ~Segmented(lines)
NoSegments(lines) ==
  /\ Len(lines) \in Nat /\ \A i \in 1..Len(lines) : lines[i].type # 2
PastProgram(lines, j) == lines[j].type = 4 /\ Base(lines[j]) > SEGMENT

LEMMA SegmentsNone ==
  ASSUME NEW lines, IsIhex(lines), ~Segmented(lines)
  PROVE  /\ NoSegments(lines)
         /\ \A j \in 1..Len(lines) : Beyond(lines[j]) <=> PastProgram(lines, j)
<1>1. Len(lines) \in Nat /\ DOMAIN lines = 1..Len(lines) BY LineTypes
<1>2. NoSegments(lines) BY <1>1 DEF NoSegments, Segmented
<1>3. \A j \in 1..Len(lines) : Beyond(lines[j]) <=> PastProgram(lines, j)
  BY <1>2 DEF NoSegments, Beyond, PastProgram
<1> QED BY <1>2, <1>3

LEMMA ExtendedNone == ASSUME NEW lines PROVE Extended(lines, 0) = 0
  BY DEF Extended

LEMMA ExtendedNext ==
  ASSUME NEW lines, NoSegments(lines), NEW n \in Nat, n + 1 <= Len(lines)
  PROVE  Extended(lines, n + 1)
           = IF lines[n + 1].type = 4 THEN Base(lines[n + 1]) ELSE Extended(lines, n)
<1> DEFINE bases(i) == {j \in 1..i : lines[j].type \in {2, 4}}
<1>0. lines[n + 1].type # 2 BY DEF NoSegments
<1>1. CASE lines[n + 1].type = 4
  <2>1. n + 1 \in bases(n + 1) /\ \A y \in bases(n + 1) : n + 1 >= y BY <1>1
  <2>2. \A x \in bases(n + 1) : (\A y \in bases(n + 1) : x >= y) => x = n + 1 BY <2>1
  <2>3. Max(bases(n + 1)) = n + 1 BY <2>1, <2>2 DEF Max
  <2>4. RecordBase(lines[n + 1]) = Base(lines[n + 1]) BY <1>1 DEF RecordBase
  <2> QED BY <2>1, <2>3, <2>4, <1>1 DEF Extended
<1>2. CASE lines[n + 1].type # 4
  <2>1. bases(n + 1) = bases(n) BY <1>0, <1>2
  <2> QED BY <2>1, <1>2 DEF Extended
<1> QED BY <1>1, <1>2

\* The extended address behind a line, and of a line of the program.
LEMMA ExtendedIs ==
  ASSUME NEW lines, IsIhex(lines), ~Segmented(lines), NEW n \in 0..Len(lines)
  PROVE  \/ Extended(lines, n) = 0
         \/ \E j \in 1..n : lines[j].type = 4 /\ Extended(lines, n) = Base(lines[j])
<1> DEFINE S == {m \in Nat : m <= Len(lines) =>
                   \/ Extended(lines, m) = 0
                   \/ \E j \in 1..m : lines[j].type = 4 /\ Extended(lines, m) = Base(lines[j])}
<1>1. 0 \in S BY ExtendedNone
<1>2. ASSUME NEW m \in Nat, m \in S PROVE m + 1 \in S
  <2>1. Len(lines) \in Nat /\ NoSegments(lines) BY SegmentsNone DEF NoSegments
  <2> SUFFICES ASSUME m + 1 <= Len(lines)
               PROVE  \/ Extended(lines, m + 1) = 0
                      \/ \E j \in 1..m + 1 : /\ lines[j].type = 4
                                             /\ Extended(lines, m + 1) = Base(lines[j])
    OBVIOUS
  <2>2. CASE lines[m + 1].type = 4
    <3>1. Extended(lines, m + 1) = Base(lines[m + 1]) BY <2>1, <2>2, ExtendedNext
    <3>2. m + 1 \in 1..m + 1 OBVIOUS
    <3> QED BY <2>2, <3>1, <3>2
  <2>3. CASE lines[m + 1].type # 4
    <3>1. Extended(lines, m + 1) = Extended(lines, m) BY <2>1, <2>3, ExtendedNext
    <3>2. m <= Len(lines) BY <2>1
    <3>3. \A j \in 1..m : j \in 1..m + 1 OBVIOUS
    <3> QED BY <1>2, <3>1, <3>2, <3>3
  <2> QED BY <2>2, <2>3
<1> HIDE DEF S
<1>3. Nat \subseteq S BY <1>1, <1>2, SetInduction
<1>4. Len(lines) \in Nat BY LineTypes
<1>5. n \in Nat /\ n <= Len(lines) BY <1>4
<1> QED BY <1>3, <1>5 DEF S

LEMMA ProgramAddress ==
  ASSUME NEW lines, IsIhex(lines), ~Segmented(lines), NEW i \in ProgramLines(lines)
  PROVE  /\ i \in 1..Len(lines) /\ lines[i].type = 0
         /\ Extended(lines, i) \in 0..SEGMENT
         /\ Address(lines, i) \in Nat /\ Address(lines, i) < 2 * SEGMENT
<1>1. /\ i \in 1..Len(lines) /\ lines[i].type = 0
      /\ \A j \in 1..i : ~Beyond(lines[j])
  BY LineTypes DEF ProgramLines
<1>2. Len(lines) \in Nat BY LineTypes
<1>3. i \in 0..Len(lines) /\ \A j \in 1..i : j \in 1..Len(lines) BY <1>1, <1>2
<1>4. SEGMENT \in Nat BY SMT DEF SEGMENT
<1>5. Extended(lines, i) \in 0..SEGMENT
  <2>1. CASE Extended(lines, i) = 0 BY <2>1, <1>4
  <2>2. CASE \E j \in 1..i : lines[j].type = 4 /\ Extended(lines, i) = Base(lines[j])
    <3>1. PICK j \in 1..i : lines[j].type = 4 /\ Extended(lines, i) = Base(lines[j]) BY <2>2
    <3>2. ~PastProgram(lines, j) BY <1>1, <1>3, SegmentsNone
    <3>3. Base(lines[j]) \in Nat /\ Base(lines[j]) <= SEGMENT
      BY <3>1, <3>2, <1>3, <1>4, LineTypes DEF PastProgram
    <3> QED BY <3>1, <3>3, <1>4
  <2> QED BY <2>1, <2>2, <1>3, ExtendedIs
<1>6. lines[i].address \in 0..SEGMENT - 1 BY <1>1, LineTypes
<1>7. Address(lines, i) \in Nat /\ Address(lines, i) < 2 * SEGMENT
  BY <1>4, <1>5, <1>6 DEF Address
<1> QED BY <1>1, <1>5, <1>7

-----------------------------------------------------------------------------
(* The image after n lines of a file in order of addresses: it has the bytes *)
(* of the program's lines read, at their addresses, and is shorter than      *)
(* where the next one begins.                                                *)

DataOf(lines, i) == lines[i].data

ReadTypes(acc) ==
  /\ {"fw", "length", "extended", "stop"} \subseteq DOMAIN acc
  /\ acc.length \in Nat /\ acc.length < 3 * SEGMENT
ReadAddress(lines, n, acc) ==
  /\ acc.stop <=> \E j \in 1..n : PastProgram(lines, j)
  /\ ~acc.stop => acc.extended = Extended(lines, n)
  /\ \A j \in ProgramLines(lines) : j > n => acc.length <= Address(lines, j)
ReadBytes(lines, n, acc) ==
  /\ \A i \in ProgramLines(lines) : i <= n =>
       \A x \in 1..Len(DataOf(lines, i)) :
         /\ Address(lines, i) + x - 1 \in DOMAIN acc.fw
         /\ acc.fw[Address(lines, i) + x - 1] = DataOf(lines, i)[x]
  /\ \A a \in DOMAIN acc.fw :
       /\ a \in Nat /\ a < acc.length
       /\ \E i \in ProgramLines(lines) : \E x \in 1..Len(DataOf(lines, i)) :
            a = Address(lines, i) + x - 1
ReadOK(lines, n, acc) ==
  ReadTypes(acc) /\ ReadAddress(lines, n, acc) /\ ReadBytes(lines, n, acc)

LEMMA ReadNone ==
  ASSUME NEW lines, IsIhex(lines), ~Segmented(lines) PROVE ReadOK(lines, 0, NoData)
<1>1. ReadTypes(NoData)
  <2>1. SEGMENT > 0 /\ SEGMENT \in Nat BY SMT DEF SEGMENT
  <2> QED BY <2>1 DEF ReadTypes, NoData
<1>2. ReadAddress(lines, 0, NoData)
  <2>1. \A j \in ProgramLines(lines) : Address(lines, j) \in Nat BY ProgramAddress
  <2> QED BY <2>1, ExtendedNone DEF ReadAddress, NoData
<1>3. ReadBytes(lines, 0, NoData)
  <2>1. \A j \in ProgramLines(lines) : ~(j <= 0)
    <3>1. \A j \in ProgramLines(lines) : j \in 1..Len(lines) BY ProgramAddress
    <3>2. Len(lines) \in Nat BY LineTypes
    <3> QED BY <3>1, <3>2
  <2>2. DOMAIN NoData.fw = {} BY DEF NoData
  <2> QED BY <2>1, <2>2 DEF ReadBytes
<1> QED BY <1>1, <1>2, <1>3 DEF ReadOK

\* Whether the next line is one of the program's.
LEMMA ProgramNext ==
  ASSUME NEW lines, IsIhex(lines), ~Segmented(lines), NEW n \in Nat, n + 1 <= Len(lines), NEW acc,
         ReadAddress(lines, n, acc)
  PROVE  n + 1 \in ProgramLines(lines) <=> lines[n + 1].type = 0 /\ ~acc.stop
<1>1. Len(lines) \in Nat /\ DOMAIN lines = 1..Len(lines) BY LineTypes
<1>2. \A j \in 1..n + 1 : j \in 1..Len(lines) BY <1>1
<1>3. \A j \in 1..n + 1 : Beyond(lines[j]) <=> PastProgram(lines, j) BY <1>2, SegmentsNone
<1>4. n + 1 \in ProgramLines(lines)
        <=> lines[n + 1].type = 0 /\ \A j \in 1..n + 1 : ~PastProgram(lines, j)
  <2>1. n + 1 \in DOMAIN lines BY <1>1
  <2> QED BY <2>1, <1>3 DEF ProgramLines
<1>5. lines[n + 1].type = 0
        => ((\A j \in 1..n + 1 : ~PastProgram(lines, j)) <=> (\A j \in 1..n : ~PastProgram(lines, j)))
  <2>1. lines[n + 1].type = 0 => ~PastProgram(lines, n + 1) BY DEF PastProgram
  <2>2. \A j \in 1..n + 1 : j \in 1..n \/ j = n + 1 OBVIOUS
  <2>3. \A j \in 1..n : j \in 1..n + 1 OBVIOUS
  <2> QED BY <2>1, <2>2, <2>3
<1> QED BY <1>4, <1>5 DEF ReadAddress

\* A line that is no data, or after the program.
LEMMA ReadPast ==
  ASSUME NEW lines, IsIhex(lines), ~Segmented(lines), NEW n \in Nat, n + 1 <= Len(lines), NEW acc, NEW next,
         ReadOK(lines, n, acc), n + 1 \notin ProgramLines(lines),
         {"fw", "length", "extended", "stop"} \subseteq DOMAIN next,
         next.fw = acc.fw, next.length = acc.length,
         next.stop <=> acc.stop \/ PastProgram(lines, n + 1),
         ~next.stop => next.extended = Extended(lines, n + 1)
  PROVE  ReadOK(lines, n + 1, next)
<1>1. ReadTypes(next) BY DEF ReadOK, ReadTypes
<1>2. Len(lines) \in Nat /\ \A j \in ProgramLines(lines) : j \in 1..Len(lines)
  BY LineTypes, ProgramAddress
<1>3. \A j \in ProgramLines(lines) : /\ j > n + 1 => j > n
                                     /\ j <= n + 1 => j <= n
  BY <1>2
<1>4. ReadAddress(lines, n + 1, next)
  <2>1. (\E j \in 1..n + 1 : PastProgram(lines, j)) <=> (\E j \in 1..n : PastProgram(lines, j)) \/ PastProgram(lines, n + 1)
    <3>1. \A j \in 1..n + 1 : j \in 1..n \/ j = n + 1 OBVIOUS
    <3>2. \A j \in 1..n : j \in 1..n + 1 OBVIOUS
    <3>3. n + 1 \in 1..n + 1 OBVIOUS
    <3> QED BY <3>1, <3>2, <3>3
  <2> QED BY <2>1, <1>3 DEF ReadOK, ReadAddress
<1>5. ReadBytes(lines, n + 1, next) BY <1>3 DEF ReadOK, ReadBytes
<1> QED BY <1>1, <1>4, <1>5 DEF ReadOK

LEMMA PlacedBytes ==
  ASSUME NEW data, Len(data) \in Nat, NEW at \in Nat
  PROVE  /\ DOMAIN Placed(data, at) = at..at + Len(data) - 1
         /\ \A x \in 1..Len(data) : /\ at + x - 1 \in at..at + Len(data) - 1
                                    /\ Placed(data, at)[at + x - 1] = data[x]
<1>1. DOMAIN Placed(data, at) = at..at + Len(data) - 1 BY DEF Placed
<1>2. ASSUME NEW x \in 1..Len(data)
      PROVE  at + x - 1 \in at..at + Len(data) - 1 /\ Placed(data, at)[at + x - 1] = data[x]
  <2>1. PICK a : a = at + x - 1 OBVIOUS
  <2>2. a \in at..at + Len(data) - 1 /\ a - at + 1 = x BY <2>1
  <2>3. Placed(data, at)[a] = data[a - at + 1] BY <2>2 DEF Placed
  <2> QED BY <2>1, <2>2, <2>3
<1> QED BY <1>1, <1>2

\* A line of the program.
LEMMA ReadProgramLine ==
  ASSUME NEW lines, IsIhex(lines), Plain(lines), NEW n \in Nat, n + 1 <= Len(lines), NEW acc,
         ReadOK(lines, n, acc), n + 1 \in ProgramLines(lines), ~acc.stop
  PROVE  ReadOK(lines, n + 1, ReadLine(acc, lines[n + 1]))
<1>0. NoSegments(lines) /\ ~Segmented(lines) BY SegmentsNone DEF Plain
<1> DEFINE rec == lines[n + 1]
           at == Address(lines, n + 1)
           size == Len(rec.data)
           data == Placed(rec.data, at)
           next == ReadLine(acc, rec)
<1>1. /\ Len(lines) \in Nat /\ n + 1 \in 1..Len(lines) /\ rec.type = 0 /\ rec.crc = TRUE
      /\ \A j \in ProgramLines(lines) : j \in 1..Len(lines)
  BY <1>0, LineTypes, ProgramAddress DEF Plain, InOrder, IsIhex
<1>2. at \in Nat /\ at < 2 * SEGMENT BY <1>0, ProgramAddress
<1>3. size \in Nat /\ size < SEGMENT /\ rec.address \in 0..SEGMENT - 1 BY <1>1, LineTypes
<1>4. SEGMENT \in Nat BY SMT DEF SEGMENT
<1>5. acc.length \in Nat /\ acc.length <= at
  BY DEF ReadOK, ReadTypes, ReadAddress
<1>6. acc.extended + rec.address = at
  <2>1. Extended(lines, n + 1) = Extended(lines, n) BY <1>0, <1>1, ExtendedNext
  <2>2. acc.extended = Extended(lines, n) BY DEF ReadOK, ReadAddress
  <2> QED BY <2>1, <2>2 DEF Address
<1>7. DataAt(acc, acc.extended + rec.address) = at
  <2>1. IF acc.length < at THEN TRUE ELSE acc.length = at BY <1>2, <1>5
  <2> QED BY <1>6, <2>1 DEF DataAt
<1>8. /\ {"fw", "length", "extended", "stop"} \subseteq DOMAIN next
      /\ next.fw = Over(data, acc.fw) /\ next.length = at + size /\ next.stop = FALSE
      /\ next.extended = acc.extended
  <2> DEFINE q(z) == [acc EXCEPT !.fw = Over(Placed(rec.data, z), @),
                                 !.length = IF rec.crc THEN z + Len(rec.data) ELSE 0,
                                 !.stop = ~rec.crc]
  <2>1. next = q(DataAt(acc, acc.extended + rec.address)) BY <1>1 DEF ReadLine
  <2>2. {"fw", "length", "extended", "stop"} \subseteq DOMAIN acc BY DEF ReadOK, ReadTypes
  <2>3. q(at).fw = Over(data, acc.fw) /\ q(at).extended = acc.extended BY <2>2
  <2>4. q(at).length = at + size /\ q(at).stop = FALSE BY <2>2, <1>1
  <2>5. {"fw", "length", "extended", "stop"} \subseteq DOMAIN q(at) BY <2>2
  <2> HIDE DEF q, at, next
  <2>6. next = q(at) BY <1>7, <2>1, Zenon
  <2> QED BY <2>3, <2>4, <2>5, <2>6
<1>9. /\ DOMAIN next.fw = (at..at + size - 1) \cup DOMAIN acc.fw
      /\ \A x \in 1..size : at + x - 1 \in at..at + size - 1 /\ next.fw[at + x - 1] = rec.data[x]
      /\ \A a \in DOMAIN acc.fw : a \notin at..at + size - 1 => next.fw[a] = acc.fw[a]
  <2>1. DOMAIN data = at..at + size - 1 BY <1>2, <1>3, PlacedBytes
  <2>2. \A x \in 1..size : at + x - 1 \in at..at + size - 1 /\ data[at + x - 1] = rec.data[x]
    BY <1>2, <1>3, PlacedBytes
  <2>3. PICK d : d = data OBVIOUS
  <2>4. /\ DOMAIN Over(d, acc.fw) = DOMAIN d \cup DOMAIN acc.fw
        /\ \A x \in DOMAIN d : Over(d, acc.fw)[x] = d[x]
        /\ \A x \in DOMAIN acc.fw : x \notin DOMAIN d => Over(d, acc.fw)[x] = acc.fw[x]
    BY DEF Over, Has
  <2> HIDE DEF data, next, at, size
  <2> QED BY <2>1, <2>2, <2>3, <2>4, <1>8
<1> HIDE DEF next, at, size, rec
<1>10. ReadTypes(next)
  <2>1. at + size \in Nat /\ at + size < 3 * SEGMENT BY <1>2, <1>3, <1>4
  <2> QED BY <2>1, <1>8 DEF ReadTypes
<1>11. ReadAddress(lines, n + 1, next)
  <2>1. next.stop <=> \E j \in 1..n + 1 : PastProgram(lines, j)
    <3>1. \A j \in 1..n : ~PastProgram(lines, j) BY DEF ReadOK, ReadAddress
    <3>2. ~PastProgram(lines, n + 1) BY <1>1 DEF PastProgram, rec
    <3>3. \A j \in 1..n + 1 : j \in 1..n \/ j = n + 1 OBVIOUS
    <3> QED BY <3>1, <3>2, <3>3, <1>8
  <2>2. next.extended = Extended(lines, n + 1)
    <3>1. Extended(lines, n + 1) = Extended(lines, n) BY <1>0, <1>1, ExtendedNext DEF rec
    <3> QED BY <3>1, <1>8 DEF ReadOK, ReadAddress
  <2>3. ASSUME NEW j \in ProgramLines(lines), j > n + 1 PROVE next.length <= Address(lines, j)
    <3>1. n + 1 < j BY <2>3, <1>1
    <3> QED BY <3>1, <1>8 DEF Plain, InOrder, at, size, rec
  <2> QED BY <2>1, <2>2, <2>3 DEF ReadAddress
<1>12. ASSUME NEW i \in ProgramLines(lines), i <= n + 1, NEW x \in 1..Len(DataOf(lines, i))
       PROVE  /\ Address(lines, i) + x - 1 \in DOMAIN next.fw
              /\ next.fw[Address(lines, i) + x - 1] = DataOf(lines, i)[x]
  <2>1. CASE i = n + 1 BY <2>1, <1>9 DEF DataOf, at, size, rec
  <2>2. CASE i <= n
    <3>1. /\ Address(lines, i) + x - 1 \in DOMAIN acc.fw
          /\ acc.fw[Address(lines, i) + x - 1] = DataOf(lines, i)[x]
      BY <2>2 DEF ReadOK, ReadBytes
    <3>2. \A a \in DOMAIN acc.fw : a \in Nat /\ a < acc.length BY DEF ReadOK, ReadBytes
    <3>3. \A a \in DOMAIN acc.fw : a \notin at..at + size - 1 BY <3>2, <1>2, <1>3, <1>5
    <3> QED BY <3>1, <3>3, <1>9
  <2> QED BY <2>1, <2>2, <1>1, <1>12
<1>13. ASSUME NEW a \in DOMAIN next.fw
       PROVE  /\ a \in Nat /\ a < next.length
              /\ \E i \in ProgramLines(lines) : \E x \in 1..Len(DataOf(lines, i)) :
                   a = Address(lines, i) + x - 1
  <2>1. CASE a \in at..at + size - 1
    <3>1. a \in Nat /\ a < at + size /\ a - at + 1 \in 1..size /\ a = at + (a - at + 1) - 1
      BY <2>1, <1>2, <1>3
    <3> QED BY <3>1, <1>8 DEF DataOf, at, size, rec
  <2>2. CASE a \in DOMAIN acc.fw
    <3>1. a \in Nat /\ a < acc.length BY <2>2 DEF ReadOK, ReadBytes
    <3>2. \E i \in ProgramLines(lines) : \E x \in 1..Len(DataOf(lines, i)) :
            a = Address(lines, i) + x - 1
      BY <2>2 DEF ReadOK, ReadBytes
    <3>3. a < next.length BY <3>1, <1>2, <1>3, <1>5, <1>8
    <3> QED BY <3>1, <3>2, <3>3
  <2> QED BY <2>1, <2>2, <1>9
<1>14. ReadBytes(lines, n + 1, next) BY <1>12, <1>13 DEF ReadBytes
<1> QED BY <1>10, <1>11, <1>14 DEF ReadOK, next, rec

LEMMA ReadStep ==
  ASSUME NEW lines, IsIhex(lines), Plain(lines), NEW n \in Nat, n + 1 <= Len(lines), NEW acc,
         ReadOK(lines, n, acc)
  PROVE  ReadOK(lines, n + 1, ReadLine(acc, lines[n + 1]))
<1>0. NoSegments(lines) /\ ~Segmented(lines) BY SegmentsNone DEF Plain
<1> DEFINE rec == lines[n + 1]
           next == ReadLine(acc, rec)
<1>1. rec.crc = TRUE
  <2>1. n + 1 \in DOMAIN lines BY LineTypes
  <2> QED BY <2>1 DEF Plain, InOrder, IsIhex
<1>2. n + 1 \in ProgramLines(lines) <=> rec.type = 0 /\ ~acc.stop
  BY <1>0, ProgramNext DEF ReadOK
<1>3. {"fw", "length", "extended", "stop"} \subseteq DOMAIN acc
  BY DEF ReadOK, ReadTypes
<1>4. CASE acc.stop
  <2>1. next = acc BY <1>4 DEF ReadLine
  <2> QED BY <1>0, <2>1, <1>2, <1>3, <1>4, ReadPast
<1>5. CASE ~acc.stop /\ rec.type = 0 BY <1>5, <1>2, ReadProgramLine
<1>6. CASE ~acc.stop /\ rec.type = 4
  <2> DEFINE q == [acc EXCEPT !.extended = Base(rec), !.length = IF rec.crc THEN @ ELSE 0,
                              !.stop = ~rec.crc \/ Base(rec) > SEGMENT]
  <2>1. next = q BY <1>6 DEF ReadLine
  <2>2. /\ {"fw", "length", "extended", "stop"} \subseteq DOMAIN q
        /\ q.fw = acc.fw /\ q.length = acc.length /\ q.extended = Base(rec)
    BY <1>1, <1>3
  <2>3. q.stop = (Base(rec) > SEGMENT) BY <1>1, <1>3
  <2> HIDE DEF q
  <2>4. q.stop <=> acc.stop \/ PastProgram(lines, n + 1) BY <2>3, <1>6 DEF PastProgram
  <2>5. q.extended = Extended(lines, n + 1) BY <1>0, <2>2, <1>6, ExtendedNext
  <2>6. n + 1 \notin ProgramLines(lines) BY <1>2, <1>6
  <2>7. ReadOK(lines, n + 1, q) BY <1>0, <2>2, <2>4, <2>5, <2>6, ReadPast
  <2> QED BY <2>1, <2>7
<1>7. CASE ~acc.stop /\ rec.type # 0 /\ rec.type # 4
  <2>1. next = acc BY <1>7 DEF ReadLine
  <2>2. ~PastProgram(lines, n + 1) BY <1>7 DEF PastProgram
  <2>3. acc.extended = Extended(lines, n + 1)
    <3>1. acc.extended = Extended(lines, n) BY <1>7 DEF ReadOK, ReadAddress
    <3> QED BY <1>0, <3>1, <1>7, ExtendedNext
  <2> QED BY <1>0, <2>1, <2>2, <2>3, <1>2, <1>3, <1>7, ReadPast
<1> QED BY <1>4, <1>5, <1>6, <1>7

LEMMA ReadAll ==
  ASSUME NEW lines, IsIhex(lines), Plain(lines)
  PROVE  ReadOK(lines, Len(lines), read_ihex(lines))
<1>0. NoSegments(lines) /\ ~Segmented(lines) BY SegmentsNone DEF Plain
<1>1. Len(lines) \in Nat BY LineTypes
<1> DEFINE S == {n \in Nat : n <= Len(lines) => ReadOK(lines, n, ReadLines(lines)[n])}
<1>2. 0 \in S BY <1>0, <1>1, ReadEach, ReadNone
<1>3. ASSUME NEW n \in Nat, n \in S PROVE n + 1 \in S
  <2> SUFFICES ASSUME n + 1 <= Len(lines) PROVE ReadOK(lines, n + 1, ReadLines(lines)[n + 1])
    OBVIOUS
  <2>1. n <= Len(lines) /\ n + 1 \in 1..Len(lines) /\ (n + 1) - 1 = n BY <1>1
  <2>2. ReadOK(lines, n, ReadLines(lines)[n]) BY <1>3, <2>1
  <2>3. ReadLines(lines)[n + 1] = ReadLine(ReadLines(lines)[n], lines[n + 1])
    BY <1>1, <2>1, ReadEach
  <2> QED BY <2>2, <2>3, ReadStep
<1> HIDE DEF S
<1>4. Nat \subseteq S BY <1>2, <1>3, SetInduction
<1> QED BY <1>1, <1>4 DEF S, read_ihex

\* read_ihex gives every address of the image the byte that the format gives it,
\* and 0xff where it gives none, for any file of the format in order of addresses,
\* with gaps, extended linear addresses and lines beyond the flash that it does not
\* read, but without extended segment addresses, which it ignores.
THEOREM ImageIsFile ==
  ASSUME NEW lines, IsIhex(lines), Plain(lines), NEW a \in Nat
  PROVE  At(read_ihex(lines).fw, a) = ByteOf(lines, a)
<1>0. NoSegments(lines) /\ ~Segmented(lines) BY SegmentsNone DEF Plain
<1> DEFINE fw == read_ihex(lines).fw
           has(i) == a - Address(lines, i) \in 0..Len(lines[i].data) - 1
           in == {i \in ProgramLines(lines) : has(i)}
<1>1. ReadBytes(lines, Len(lines), read_ihex(lines)) BY ReadAll DEF ReadOK
<1>2. /\ Len(lines) \in Nat
      /\ \A i \in ProgramLines(lines) : /\ i \in 1..Len(lines) /\ Address(lines, i) \in Nat
                                        /\ Len(lines[i].data) \in Nat
  BY <1>0, LineTypes, ProgramAddress
<1>3. ASSUME NEW i \in in
      PROVE  a \in DOMAIN fw /\ fw[a] = lines[i].data[a - Address(lines, i) + 1]
  <2>1. PICK x : x = a - Address(lines, i) + 1 OBVIOUS
  <2>2. x \in 1..Len(lines[i].data) /\ Address(lines, i) + x - 1 = a BY <2>1, <1>2
  <2>3. i \in ProgramLines(lines) /\ i <= Len(lines) BY <1>2
  <2>4. x \in 1..Len(DataOf(lines, i)) BY <2>2 DEF DataOf
  <2>5. /\ Address(lines, i) + x - 1 \in DOMAIN fw
        /\ fw[Address(lines, i) + x - 1] = DataOf(lines, i)[x]
    BY <2>3, <2>4, <1>1 DEF ReadBytes
  <2> QED BY <2>1, <2>2, <2>5 DEF DataOf
<1>4. ASSUME NEW i \in ProgramLines(lines), NEW x \in 1..Len(DataOf(lines, i)),
             a = Address(lines, i) + x - 1
      PROVE  i \in in
  <2>1. a - Address(lines, i) = x - 1 BY <1>2, <1>4
  <2>2. x - 1 \in 0..Len(lines[i].data) - 1 BY <1>2 DEF DataOf
  <2> QED BY <2>1, <2>2
<1>5. a \in DOMAIN fw => in # {}
  <2> SUFFICES ASSUME a \in DOMAIN fw PROVE \E i \in in : TRUE OBVIOUS
  <2>1. \E i \in ProgramLines(lines) : \E x \in 1..Len(DataOf(lines, i)) :
          a = Address(lines, i) + x - 1
    BY <1>1 DEF ReadBytes
  <2> HIDE DEF in
  <2> QED BY <2>1, <1>4
<1>6. CASE in = {}
  <2>1. ByteOf(lines, a) = ERASED BY <1>6 DEF ByteOf
  <2>2. a \notin DOMAIN fw BY <1>5, <1>6
  <2> QED BY <2>1, <2>2 DEF At
<1>7. CASE in # {}
  <2> DEFINE i == CHOOSE j \in in : TRUE
  <2>1. ByteOf(lines, a) = lines[i].data[a - Address(lines, i) + 1] BY <1>7 DEF ByteOf
  <2>2. i \in in BY <1>7
  <2> HIDE DEF i, in
  <2>3. a \in DOMAIN fw /\ fw[a] = lines[i].data[a - Address(lines, i) + 1] BY <2>2, <1>3
  <2> QED BY <2>1, <2>3 DEF At
<1> QED BY <1>6, <1>7

-----------------------------------------------------------------------------
(* h9fwupload and the node take turns: one frame is on its way between them, *)
(* to the node as a request of the program or on the bus, or from it to the  *)
(* driver, in the stream or just returned; or it is lost and none comes.     *)

IsReply(f) ==
  /\ f.source_id = start.opt.dst
  /\ f.type \in {"BOOTLOADER_TURNED_ON", "PAGE_FILL_NEXT", "PAGE_WRITED"}
Notifies(m) == m.kind = "notification" /\ IsReply(m.frame)

UpIdle == \A i \in 1..Len(up) : up[i].method # "send_frame"
UpOne(f) ==
  \E k \in 1..Len(up) : /\ up[k].method = "send_frame" /\ up[k].frame = f
                        /\ \A i \in 1..Len(up) : i # k => up[i].method # "send_frame"
ToNode(f) == (UpOne(f) /\ bus = <<>>) \/ (UpIdle /\ bus = <<f>>)
ToNodeIdle == UpIdle /\ bus = <<>>

AirIdle == \A i \in 1..Len(air) : ~IsReply(air[i])
AirOne(f) == \E k \in 1..Len(air) : /\ air[k] = f /\ IsReply(f)
                                    /\ \A i \in 1..Len(air) : i # k => ~IsReply(air[i])
SentIdle == \A i \in 1..Len(sent) : i > Len(taken) => ~Notifies(sent[i])
SentOne(f) ==
  \E k \in 1..Len(sent) : /\ k > Len(taken) /\ Notifies(sent[k]) /\ sent[k].frame = f
                          /\ \A i \in 1..Len(sent) : i > Len(taken) /\ i # k => ~Notifies(sent[i])
FromNodeIdle == AirIdle /\ SentIdle /\ ~Notifies(msg)
FromNodeOne(f) == \/ AirOne(f) /\ SentIdle /\ ~Notifies(msg)
                  \/ AirIdle /\ SentOne(f) /\ ~Notifies(msg)
                  \/ AirIdle /\ SentIdle /\ Notifies(msg) /\ msg.frame = f

\* n bytes of the image; the first k pages in the flash, and n bytes of the next
\* one in the node's buffer; the program at the start of a page; all in the flash.
Bytes(fw, from, n) == [i \in 1..n |-> At(fw, from + i - 1)]
Pages(k) ==
  /\ DOMAIN node.flash = 0..k - 1
  /\ \A p \in 0..k - 1 : node.flash[p] = Bytes(uploader.fw, p * PageSize, PageSize)
Filled(n) ==
  /\ n >= 0 /\ n % 8 = 0 /\ node.page = uploader.page /\ Pages(uploader.page)
  /\ node.fill = Bytes(uploader.fw, uploader.page * PageSize, n)
Begins == node.page = -1 /\ Pages(uploader.page) /\ uploader.fw_idx = uploader.page * PageSize
Written == \E k \in Nat : Pages(k) /\ uploader.fw_size <= k * PageSize

\* What is true while a frame of the program, or of the node, is on its way.
Sends(f) ==
  CASE f.type = "NODE_UPGRADE" -> ~uploader.done /\ uploader.page = 0 /\ Begins
    [] f.type = "PAGE_START" ->
         /\ ~uploader.done /\ Begins
         /\ f.data = <<uploader.page \div 256, uploader.page % 256>>
    [] f.type = "PAGE_FILL" ->
         LET n == uploader.fw_idx - 8 - uploader.page * PageSize
         IN /\ ~uploader.done /\ Filled(n) /\ n <= PageSize - 8
            /\ f.data = Bytes(uploader.fw, uploader.fw_idx - 8, 8)
    [] f.type = "QUIT_BOOTLOADER" -> uploader.done /\ Written
    [] OTHER -> FALSE
Replied(type) ==
  /\ ~uploader.done
  /\ CASE type = "BOOTLOADER_TURNED_ON" -> uploader.page = 0 /\ Begins
       [] type = "PAGE_FILL_NEXT" ->
            LET n == uploader.fw_idx - uploader.page * PageSize
            IN Filled(n) /\ n <= PageSize - 8
       [] type = "PAGE_WRITED" ->
            /\ node.page = -1 /\ Pages(uploader.page + 1)
            /\ uploader.fw_idx = (uploader.page + 1) * PageSize
       [] OTHER -> FALSE

Transfer ==
  \/ ToNodeIdle /\ FromNodeIdle /\ (uploader.done => Written)
  \/ FromNodeIdle /\ \E f : ToNode(f) /\ Sends(f)
  \/ ToNodeIdle /\ \E f : FromNodeOne(f) /\ Replied(f.type)

\* The case that is about the file; and the program before it uploads, and from
\* then on, unless it gives up.
Ordered == /\ Prog = "h9fwupload" /\ start.args = "ok" /\ Plain(start.opt.ihex)
           /\ "restart" \notin faults /\ "break" \notin faults
Before == {"parse_command_line_arg", "load_configuration", "read_ihex", "open", "recv",
           "authenticated", "run"}
Uploading == pc \in {"frames", "sent"} \/ (pc = "exit" /\ status = "success")

IsNode(n) == {"mode", "page", "fill", "flash"} \subseteq DOMAIN n
UploaderInv ==
  /\ uploader.page \in Nat /\ uploader.fw_idx \in Nat
  /\ {"fw", "fw_size", "node_id", "fw_idx", "page", "frame", "done", "crashed"} \subseteq DOMAIN uploader
  /\ uploader.fw = read_ihex(start.opt.ihex).fw /\ uploader.fw_size = read_ihex(start.opt.ihex).length
  /\ uploader.node_id = start.opt.dst /\ uploader.frame.type = "none"

UploadInv ==
  /\ IsSeq(up) /\ IsSeq(air)
  /\ pc \in Before \cup {"frames", "sent", "exit"} /\ (pc # "exit" => status = "running")
  /\ pc = "recv" => waiting.what = "authenticate"
  /\ pc \in Before => ToNodeIdle /\ FromNodeIdle /\ node \in {App, Boot}
  /\ pc \in {"open", "recv", "authenticated", "run"} =>
       uploader = NewUploader(start.opt.ihex, start.opt.dst)
  /\ Uploading => UploaderInv /\ IsNode(node) /\ Transfer /\ (pc # "frames" <=> uploader.done)

-----------------------------------------------------------------------------
(* The frames between h9fwupload and the node.                               *)

LEMMA TailAny ==
  ASSUME NEW s, IsSeq(s), s # <<>>
  PROVE  /\ Len(s) \in Nat /\ Len(s) >= 1 /\ Head(s) = s[1]
         /\ IsSeq(Tail(s)) /\ Len(Tail(s)) = Len(s) - 1
         /\ \A i \in 1..Len(s) - 1 : Tail(s)[i] = s[i + 1]
<1>1. PICK S : s \in Seq(S) BY SeqOfAny
<1>2. Head(s) = s[1] /\ Tail(s) \in Seq(S) /\ Len(Tail(s)) = Len(s) - 1
      /\ \A i \in 1..Len(Tail(s)) : Tail(s)[i] = s[i + 1]
  BY <1>1, HeadTailProperties
<1>3. Len(s) \in Nat /\ Len(s) # 0 BY <1>1, LenProperties, EmptySeq
<1>4. IsSeq(Tail(s)) BY <1>2, AnyOfSeq
<1> QED BY <1>2, <1>3, <1>4

\* A request more to the daemon; the oldest one read.
LEMMA UpSent ==
  ASSUME IsSeq(up), NEW r, up' = Append(up, r)
  PROVE  /\ IsSeq(up)'
         /\ UpIdle /\ r.method # "send_frame" => UpIdle'
         /\ UpIdle /\ r.method = "send_frame" => UpOne(r.frame)'
<1>1. /\ IsSeq(up') /\ Len(up') = Len(up) + 1 /\ up'[Len(up) + 1] = r
      /\ \A i \in 1..Len(up) : up'[i] = up[i]
  BY AppendAny
<1>2. Len(up) \in Nat BY DEF IsSeq
<1>3. \A i \in 1..Len(up') : i \in 1..Len(up) \/ i = Len(up) + 1 BY <1>1, <1>2
<1>4. Len(up) + 1 \in 1..Len(up') BY <1>1, <1>2
<1>5. UpIdle /\ r.method # "send_frame" => UpIdle' BY <1>1, <1>3 DEF UpIdle
<1>6. UpIdle /\ r.method = "send_frame" => UpOne(r.frame)' BY <1>1, <1>3, <1>4 DEF UpIdle, UpOne
<1> QED BY <1>1, <1>5, <1>6

LEMMA UpRead ==
  ASSUME IsSeq(up), up # <<>>, up' = Tail(up)
  PROVE  /\ IsSeq(up)'
         /\ UpIdle => UpIdle' /\ Head(up).method # "send_frame"
         /\ \A f : UpOne(f) => IF Head(up).method = "send_frame"
                               THEN Head(up).frame = f /\ UpIdle' ELSE UpOne(f)'
<1>1. /\ Len(up) \in Nat /\ Len(up) >= 1 /\ Head(up) = up[1] /\ IsSeq(up') /\ Len(up') = Len(up) - 1
      /\ \A i \in 1..Len(up) - 1 : up'[i] = up[i + 1]
  BY TailAny
<1>2. \A i \in 1..Len(up') : i + 1 \in 1..Len(up) /\ up'[i] = up[i + 1] /\ i + 1 # 1 BY <1>1
<1>3. 1 \in 1..Len(up) BY <1>1
<1>4. UpIdle => UpIdle' /\ Head(up).method # "send_frame" BY <1>1, <1>2, <1>3 DEF UpIdle
<1>5. ASSUME NEW f, UpOne(f), Head(up).method = "send_frame"
      PROVE  Head(up).frame = f /\ UpIdle'
  <2>1. PICK k \in 1..Len(up) : /\ up[k].method = "send_frame" /\ up[k].frame = f
                                /\ \A i \in 1..Len(up) : i # k => up[i].method # "send_frame"
    BY <1>5 DEF UpOne
  <2>2. k = 1 BY <2>1, <1>1, <1>3, <1>5
  <2> QED BY <2>1, <2>2, <1>1, <1>2 DEF UpIdle
<1>6. ASSUME NEW f, UpOne(f), Head(up).method # "send_frame"
      PROVE  UpOne(f)'
  <2>1. PICK k \in 1..Len(up) : /\ up[k].method = "send_frame" /\ up[k].frame = f
                                /\ \A i \in 1..Len(up) : i # k => up[i].method # "send_frame"
    BY <1>6 DEF UpOne
  <2>2. k # 1 BY <2>1, <1>1, <1>6
  <2>3. k - 1 \in 1..Len(up') /\ (k - 1) + 1 = k BY <2>2, <1>1
  <2>4. up'[k - 1] = up[k] BY <2>3, <1>2
  <2>5. \A i \in 1..Len(up') : i # k - 1 => i + 1 # k BY <1>1
  <2> QED BY <2>1, <2>3, <2>4, <2>5, <1>2 DEF UpOne
<1> QED BY <1>1, <1>4, <1>5, <1>6

\* The same of the frames to the client's own driver.
LEMMA AirSent ==
  ASSUME IsSeq(air), start' = start, NEW f, air' = Append(air, f)
  PROVE  /\ IsSeq(air)'
         /\ ~IsReply(f) => (AirIdle => AirIdle') /\ \A g : AirOne(g) => AirOne(g)'
         /\ IsReply(f) /\ AirIdle => AirOne(f)'
<1>1. /\ IsSeq(air') /\ Len(air') = Len(air) + 1 /\ air'[Len(air) + 1] = f
      /\ \A i \in 1..Len(air) : air'[i] = air[i]
  BY AppendAny
<1>2. Len(air) \in Nat BY DEF IsSeq
<1>3. \A i \in 1..Len(air') : i \in 1..Len(air) \/ i = Len(air) + 1 BY <1>1, <1>2
<1>4. Len(air) + 1 \in 1..Len(air') /\ (\A i \in 1..Len(air) : i \in 1..Len(air')) BY <1>1, <1>2
<1>5. \A g : IsReply(g)' <=> IsReply(g) BY DEF IsReply
<1>6. ~IsReply(f) /\ AirIdle => AirIdle' BY <1>1, <1>3, <1>5 DEF AirIdle
<1>7. ASSUME ~IsReply(f), NEW g, AirOne(g) PROVE AirOne(g)'
  <2>1. PICK k \in 1..Len(air) : /\ air[k] = g /\ IsReply(g)
                                 /\ \A i \in 1..Len(air) : i # k => ~IsReply(air[i])
    BY <1>7 DEF AirOne
  <2>2. k \in 1..Len(air') /\ air'[k] = g /\ IsReply(g)' BY <2>1, <1>1, <1>4, <1>5
  <2>3. \A i \in 1..Len(air') : i # k => ~IsReply(air[i])'
    BY <2>1, <1>1, <1>3, <1>5, <1>7
  <2> QED BY <2>2, <2>3 DEF AirOne
<1>8. IsReply(f) /\ AirIdle => AirOne(f)' BY <1>1, <1>3, <1>4, <1>5 DEF AirIdle, AirOne
<1> QED BY <1>1, <1>6, <1>7, <1>8

LEMMA AirTaken ==
  ASSUME IsSeq(air), start' = start, air # <<>>, air' = Tail(air)
  PROVE  /\ IsSeq(air)'
         /\ AirIdle => AirIdle' /\ ~IsReply(Head(air))
         /\ \A g : AirOne(g) => IF IsReply(Head(air)) THEN Head(air) = g /\ AirIdle' ELSE AirOne(g)'
<1>1. /\ Len(air) \in Nat /\ Len(air) >= 1 /\ Head(air) = air[1] /\ IsSeq(air')
      /\ Len(air') = Len(air) - 1 /\ \A i \in 1..Len(air) - 1 : air'[i] = air[i + 1]
  BY TailAny
<1>2. \A i \in 1..Len(air') : i + 1 \in 1..Len(air) /\ air'[i] = air[i + 1] /\ i + 1 # 1 BY <1>1
<1>3. 1 \in 1..Len(air) BY <1>1
<1>4. \A g : IsReply(g)' <=> IsReply(g) BY DEF IsReply
<1>5. AirIdle => AirIdle' /\ ~IsReply(Head(air)) BY <1>1, <1>2, <1>3, <1>4 DEF AirIdle
<1>6. ASSUME NEW g, AirOne(g)
      PROVE  IF IsReply(Head(air)) THEN Head(air) = g /\ AirIdle' ELSE AirOne(g)'
  <2>1. PICK k \in 1..Len(air) : /\ air[k] = g /\ IsReply(g)
                                 /\ \A i \in 1..Len(air) : i # k => ~IsReply(air[i])
    BY <1>6 DEF AirOne
  <2>2. CASE k = 1 BY <2>1, <2>2, <1>1, <1>2, <1>4 DEF AirIdle
  <2>3. CASE k # 1
    <3>1. ~IsReply(Head(air)) BY <2>1, <2>3, <1>1, <1>3
    <3>2. k - 1 \in 1..Len(air') /\ (k - 1) + 1 = k BY <2>3, <1>1
    <3>3. air'[k - 1] = g /\ IsReply(g)' BY <2>1, <3>2, <1>2, <1>4
    <3>4. \A i \in 1..Len(air') : i # k - 1 => i + 1 # k BY <1>1
    <3>5. \A i \in 1..Len(air') : i # k - 1 => ~IsReply(air[i])'
      BY <2>1, <3>4, <1>2, <1>4
    <3> QED BY <3>1, <3>2, <3>3, <3>5 DEF AirOne
  <2> QED BY <2>2, <2>3
<1> QED BY <1>1, <1>5, <1>6

\* And of the messages of the daemon.
LEMMA NotifiesSame == ASSUME start' = start PROVE \A m : Notifies(m)' <=> Notifies(m)
  BY DEF Notifies, IsReply

LEMMA SentSent ==
  ASSUME TcpInv, start' = start, NEW m, Emit(m),
         UNCHANGED <<taken, recv_bytes, bytes_to_recv, header_buf, data_buf>>
  PROVE  /\ ~Notifies(m) => (SentIdle => SentIdle') /\ \A g : SentOne(g) => SentOne(g)'
         /\ Notifies(m) /\ SentIdle => SentOne(m.frame)'
<1>1. /\ Len(sent') = Len(sent) + 1 /\ sent'[Len(sent')] = m
      /\ \A i \in 1..Len(sent) : sent'[i] = sent[i]
  BY EmitKeeps
<1>2. Len(sent) \in Nat /\ Len(taken) \in Nat /\ Len(taken) <= Len(sent) /\ taken' = taken
  BY DEF TcpInv, TcpTypes, IsSeq
<1>3. \A i \in 1..Len(sent') : i \in 1..Len(sent) \/ i = Len(sent') BY <1>1, <1>2
<1>4. /\ Len(sent') \in 1..Len(sent') /\ Len(sent') > Len(taken)
      /\ \A i \in 1..Len(sent) : i \in 1..Len(sent')
  BY <1>1, <1>2
<1>5. \A n : Notifies(n)' <=> Notifies(n) BY NotifiesSame
<1>6. ~Notifies(m) /\ SentIdle => SentIdle' BY <1>1, <1>2, <1>3, <1>5 DEF SentIdle
<1>7. ASSUME ~Notifies(m), NEW g, SentOne(g) PROVE SentOne(g)'
  <2>1. PICK k \in 1..Len(sent) :
          /\ k > Len(taken) /\ Notifies(sent[k]) /\ sent[k].frame = g
          /\ \A i \in 1..Len(sent) : i > Len(taken) /\ i # k => ~Notifies(sent[i])
    BY <1>7 DEF SentOne
  <2>2. /\ k \in 1..Len(sent') /\ k > Len(taken)' /\ Notifies(sent[k])' /\ sent'[k].frame = g
    BY <2>1, <1>1, <1>2, <1>4, <1>5
  <2>3. \A i \in 1..Len(sent') : i > Len(taken)' /\ i # k => ~Notifies(sent[i])'
    BY <2>1, <1>1, <1>2, <1>3, <1>5, <1>7
  <2> QED BY <2>2, <2>3 DEF SentOne
<1>8. ASSUME Notifies(m), SentIdle PROVE SentOne(m.frame)'
  <2>1. PICK k : k = Len(sent') OBVIOUS
  <2>2. /\ k \in 1..Len(sent') /\ k > Len(taken)' /\ sent'[k] = m /\ sent'[k].frame = m.frame
    BY <2>1, <1>1, <1>2, <1>4
  <2>3. Notifies(sent[k])' BY <2>2, <1>5, <1>8
  <2>4. \A i \in 1..Len(sent') : i > Len(taken)' /\ i # k => ~Notifies(sent[i])'
    BY <2>1, <1>8, <1>1, <1>2, <1>3, <1>5 DEF SentIdle
  <2> QED BY <2>2, <2>3, <2>4 DEF SentOne
<1> QED BY <1>6, <1>7, <1>8

LEMMA AirSame ==
  ASSUME UNCHANGED <<start, air>>
  PROVE  (AirIdle' <=> AirIdle) /\ \A g : AirOne(g)' <=> AirOne(g)
  BY DEF AirIdle, AirOne, IsReply
LEMMA SentSame ==
  ASSUME UNCHANGED <<start, sent, taken>>
  PROVE  (SentIdle' <=> SentIdle) /\ \A g : SentOne(g)' <=> SentOne(g)
  BY DEF SentIdle, SentOne, Notifies, IsReply
LEMMA FromNodeSame ==
  ASSUME UNCHANGED <<start, air, sent, taken, msg>>
  PROVE  (FromNodeIdle' <=> FromNodeIdle) /\ \A g : FromNodeOne(g)' <=> FromNodeOne(g)
<1>1. \A m : Notifies(m)' <=> Notifies(m) BY NotifiesSame
<1>2. Notifies(msg)' <=> Notifies(msg) BY DEF Notifies, IsReply
<1> QED BY <1>2, AirSame, SentSame DEF FromNodeIdle, FromNodeOne

\* A frame on the bus: a reply of the node is on its way to the program, or lost.
LEMMA FrameComes ==
  ASSUME TcpInv, IsSeq(air), NEW f, FrameOnBus(f), UNCHANGED <<start, msg>>,
         UNCHANGED <<taken, recv_bytes, bytes_to_recv, header_buf, data_buf>>
  PROVE  /\ IsSeq(air)'
         /\ ~IsReply(f) => /\ FromNodeIdle => FromNodeIdle'
                           /\ \A g : FromNodeOne(g) => FromNodeOne(g)'
         /\ IsReply(f) /\ FromNodeIdle => FromNodeIdle' \/ FromNodeOne(f)'
<1>1. Notifies(msg)' <=> Notifies(msg) BY DEF Notifies, IsReply
<1>2. CASE air' = Append(air, f) /\ UNCHANGED <<sent, stream>>
  <2>1. (SentIdle' <=> SentIdle) /\ \A g : SentOne(g)' <=> SentOne(g) BY <1>2, SentSame
  <2> QED BY <1>1, <1>2, <2>1, AirSent DEF FromNodeIdle, FromNodeOne
<1>3. CASE /\ air' = air
           /\ Emit([kind |-> "notification", id |-> 0, world |-> 0, frame |-> f])
  <2>1. (AirIdle' <=> AirIdle) /\ \A g : AirOne(g)' <=> AirOne(g) BY <1>3, AirSame
  <2>2. PICK m : m = [kind |-> "notification", id |-> 0, world |-> 0, frame |-> f] OBVIOUS
  <2>3. Emit(m) /\ m.frame = f /\ (Notifies(m) <=> IsReply(f)) BY <1>3, <2>2 DEF Notifies
  <2>4. /\ ~Notifies(m) => (SentIdle => SentIdle') /\ \A g : SentOne(g) => SentOne(g)'
        /\ Notifies(m) /\ SentIdle => SentOne(m.frame)'
    BY <2>3, SentSent
  <2>5. /\ ~IsReply(f) => (SentIdle => SentIdle') /\ \A g : SentOne(g) => SentOne(g)'
        /\ IsReply(f) /\ SentIdle => SentOne(f)'
    BY <2>3, <2>4
  <2> QED BY <1>1, <1>3, <2>1, <2>5 DEF FromNodeIdle, FromNodeOne
<1>4. CASE UNCHANGED <<air, sent, stream>>
  BY <1>4, FromNodeSame
<1> QED BY <1>2, <1>3, <1>4 DEF FrameOnBus

\* recv moves the next message on.
LEMMA FrameReceived ==
  ASSUME TcpInv, msg = EAGAIN, Partly \/ Ends \/ Returns, UNCHANGED <<start, air, sent>>
  PROVE  /\ FromNodeIdle => FromNodeIdle'
         /\ \A g : FromNodeOne(g) => FromNodeOne(g)'
<1>1. ~Notifies(EAGAIN) /\ ~Notifies(Closed) BY DEF Notifies, EAGAIN, Closed, Nothing
<1>2. (AirIdle' <=> AirIdle) /\ \A g : AirOne(g)' <=> AirOne(g) BY AirSame
<1>3. \A m : Notifies(m)' <=> Notifies(m) BY NotifiesSame
<1>4. CASE Partly BY <1>4, FromNodeSame DEF Partly
<1>5. CASE Ends
  <2>1. (SentIdle' <=> SentIdle) /\ \A g : SentOne(g)' <=> SentOne(g) BY <1>5, SentSame DEF Ends
  <2>2. ~Notifies(msg) BY <1>1
  <2>3. ~Notifies(msg)'
    <3>1. msg' = Closed BY <1>5 DEF Ends
    <3> QED BY <3>1 DEF Notifies, Closed, Nothing
  <2> QED BY <1>2, <2>1, <2>2, <2>3 DEF FromNodeIdle, FromNodeOne
<1>6. CASE Returns
  <2> DEFINE k == Len(taken) + 1
  <2>1. /\ Len(sent) \in Nat /\ Len(taken) \in Nat /\ Len(taken) < Len(sent)
        /\ Len(taken') = k /\ msg' = sent[k] /\ k \in 1..Len(sent)
    <3>1. /\ IsSeq(taken) /\ Len(taken) <= Len(sent) /\ Len(sent) \in Nat /\ Len(taken) \in Nat
          /\ Len(sent) # Len(taken) /\ taken' = Append(taken, k) /\ msg' = sent[k]
      BY <1>6 DEF TcpInv, TcpTypes, IsSeq, Returns, AllTaken
    <3>2. Len(taken') = k BY <3>1, AppendAny
    <3> QED BY <3>1, <3>2
  <2> HIDE DEF k
  <2>2. \A i \in 1..Len(sent) : i > Len(taken) <=> i = k \/ i > k BY <2>1 DEF k
  <2>3. k > Len(taken) /\ ~(k > k) BY <2>1 DEF k
  <2>4. PICK m : m = sent[k] OBVIOUS
  <2>5. Notifies(msg)' <=> Notifies(m) BY <2>1, <2>4, <1>3
  <2>6. SentIdle => SentIdle' /\ ~Notifies(m)
    BY <2>1, <2>2, <2>3, <2>4, <1>3 DEF SentIdle
  <2>7. ASSUME NEW g, SentOne(g)
        PROVE  \/ Notifies(m) /\ m.frame = g /\ SentIdle'
               \/ ~Notifies(m) /\ SentOne(g)'
    <3>1. PICK j \in 1..Len(sent) :
            /\ j > Len(taken) /\ Notifies(sent[j]) /\ sent[j].frame = g
            /\ \A i \in 1..Len(sent) : i > Len(taken) /\ i # j => ~Notifies(sent[i])
      BY <2>7 DEF SentOne
    <3>2. CASE j = k
      <4>1. \A i \in 1..Len(sent') : i > Len(taken)' => ~Notifies(sent[i])'
        BY <3>1, <3>2, <2>1, <2>2, <2>3, <1>3
      <4> QED BY <3>1, <3>2, <2>4, <4>1 DEF SentIdle
    <3>3. CASE j # k
      <4>1. ~Notifies(m) BY <3>1, <3>3, <2>1, <2>3, <2>4
      <4>2. j > Len(taken)' /\ Notifies(sent[j])' /\ sent'[j].frame = g /\ j \in 1..Len(sent')
        BY <3>1, <3>3, <2>1, <2>2, <1>3
      <4>3. \A i \in 1..Len(sent') : i > Len(taken)' /\ i # j => ~Notifies(sent[i])'
        BY <3>1, <2>1, <2>2, <1>3
      <4> QED BY <4>1, <4>2, <4>3 DEF SentOne
    <3> QED BY <3>2, <3>3
  <2>8. ~Notifies(msg) BY <1>1
  <2>9. FromNodeIdle => FromNodeIdle' BY <2>5, <2>6, <1>2 DEF FromNodeIdle
  <2>10. ASSUME NEW g, FromNodeOne(g) PROVE FromNodeOne(g)'
    <3>1. CASE AirOne(g) /\ SentIdle BY <3>1, <2>5, <2>6, <1>2 DEF FromNodeOne
    <3>2. CASE AirIdle /\ SentOne(g)
      <4>1. CASE Notifies(m) /\ m.frame = g /\ SentIdle'
        <5>1. msg'.frame = g BY <4>1, <2>1, <2>4
        <5> QED BY <3>2, <4>1, <5>1, <2>5, <1>2 DEF FromNodeOne
      <4>2. CASE ~Notifies(m) /\ SentOne(g)' BY <3>2, <4>2, <2>5, <1>2 DEF FromNodeOne
      <4> QED BY <3>2, <4>1, <4>2, <2>7
    <3> QED BY <3>1, <3>2, <2>8, <2>10 DEF FromNodeOne
  <2> QED BY <2>9, <2>10
<1> QED BY <1>4, <1>5, <1>6

\* The program takes a frame: the reply that was on its way, or another frame.
LEMMA FrameTaken ==
  ASSUME IsSeq(air), TakeFrame("h9fwupload"), start' = start
  PROVE  /\ IsSeq(air)'
         /\ FromNodeIdle => FromNodeIdle' /\ ~IsReply(Received)
         /\ \A g : FromNodeOne(g) => IF IsReply(Received) THEN Received = g /\ FromNodeIdle'
                                     ELSE FromNodeOne(g)'
<1>1. UNCHANGED <<sent, taken>> BY DEF TakeFrame, Look, recvVars
<1>2. (SentIdle' <=> SentIdle) /\ \A g : SentOne(g)' <=> SentOne(g) BY <1>1, SentSame
<1>3. CASE Direct
  <2>1. air # <<>> /\ air' = Tail(air) /\ Received = Head(air) /\ msg' = msg
    BY <1>3 DEF TakeFrame, Arrived, Received
  <2>2. Notifies(msg)' <=> Notifies(msg) BY <2>1 DEF Notifies, IsReply
  <2>3. /\ IsSeq(air)' /\ (AirIdle => AirIdle' /\ ~IsReply(Received))
        /\ \A g : AirOne(g) => IF IsReply(Received) THEN Received = g /\ AirIdle' ELSE AirOne(g)'
    BY <2>1, AirTaken
  <2>4. FromNodeIdle => FromNodeIdle' /\ ~IsReply(Received)
    BY <2>2, <2>3, <1>2 DEF FromNodeIdle
  <2>5. ASSUME NEW g, FromNodeOne(g)
        PROVE  IF IsReply(Received) THEN Received = g /\ FromNodeIdle' ELSE FromNodeOne(g)'
    <3>1. CASE AirOne(g) /\ SentIdle /\ ~Notifies(msg)
      BY <3>1, <2>2, <2>3, <1>2 DEF FromNodeIdle, FromNodeOne
    <3>2. CASE AirIdle /\ ~(AirOne(g) /\ SentIdle /\ ~Notifies(msg))
      <4>1. AirIdle' /\ ~IsReply(Received) BY <3>2, <2>3
      <4>2. msg'.frame = msg.frame BY <2>1
      <4> QED BY <3>2, <4>1, <4>2, <2>2, <2>5, <1>2 DEF FromNodeOne
    <3> QED BY <3>1, <3>2, <2>5 DEF FromNodeOne
  <2> QED BY <2>3, <2>4, <2>5
<1>4. CASE ~Direct
  <2>1. msg.kind = "notification" /\ Received = msg.frame /\ msg' = EAGAIN /\ air' = air
    BY <1>4 DEF TakeFrame, Arrived, Received, Look
  <2>2. Notifies(msg) <=> IsReply(Received) BY <2>1 DEF Notifies
  <2>3. ~Notifies(msg)' BY <2>1 DEF Notifies, EAGAIN, Nothing
  <2>4. (AirIdle' <=> AirIdle) /\ \A g : AirOne(g)' <=> AirOne(g) BY <2>1, AirSame
  <2> QED BY <2>1, <2>2, <2>3, <2>4, <1>2 DEF FromNodeIdle, FromNodeOne
<1> QED BY <1>3, <1>4

\* A message that is no frame, or an answer, leaves none behind.
LEMMA OtherLooked ==
  ASSUME msg.kind # "notification", msg' = EAGAIN, UNCHANGED <<start, air, sent, taken>>
  PROVE  (FromNodeIdle => FromNodeIdle') /\ \A g : FromNodeOne(g) => FromNodeOne(g)'
<1>1. ~Notifies(msg) BY DEF Notifies
<1>2. ~Notifies(msg)' BY DEF Notifies, EAGAIN, Nothing
<1> QED BY <1>1, <1>2, AirSame, SentSame DEF FromNodeIdle, FromNodeOne

\* Answers of the daemon are no frames.
LEMMA AnswerComes ==
  ASSUME TcpInv, NEW m, Emit(m), m.kind # "notification", UNCHANGED <<start, air, msg>>,
         UNCHANGED <<taken, recv_bytes, bytes_to_recv, header_buf, data_buf>>
  PROVE  (FromNodeIdle => FromNodeIdle') /\ \A g : FromNodeOne(g) => FromNodeOne(g)'
<1>1. ~Notifies(m) BY DEF Notifies
<1>2. (SentIdle => SentIdle') /\ \A g : SentOne(g) => SentOne(g)' BY <1>1, SentSent
<1>3. Notifies(msg)' <=> Notifies(msg) BY DEF Notifies, IsReply
<1> QED BY <1>2, <1>3, AirSame DEF FromNodeIdle, FromNodeOne

\* send_frame, to the daemon or to the bus; the daemon reads a request.
LEMMA FrameSends ==
  ASSUME IsSeq(up), ToNodeIdle, NEW f, SendFrame(f)
  PROVE  IsSeq(up)' /\ (ToNodeIdle' \/ ToNode(f)')
<1>1. CASE Direct
  <2>1. bus' = <<f>> /\ up' = up BY <1>1 DEF SendFrame, ToNodeIdle
  <2> QED BY <2>1 DEF ToNodeIdle, ToNode, UpIdle
<1>2. CASE ~Direct
  <2>1. bus' = <<>> BY <1>2 DEF SendFrame, ToNodeIdle
  <2>2. PICK q : /\ q = [[Request("send_frame") EXCEPT !.frame = f] EXCEPT !.id = get_next_id]
                 /\ q.method = "send_frame" /\ q.frame = f
    <3> DEFINE q == [[Request("send_frame") EXCEPT !.frame = f] EXCEPT !.id = get_next_id]
    <3>1. q.method = "send_frame" /\ q.frame = f BY DEF Request
    <3> QED BY <3>1
  <2>3. up' = Append(up, q) \/ up' = up BY <1>2, <2>2 DEF SendFrame, Send
  <2>4. CASE up' = Append(up, q)
    <3>1. IsSeq(up)' /\ UpOne(q.frame)' BY <2>4, <2>2, UpSent DEF ToNodeIdle
    <3> QED BY <3>1, <2>1, <2>2 DEF ToNode
  <2>5. CASE up' = up BY <2>1, <2>5 DEF ToNodeIdle, UpIdle
  <2> QED BY <2>3, <2>4, <2>5
<1> QED BY <1>1, <1>2

LEMMA RequestRead ==
  ASSUME IsSeq(up), Serve
  PROVE  /\ IsSeq(up)' /\ (ToNodeIdle => ToNodeIdle')
         /\ \A f : ToNode(f) => ToNode(f)'
<1>1. /\ up # <<>> /\ up' = Tail(up)
      /\ bus' = IF Head(up).method = "send_frame" THEN Append(bus, Head(up).frame) ELSE bus
  BY DEF Serve
<1>2. /\ IsSeq(up)'
      /\ UpIdle => UpIdle' /\ Head(up).method # "send_frame"
      /\ \A f : UpOne(f) => IF Head(up).method = "send_frame"
                            THEN Head(up).frame = f /\ UpIdle' ELSE UpOne(f)'
  BY <1>1, UpRead
<1>3. ToNodeIdle => ToNodeIdle' BY <1>1, <1>2 DEF ToNodeIdle
<1>4. ASSUME NEW f, ToNode(f) PROVE ToNode(f)'
  <2>1. CASE UpIdle /\ bus = <<f>> BY <2>1, <1>1, <1>2 DEF ToNode
  <2>2. CASE UpOne(f) /\ bus = <<>> /\ Head(up).method = "send_frame"
    <3>1. bus' = <<f>>
      <4>1. bus' = Append(<<>>, f) BY <2>2, <1>1, <1>2
      <4> QED BY <4>1
    <3> QED BY <2>2, <3>1, <1>2 DEF ToNode
  <2>3. CASE UpOne(f) /\ bus = <<>> /\ Head(up).method # "send_frame"
    BY <2>3, <1>1, <1>2 DEF ToNode
  <2> QED BY <1>4, <2>1, <2>2, <2>3 DEF ToNode
<1> QED BY <1>2, <1>3, <1>4

LEMMA FrameReaches ==
  ASSUME NodeStep
  PROVE  ~ToNodeIdle /\ \A f : ToNode(f) => Head(bus) = f /\ ToNodeIdle'
<1>1. bus # <<>> /\ bus' = Tail(bus) /\ up' = up BY DEF NodeStep, SilentVars
<1>2. UpIdle' <=> UpIdle BY <1>1 DEF UpIdle
<1>3. \A f : Head(<<f>>) = f /\ Tail(<<f>>) = <<>> OBVIOUS
<1> QED BY <1>1, <1>2, <1>3 DEF ToNodeIdle, ToNode

LEMMA ToNodeSame ==
  ASSUME UNCHANGED <<up, bus>>
  PROVE  (ToNodeIdle' <=> ToNodeIdle) /\ \A f : ToNode(f)' <=> ToNode(f)
  BY DEF ToNodeIdle, ToNode, UpIdle, UpOne

-----------------------------------------------------------------------------
(* Pages.                                                                    *)

LEMMA BytesJoin ==
  ASSUME NEW fw, NEW a \in Nat, NEW m \in Nat, NEW n \in Nat
  PROVE  Bytes(fw, a, m) \o Bytes(fw, a + m, n) = Bytes(fw, a, m + n)
<1> DEFINE s == Bytes(fw, a, m)
           t == Bytes(fw, a + m, n)
           u == Bytes(fw, a, m + n)
<1>1. IsSeq(s) /\ Len(s) = m /\ (\A i \in 1..m : s[i] = At(fw, a + i - 1)) BY DEF Bytes, IsSeq
<1>2. IsSeq(t) /\ Len(t) = n /\ (\A i \in 1..n : t[i] = At(fw, a + m + i - 1)) BY DEF Bytes, IsSeq
<1>3. /\ u = [i \in 1..m + n |-> At(fw, a + i - 1)]
      /\ \A i \in 1..m + n : u[i] = At(fw, a + i - 1)
  BY DEF Bytes
<1> HIDE DEF s, t, u
<1>4. PICK v : v = s \o t OBVIOUS
<1>5. Joined(s, t, v) BY <1>1, <1>2, <1>4, ConcatAny
<1>6. IsSeq(v) /\ Len(v) = m + n BY <1>1, <1>2, <1>5 DEF Joined
<1>7. ASSUME NEW i \in 1..m + n PROVE v[i] = At(fw, a + i - 1)
  <2>1. CASE i <= m
    <3>1. i \in 1..m BY <2>1
    <3> QED BY <3>1, <1>1, <1>5 DEF Joined
  <2>2. CASE ~(i <= m)
    <3>1. PICK j \in 1..n : j = i - m BY <2>2
    <3>2. m + j = i /\ a + m + j - 1 = a + i - 1 BY <3>1
    <3>3. v[m + j] = t[j] BY <1>1, <1>2, <1>5, <3>1 DEF Joined
    <3>4. t[j] = At(fw, a + m + j - 1) BY <1>2, <3>1
    <3> QED BY <3>2, <3>3, <3>4
  <2> QED BY <2>1, <2>2
<1>8. v = [i \in 1..m + n |-> At(fw, a + i - 1)] BY <1>6, <1>7 DEF IsSeq
<1> QED BY <1>3, <1>4, <1>8 DEF s, t, u

LEMMA BytesAre ==
  ASSUME NEW fw, NEW a \in Nat, NEW n \in Nat
  PROVE  /\ Len(Bytes(fw, a, n)) = n /\ DOMAIN Bytes(fw, a, n) = 1..n
         /\ \A i \in 1..n : Bytes(fw, a, n)[i] = At(fw, a + i - 1)
         /\ n = 0 => Bytes(fw, a, n) = <<>>
  BY DEF Bytes

\* Pages are some multiple of 8 bytes, and lie behind each other.
LEMMA PageBytes ==
  /\ PageSize \in Nat /\ PageSize >= 8
  /\ \A n \in Nat : n % 8 = 0 /\ n < PageSize => n <= PageSize - 8
  BY PageAssumption
LEMMA PageStarts ==
  ASSUME NEW p \in Nat
  PROVE  /\ p * PageSize \in Nat /\ (p + 1) * PageSize = p * PageSize + PageSize
         /\ p * 8 <= p * PageSize
  BY PageBytes

LEMMA PagesSame ==
  ASSUME node'.flash = node.flash, uploader'.fw = uploader.fw, NEW k
  PROVE  Pages(k)' <=> Pages(k)
  BY DEF Pages
LEMMA WrittenSame ==
  ASSUME node'.flash = node.flash, uploader'.fw = uploader.fw, uploader'.fw_size = uploader.fw_size
  PROVE  Written' <=> Written
  BY PagesSame DEF Written

-----------------------------------------------------------------------------
(* One frame at the node, and one at the program.                            *)

Awaited == {"BOOTLOADER_TURNED_ON", "PAGE_FILL_NEXT", "PAGE_WRITED"}
Reacts(n) ==
  /\ node' = n.node /\ IsNode(node')
  /\ uploader.done => Written'
  /\ \A reply \in Awaited : n.reply = reply => Replied(reply)'

WithPage(flash, k, page, with) ==
  /\ DOMAIN with = DOMAIN flash \cup {k} /\ with[k] = page
  /\ \A p \in DOMAIN flash : p # k => with[p] = flash[p]
LEMMA PutPage ==
  ASSUME NEW flash, NEW k, NEW page
  PROVE  WithPage(flash, k, page, Put(flash, k, page))
<1> DEFINE with == Put(flash, k, page)
<1>1. DOMAIN [i \in {k} |-> page] = {k} /\ [i \in {k} |-> page][k] = page OBVIOUS
<1>2. PICK one : one = [i \in {k} |-> page] OBVIOUS
<1>3. DOMAIN one = {k} /\ one[k] = page BY <1>1, <1>2
<1>4. with = Over(one, flash) BY <1>2 DEF Put
<1>5. Over(one, flash) = [i \in {k} \cup DOMAIN flash |-> IF i \in {k} THEN one[i] ELSE flash[i]]
  BY <1>3 DEF Over, Has
<1> HIDE DEF with
<1>6. WithPage(flash, k, page, with) BY <1>3, <1>4, <1>5 DEF WithPage
<1> QED BY <1>6 DEF with

\* A page more in the flash.
LEMMA PagePut ==
  ASSUME UploaderInv, IsNode(node), Pages(uploader.page), uploader' = uploader,
         node'.flash = Put(node.flash, uploader.page,
                           Bytes(uploader.fw, uploader.page * PageSize, PageSize))
  PROVE  Pages(uploader.page + 1)'
<1>1. PICK k \in Nat : k = uploader.page BY DEF UploaderInv
<1>2. PICK page : page = Bytes(uploader.fw, k * PageSize, PageSize) OBVIOUS
<1>3. /\ DOMAIN node'.flash = DOMAIN node.flash \cup {k} /\ node'.flash[k] = page
      /\ \A p \in DOMAIN node.flash : p # k => node'.flash[p] = node.flash[p]
  <2>1. PICK flash : flash = node.flash OBVIOUS
  <2>2. node'.flash = Put(flash, k, page) BY <1>1, <1>2, <2>1
  <2>3. WithPage(flash, k, page, node'.flash) BY <2>2, PutPage
  <2> QED BY <2>1, <2>3 DEF WithPage
<1>4. /\ DOMAIN node.flash = 0..k - 1
      /\ \A p \in 0..k - 1 : node.flash[p] = Bytes(uploader.fw, p * PageSize, PageSize)
  BY <1>1 DEF Pages
<1>5. (0..k - 1) \cup {k} = 0..k + 1 - 1 OBVIOUS
<1>6. \A p \in 0..k + 1 - 1 : p = k \/ (p \in 0..k - 1 /\ p # k) OBVIOUS
<1>7. \A p \in 0..k + 1 - 1 : node'.flash[p] = Bytes(uploader.fw, p * PageSize, PageSize)
  BY <1>2, <1>3, <1>4, <1>6
<1>8. uploader'.page = k /\ uploader'.fw = uploader.fw BY <1>1
<1>9. DOMAIN node'.flash = 0..k + 1 - 1 BY <1>3, <1>4, <1>5
<1> QED BY <1>7, <1>8, <1>9 DEF Pages

LEMMA NodeReacts ==
  ASSUME UploaderInv, IsNode(node), NEW f, Sends(f), uploader' = uploader,
         NEW n, n = Bootloader(node, f), node' = n.node
  PROVE  Reacts(n)
<1>1. uploader.done => Written /\ f.type = "QUIT_BOOTLOADER" BY DEF Sends
<1>2. PICK x \in Nat : x = uploader.page * PageSize
  <2>1. uploader.page \in Nat BY DEF UploaderInv
  <2> QED BY <2>1, PageStarts
<1>3. CASE n = [node |-> node, reply |-> "none"]
  <2>1. n.node = node /\ n.reply \notin Awaited BY <1>3 DEF Awaited
  <2>2. Written' <=> Written BY <2>1, WrittenSame
  <2> QED BY <1>1, <2>1, <2>2 DEF Reacts
<1>4. CASE node.mode = "app" /\ f.type = "NODE_UPGRADE"
  <2>1. /\ n = [node |-> [Boot EXCEPT !.flash = node.flash], reply |-> "BOOTLOADER_TURNED_ON"]
    BY <1>4 DEF Bootloader
  <2>2. PICK m : m = [Boot EXCEPT !.flash = node.flash] OBVIOUS
  <2>3. m.page = -1 /\ m.flash = node.flash /\ IsNode(m) BY <2>2 DEF Boot, App, IsNode
  <2>4. n.node = m /\ n.reply = "BOOTLOADER_TURNED_ON" BY <2>1, <2>2
  <2>5. ~uploader.done /\ uploader.page = 0 /\ Begins BY <1>4 DEF Sends
  <2>6. node' = m BY <2>4
  <2>7. Pages(uploader.page)' BY <2>3, <2>5, <2>6 DEF Begins, Pages
  <2>8. Replied("BOOTLOADER_TURNED_ON")' BY <2>3, <2>5, <2>6, <2>7 DEF Begins, Replied
  <2> QED BY <2>3, <2>4, <2>5, <2>6, <2>8 DEF Reacts
<1>5. CASE node.mode = "boot" /\ f.type = "PAGE_START"
  <2>1. n = [node |-> [node EXCEPT !.page = f.data[1] * 256 + f.data[2], !.fill = <<>>],
             reply |-> "PAGE_FILL_NEXT"]
    BY <1>5 DEF Bootloader
  <2>2. PICK m : m = [node EXCEPT !.page = f.data[1] * 256 + f.data[2], !.fill = <<>>] OBVIOUS
  <2>3. m.page = f.data[1] * 256 + f.data[2] /\ m.fill = <<>> /\ m.flash = node.flash /\ IsNode(m)
    BY <2>2 DEF IsNode
  <2>4. n.node = m /\ n.reply = "PAGE_FILL_NEXT" BY <2>1, <2>2
  <2>5. /\ ~uploader.done /\ Begins /\ f.data = <<uploader.page \div 256, uploader.page % 256>>
    BY <1>5 DEF Sends
  <2>6. node' = m BY <2>4
  <2>7. m.page = uploader.page
    <3>1. uploader.page \in Nat BY DEF UploaderInv
    <3>2. PICK k \in Nat : k = uploader.page BY <3>1
    <3>3. PICK q, r : q = k \div 256 /\ r = k % 256 OBVIOUS
    <3>4. q \in Int /\ r \in Int /\ q * 256 + r = k BY <3>3
    <3>5. f.data = <<q, r>> BY <2>5, <3>2, <3>3
    <3> QED BY <3>2, <3>4, <3>5, <2>3
  <2>8. Pages(uploader.page)' BY <2>3, <2>5, <2>6 DEF Begins, Pages
  <2>9. m.fill = Bytes(uploader.fw, uploader.page * PageSize, 0) BY <2>3 DEF Bytes
  <2>10. uploader.fw_idx - uploader.page * PageSize = 0 BY <2>5, <1>2 DEF Begins
  <2>11. Filled(0)' BY <2>6, <2>7, <2>8, <2>9 DEF Filled
  <2>12. 0 <= PageSize - 8 BY PageBytes
  <2>13. Replied("PAGE_FILL_NEXT")' BY <2>5, <2>10, <2>11, <2>12 DEF Replied
  <2> QED BY <2>3, <2>4, <2>5, <2>6, <2>13 DEF Reacts
<1>6. CASE node.mode = "boot" /\ f.type = "PAGE_FILL"
  <2>1. PICK k \in Int : k = uploader.fw_idx - 8 - uploader.page * PageSize
    BY <1>2 DEF UploaderInv
  <2>2. /\ ~uploader.done /\ Filled(k) /\ k <= PageSize - 8
        /\ f.data = Bytes(uploader.fw, uploader.fw_idx - 8, 8)
    BY <1>6, <2>1 DEF Sends
  <2>3. /\ k \in Nat /\ k % 8 = 0 /\ node.page = uploader.page /\ Pages(uploader.page)
        /\ node.fill = Bytes(uploader.fw, x, k)
    BY <1>2, <2>2 DEF Filled
  <2>4. Len(node.fill) = k BY <1>2, <2>3, BytesAre
  <2>5. node.fill \o f.data = Bytes(uploader.fw, x, k + 8)
    <3>1. uploader.fw_idx - 8 = x + k BY <1>2, <2>1 DEF UploaderInv
    <3>2. PICK fw : fw = uploader.fw OBVIOUS
    <3>3. node.fill = Bytes(fw, x, k) /\ f.data = Bytes(fw, x + k, 8) BY <3>1, <3>2, <2>2, <2>3
    <3>4. Bytes(fw, x, k) \o Bytes(fw, x + k, 8) = Bytes(fw, x, k + 8)
      <4>1. x \in Nat /\ k \in Nat /\ 8 \in Nat BY <1>2, <2>3
      <4> QED BY <4>1, BytesJoin, Zenon
    <3> QED BY <3>2, <3>3, <3>4
  <2>6. node.page # -1 /\ uploader.page \in Nat BY <2>3 DEF UploaderInv
  <2>7. CASE k + 8 = PageSize
    <3>1. n = [node |-> [node EXCEPT !.page = -1, !.fill = <<>>,
                                     !.flash = Put(@, node.page, node.fill \o f.data)],
               reply |-> "PAGE_WRITED"]
      BY <1>6, <2>4, <2>6, <2>7 DEF Bootloader
    <3>2. PICK flash : flash = Put(node.flash, node.page, node.fill \o f.data) OBVIOUS
    <3>3. PICK m : m = [node EXCEPT !.page = -1, !.fill = <<>>, !.flash = flash] OBVIOUS
    <3>4. m.page = -1 /\ m.flash = flash /\ IsNode(m) BY <3>3 DEF IsNode
    <3>5. n.node = m /\ n.reply = "PAGE_WRITED" BY <3>1, <3>2, <3>3
    <3>6. node' = m BY <3>5
    <3>7. flash = Put(node.flash, uploader.page,
                      Bytes(uploader.fw, uploader.page * PageSize, PageSize))
      BY <3>2, <2>3, <2>5, <2>7, <1>2
    <3>8. Pages(uploader.page + 1)' BY <2>3, <3>4, <3>6, <3>7, PagePut
    <3>9. uploader.fw_idx = (uploader.page + 1) * PageSize
      <4>1. (uploader.page + 1) * PageSize = x + PageSize BY <1>2, <2>6, PageStarts
      <4>2. uploader.fw_idx = x + k + 8 BY <1>2, <2>1 DEF UploaderInv
      <4> QED BY <4>1, <4>2, <2>7
    <3>10. Replied("PAGE_WRITED")' BY <2>2, <3>4, <3>6, <3>8, <3>9 DEF Replied
    <3> QED BY <2>2, <3>4, <3>5, <3>6, <3>10 DEF Reacts
  <2>8. CASE k + 8 # PageSize
    <3>1. n = [node |-> [node EXCEPT !.fill = @ \o f.data], reply |-> "PAGE_FILL_NEXT"]
      BY <1>6, <2>4, <2>6, <2>8 DEF Bootloader
    <3>2. PICK m : m = [node EXCEPT !.fill = node.fill \o f.data] OBVIOUS
    <3>3. m.page = node.page /\ m.flash = node.flash /\ m.fill = Bytes(uploader.fw, x, k + 8)
          /\ IsNode(m)
      BY <3>2, <2>5 DEF IsNode
    <3>4. n.node = m /\ n.reply = "PAGE_FILL_NEXT" BY <3>1, <3>2
    <3>5. node' = m BY <3>4
    <3>6. Pages(uploader.page)' BY <2>3, <3>3, <3>5, PagesSame
    <3>7. uploader.fw_idx - uploader.page * PageSize = k + 8 BY <1>2, <2>1 DEF UploaderInv
    <3>8. k + 8 >= 0 /\ (k + 8) % 8 = 0 /\ k + 8 <= PageSize - 8
      <4>1. (k + 8) % 8 = 0 BY <2>3
      <4>2. k + 8 \in Nat /\ k + 8 < PageSize BY <2>2, <2>3, <2>8, PageBytes
      <4>3. k + 8 <= PageSize - 8 BY <4>1, <4>2, PageBytes
      <4> QED BY <4>1, <4>2, <4>3
    <3>9. Filled(k + 8)' BY <1>2, <2>3, <3>3, <3>5, <3>6, <3>8 DEF Filled
    <3>10. Replied("PAGE_FILL_NEXT")' BY <2>2, <3>7, <3>8, <3>9 DEF Replied
    <3> QED BY <2>2, <3>3, <3>4, <3>5, <3>10 DEF Reacts
  <2> QED BY <2>7, <2>8
<1>7. CASE node.mode = "boot" /\ f.type = "QUIT_BOOTLOADER"
  <2>1. n = [node |-> [node EXCEPT !.mode = "app"], reply |-> "NODE_TURNED_ON"]
    BY <1>7 DEF Bootloader
  <2>2. PICK m : m = [node EXCEPT !.mode = "app"] OBVIOUS
  <2>3. m.flash = node.flash /\ IsNode(m) BY <2>2 DEF IsNode
  <2>4. n.node = m /\ n.reply \notin Awaited BY <2>1, <2>2 DEF Awaited
  <2>5. node' = m BY <2>4
  <2>6. Written' <=> Written BY <2>3, <2>5, WrittenSame
  <2> QED BY <1>1, <2>3, <2>4, <2>5, <2>6 DEF Reacts
<1>8. \/ n = [node |-> node, reply |-> "none"]
      \/ node.mode = "app" /\ f.type = "NODE_UPGRADE"
      \/ node.mode = "boot" /\ f.type \in {"PAGE_START", "PAGE_FILL", "QUIT_BOOTLOADER"}
  BY DEF Bootloader
<1> QED BY <1>3, <1>4, <1>5, <1>6, <1>7, <1>8

\* A frame that is no reply of the node leaves the upload as it is.
LEMMA UploadIgnores ==
  ASSUME UploaderInv, NEW f, ~IsReply(f)
  PROVE  upload(uploader, f) = uploader
  BY DEF UploaderInv, IsReply, upload

Sent(u) ==
  /\ UploaderInv' /\ (u.done <=> uploader'.done) /\ u.frame.type # "none"
  /\ \A frame : frame = u.frame => Sends(frame)'

\* The program goes on with u, but for the frame it sends.
LEMMA UploadGoesOn ==
  ASSUME UploaderInv, UNCHANGED <<start, node>>, NEW u,
         {"fw", "fw_size", "node_id", "fw_idx", "page", "frame", "done", "crashed"} \subseteq DOMAIN u,
         u.fw = uploader.fw, u.fw_size = uploader.fw_size, u.node_id = uploader.node_id,
         u.page \in Nat, u.fw_idx \in Nat, uploader' = [u EXCEPT !.frame = NoFrame]
  PROVE  /\ UploaderInv' /\ uploader'.fw = uploader.fw /\ uploader'.fw_size = uploader.fw_size
         /\ uploader'.page = u.page /\ uploader'.fw_idx = u.fw_idx /\ (u.done <=> uploader'.done)
<1>1. NoFrame.type = "none" BY DEF NoFrame
<1>2. /\ {"fw", "fw_size", "node_id", "fw_idx", "page", "frame", "done", "crashed"}
           \subseteq DOMAIN uploader'
      /\ uploader'.fw = u.fw /\ uploader'.fw_size = u.fw_size /\ uploader'.node_id = u.node_id
      /\ uploader'.frame = NoFrame
      /\ uploader'.page = u.page /\ uploader'.fw_idx = u.fw_idx /\ uploader'.done = u.done
  OBVIOUS
<1> QED BY <1>1, <1>2 DEF UploaderInv

LEMMA PageFits ==
  ASSUME NEW p \in Nat, NEW size \in Nat, size < 3 * SEGMENT, (p + 1) * PageSize < size
  PROVE  UINT16(p + 1) = p + 1
<1>1. p + 1 \in Nat /\ (p + 1) * 8 <= (p + 1) * PageSize /\ (p + 1) * PageSize \in Nat BY PageStarts
<1>2. PICK x \in Nat : x = (p + 1) * PageSize BY <1>1
<1>3. (p + 1) * 8 < size BY <1>1, <1>2
<1>4. p + 1 < 65536 BY <1>3, SMT DEF SEGMENT
<1> QED BY <1>4, SMT DEF UINT16

LEMMA UploadReacts ==
  ASSUME UploaderInv, UNCHANGED <<start, node>>, IsIhex(start.opt.ihex), Plain(start.opt.ihex),
         NEW f, IsReply(f), Replied(f.type), NEW u, u = upload(uploader, f), ~u.crashed,
         uploader' = [u EXCEPT !.frame = NoFrame]
  PROVE  Sent(u)
<1>1. /\ ~uploader.done /\ f.source_id = uploader.node_id
      /\ {"fw", "fw_size", "node_id", "fw_idx", "page", "frame", "done", "crashed"} \subseteq DOMAIN uploader
      /\ uploader.page \in Nat /\ uploader.fw_idx \in Nat
  BY DEF UploaderInv, IsReply, Replied
<1>2. PICK x \in Nat : x = uploader.page * PageSize BY <1>1, PageStarts
<1>3. CASE f.type = "BOOTLOADER_TURNED_ON"
  <2>1. u = [uploader EXCEPT !.frame = PAGE_START(uploader)] BY <1>1, <1>3 DEF upload
  <2>2. uploader.page = 0 /\ Begins BY <1>3 DEF Replied
  <2>3. PICK frame : frame = PAGE_START(uploader) OBVIOUS
  <2>4. /\ frame.type = "PAGE_START"
        /\ frame.data = <<uploader.page \div 256, uploader.page % 256>>
    BY <2>3 DEF PAGE_START, Frame
  <2>5. u = [uploader EXCEPT !.frame = frame] BY <2>1, <2>3
  <2>6. /\ {"fw", "fw_size", "node_id", "fw_idx", "page", "frame", "done", "crashed"} \subseteq DOMAIN u
        /\ u.fw = uploader.fw /\ u.fw_size = uploader.fw_size /\ u.node_id = uploader.node_id
        /\ u.page = uploader.page /\ u.fw_idx = uploader.fw_idx /\ u.frame = frame
        /\ u.done = uploader.done
    BY <1>1, <2>5
  <2>7. /\ UploaderInv' /\ uploader'.fw = uploader.fw /\ uploader'.fw_size = uploader.fw_size
        /\ uploader'.page = uploader.page /\ uploader'.fw_idx = uploader.fw_idx
        /\ (u.done <=> uploader'.done)
    BY <1>1, <2>6, UploadGoesOn
  <2>8. Begins' BY <2>2, <2>7, PagesSame DEF Begins, Pages
  <2>9. Sends(frame)' BY <1>1, <2>4, <2>6, <2>7, <2>8 DEF Sends
  <2> QED BY <2>4, <2>6, <2>7, <2>9 DEF Sent
<1>4. CASE f.type = "PAGE_FILL_NEXT"
  <2>1. u = [uploader EXCEPT !.frame = Frame("PAGE_FILL", 0, uploader.node_id, Fill(uploader)),
                             !.fw_idx = @ + 8]
    BY <1>1, <1>4 DEF upload
  <2>2. PICK k \in Int : k = uploader.fw_idx - uploader.page * PageSize BY <1>1, <1>2
  <2>3. Filled(k) /\ k <= PageSize - 8 BY <1>4, <2>2 DEF Replied
  <2>4. PICK frame : frame = Frame("PAGE_FILL", 0, uploader.node_id, Fill(uploader)) OBVIOUS
  <2>5. frame.type = "PAGE_FILL" /\ frame.data = Bytes(uploader.fw, uploader.fw_idx, 8)
    BY <2>4 DEF Frame, Fill, Bytes
  <2>6. u = [uploader EXCEPT !.frame = frame, !.fw_idx = @ + 8] BY <2>1, <2>4
  <2>7. /\ {"fw", "fw_size", "node_id", "fw_idx", "page", "frame", "done", "crashed"} \subseteq DOMAIN u
        /\ u.fw = uploader.fw /\ u.fw_size = uploader.fw_size /\ u.node_id = uploader.node_id
        /\ u.page = uploader.page /\ u.fw_idx = uploader.fw_idx + 8 /\ u.frame = frame
        /\ u.done = uploader.done
    BY <1>1, <2>6
  <2>8. /\ UploaderInv' /\ uploader'.fw = uploader.fw /\ uploader'.fw_size = uploader.fw_size
        /\ uploader'.page = uploader.page /\ uploader'.fw_idx = uploader.fw_idx + 8
        /\ (u.done <=> uploader'.done)
    BY <1>1, <2>7, UploadGoesOn
  <2>9. Filled(k)'
    <3>1. Pages(uploader.page)' BY <2>3, <2>8 DEF Filled, Pages
    <3> QED BY <2>3, <2>8, <3>1 DEF Filled
  <2>10. /\ uploader'.fw_idx - 8 - uploader'.page * PageSize = k
         /\ uploader'.fw_idx - 8 = uploader.fw_idx
    BY <1>1, <1>2, <2>2, <2>8
  <2>11. Sends(frame)' BY <1>1, <2>3, <2>5, <2>7, <2>8, <2>9, <2>10 DEF Sends
  <2> QED BY <2>5, <2>7, <2>8, <2>11 DEF Sent
<1>5. CASE f.type = "PAGE_WRITED"
  <2>1. /\ node.page = -1 /\ Pages(uploader.page + 1)
        /\ uploader.fw_idx = (uploader.page + 1) * PageSize
    BY <1>5 DEF Replied
  <2>2. uploader.fw_size \in Nat /\ uploader.fw_size < 3 * SEGMENT
    BY ReadAll DEF ReadOK, ReadTypes, UploaderInv
  <2>3. CASE uploader.fw_size = 0
    <3>1. u = [uploader EXCEPT !.crashed = TRUE] BY <1>1, <1>5, <2>3 DEF upload
    <3>2. u.crashed = TRUE BY <1>1, <3>1
    <3> QED BY <3>2
  <2>4. CASE uploader.fw_size # 0 /\ Finished(uploader)
    <3>1. u = [uploader EXCEPT !.frame = Frame("QUIT_BOOTLOADER", 0, uploader.node_id, <<>>),
                               !.done = TRUE]
      BY <1>1, <1>5, <2>4 DEF upload
    <3>2. PICK frame : frame = Frame("QUIT_BOOTLOADER", 0, uploader.node_id, <<>>) OBVIOUS
    <3>3. frame.type = "QUIT_BOOTLOADER" BY <3>2 DEF Frame
    <3>4. u = [uploader EXCEPT !.frame = frame, !.done = TRUE] BY <3>1, <3>2
    <3>5. /\ {"fw", "fw_size", "node_id", "fw_idx", "page", "frame", "done", "crashed"} \subseteq DOMAIN u
          /\ u.fw = uploader.fw /\ u.fw_size = uploader.fw_size /\ u.node_id = uploader.node_id
          /\ u.page = uploader.page /\ u.fw_idx = uploader.fw_idx /\ u.frame = frame
          /\ u.done = TRUE
      BY <1>1, <3>4
    <3>6. /\ UploaderInv' /\ uploader'.fw = uploader.fw /\ uploader'.fw_size = uploader.fw_size
          /\ (u.done <=> uploader'.done)
      BY <1>1, <3>5, UploadGoesOn
    <3>7. Written
      <4>1. uploader.fw_size <= (uploader.page + 1) * PageSize BY <1>1, <2>1, <2>2, <2>4 DEF Finished
      <4>2. uploader.page + 1 \in Nat BY <1>1
      <4> QED BY <2>1, <4>1, <4>2 DEF Written
    <3>8. Written' BY <3>6, <3>7, WrittenSame
    <3>9. Sends(frame)' BY <3>3, <3>5, <3>6, <3>8 DEF Sends
    <3> QED BY <3>3, <3>5, <3>6, <3>9 DEF Sent
  <2>5. CASE uploader.fw_size # 0 /\ ~Finished(uploader)
    <3> DEFINE p == uploader.page + 1
    <3>1. p \in Nat BY <1>1
    <3>2. UINT16(p) = p
      <4>1. (uploader.page + 1) * PageSize < uploader.fw_size
        BY <1>1, <2>1, <2>2, <2>5 DEF Finished
      <4> QED BY <1>1, <2>2, <4>1, PageFits
    <3>3. PICK v : v = [uploader EXCEPT !.page = p] OBVIOUS
    <3>4. u = [v EXCEPT !.frame = PAGE_START(v)] BY <1>1, <1>5, <2>5, <3>2, <3>3 DEF upload
    <3> HIDE DEF p
    <3>5. /\ {"fw", "fw_size", "node_id", "fw_idx", "page", "frame", "done", "crashed"} \subseteq DOMAIN v
          /\ v.fw = uploader.fw /\ v.fw_size = uploader.fw_size /\ v.node_id = uploader.node_id
          /\ v.page = p /\ v.fw_idx = uploader.fw_idx /\ v.done = uploader.done
      BY <1>1, <3>3
    <3>6. PICK frame : frame = PAGE_START(v) OBVIOUS
    <3>7. frame.type = "PAGE_START" /\ frame.data = <<p \div 256, p % 256>>
      BY <3>5, <3>6 DEF PAGE_START, Frame
    <3>8. u = [v EXCEPT !.frame = frame] BY <3>4, <3>6
    <3>9. /\ {"fw", "fw_size", "node_id", "fw_idx", "page", "frame", "done", "crashed"} \subseteq DOMAIN u
          /\ u.fw = uploader.fw /\ u.fw_size = uploader.fw_size /\ u.node_id = uploader.node_id
          /\ u.page = p /\ u.fw_idx = uploader.fw_idx /\ u.frame = frame /\ u.done = uploader.done
      BY <3>5, <3>8
    <3>10. /\ UploaderInv' /\ uploader'.fw = uploader.fw /\ uploader'.fw_size = uploader.fw_size
           /\ uploader'.page = p /\ uploader'.fw_idx = uploader.fw_idx
           /\ (u.done <=> uploader'.done)
      BY <1>1, <3>1, <3>9, UploadGoesOn
    <3>11. Begins'
      <4>1. Pages(p) BY <2>1 DEF p
      <4>2. Pages(uploader.page)' BY <4>1, <3>10 DEF Pages
      <4>3. uploader'.fw_idx = uploader'.page * PageSize BY <2>1, <3>10 DEF p
      <4> QED BY <2>1, <4>2, <4>3 DEF Begins
    <3>12. Sends(frame)' BY <1>1, <3>7, <3>9, <3>10, <3>11 DEF Sends
    <3> QED BY <3>7, <3>9, <3>10, <3>12 DEF Sent
  <2> QED BY <2>3, <2>4, <2>5
<1> QED BY <1>3, <1>4, <1>5 DEF IsReply

-----------------------------------------------------------------------------
(* The steps of an upload.                                                   *)

LEMMA PhaseSame ==
  ASSUME node' = node, uploader'.fw = uploader.fw, uploader'.fw_size = uploader.fw_size,
         uploader'.page = uploader.page, uploader'.fw_idx = uploader.fw_idx,
         uploader'.done <=> uploader.done
  PROVE  /\ Written' <=> Written
         /\ \A f : Sends(f) => Sends(f)'
         /\ \A type : Replied(type) => Replied(type)'
<1>1. Written' <=> Written BY WrittenSame
<1>2. \A k : Pages(k)' <=> Pages(k) BY PagesSame
<1>3. Pages(uploader.page)' <=> Pages(uploader.page) BY DEF Pages
<1>4. Pages(uploader.page + 1)' <=> Pages(uploader.page + 1) BY DEF Pages
<1>5. Begins' <=> Begins BY <1>3 DEF Begins
<1>6. \A k : Filled(k)' <=> Filled(k) BY <1>3 DEF Filled
<1>7. \A f : Sends(f) => Sends(f)' BY <1>1, <1>5, <1>6 DEF Sends
<1>8. \A type : Replied(type) => Replied(type)' BY <1>4, <1>5, <1>6 DEF Replied
<1> QED BY <1>1, <1>7, <1>8

\* Frames move on, or are lost: nothing else moves.
FramesKept ==
  /\ ToNodeIdle => ToNodeIdle'
  /\ \A f : ToNode(f) => ToNode(f)'
  /\ FromNodeIdle => FromNodeIdle'
  /\ \A f : FromNodeOne(f) => FromNodeOne(f)'

LEMMA TransferKept ==
  ASSUME Transfer, FramesKept, node' = node,
         uploader'.fw = uploader.fw, uploader'.fw_size = uploader.fw_size,
         uploader'.page = uploader.page, uploader'.fw_idx = uploader.fw_idx,
         uploader'.done <=> uploader.done
  PROVE  Transfer'
<1>1. /\ Written' <=> Written
      /\ \A f : Sends(f) => Sends(f)'
      /\ \A type : Replied(type) => Replied(type)'
  BY PhaseSame
<1>2. CASE ToNodeIdle /\ FromNodeIdle /\ (uploader.done => Written)
  BY <1>1, <1>2 DEF FramesKept, Transfer
<1>3. CASE FromNodeIdle /\ \E f : ToNode(f) /\ Sends(f)
  <2>1. PICK f : ToNode(f) /\ Sends(f) BY <1>3
  <2>2. FromNodeIdle' /\ ToNode(f)' /\ Sends(f)' BY <1>1, <1>3, <2>1 DEF FramesKept
  <2> QED BY <2>2 DEF Transfer
<1>4. CASE ToNodeIdle /\ \E f : FromNodeOne(f) /\ Replied(f.type)
  <2>1. PICK f : FromNodeOne(f) /\ Replied(f.type) BY <1>4
  <2>2. ToNodeIdle' /\ FromNodeOne(f)' /\ Replied(f.type)' BY <1>1, <1>4, <2>1 DEF FramesKept
  <2> QED BY <2>2 DEF Transfer
<1> QED BY <1>2, <1>3, <1>4 DEF Transfer

\* A step of the connection or of the bus.
LEMMA UploadKept ==
  ASSUME UploadInv, FramesKept, IsSeq(up)', IsSeq(air)',
         UNCHANGED <<start, pc, status, waiting, uploader, node>>
  PROVE  UploadInv'
<1>1. Uploading' <=> Uploading BY DEF Uploading
<1>2. UploaderInv' <=> UploaderInv BY DEF UploaderInv
<1>3. Transfer => Transfer' BY TransferKept
<1>4. IsNode(node)' <=> IsNode(node) BY DEF IsNode
<1> QED BY <1>1, <1>2, <1>3, <1>4 DEF UploadInv, FramesKept

\* A step before the upload, and a step that ends the program without success.
LEMMA UploadNotBegun ==
  ASSUME UploadInv, UNCHANGED <<start, node>>, pc \in Before, pc' \in Before, status' = "running",
         IsSeq(up)', IsSeq(air)', ToNodeIdle', FromNodeIdle',
         pc' = "recv" => waiting'.what = "authenticate",
         pc' \in {"open", "recv", "authenticated", "run"} =>
           uploader' = NewUploader(start.opt.ihex, start.opt.dst)
  PROVE  UploadInv'
<1>1. ~Uploading' BY DEF Uploading, Before
<1>2. pc' # "exit" BY DEF Before
<1> QED BY <1>1, <1>2 DEF UploadInv

LEMMA UploadGivenUp ==
  ASSUME UploadInv, pc' = "exit", status' # "success", IsSeq(up)', IsSeq(air)'
  PROVE  UploadInv'
<1>1. ~Uploading' BY DEF Uploading
<1>2. pc' \notin Before BY DEF Before
<1> QED BY <1>1, <1>2 DEF UploadInv, Before

LEMMA FramesSame ==
  ASSUME UNCHANGED <<start, up, bus, air, sent, taken, msg>>
  PROVE  FramesKept
  BY ToNodeSame, FromNodeSame DEF FramesKept

LEMMA UploadStarts ==
  ASSUME UploadInv, Prog = "h9fwupload", start.args = "ok",
         ParseCommandLineArg \/ LoadConfiguration \/ ReadIhex
  PROVE  UploadInv'
<1>1. UNCHANGED <<start, node, up, bus, air, sent, taken, msg>>
  BY DEF ParseCommandLineArg, LoadConfiguration, ReadIhex, tcpVars, recvVars, worldVars
<1>2. pc \in {"parse_command_line_arg", "load_configuration", "read_ihex"}
      /\ pc \in Before /\ status = "running"
  BY DEF ParseCommandLineArg, LoadConfiguration, ReadIhex, Before, UploadInv
<1>3. \/ pc' = "exit" /\ status' # "success"
      \/ pc' \in {"load_configuration", "read_ihex"} /\ status' = status
      \/ pc' = "open" /\ status' = status /\ uploader' = NewUploader(start.opt.ihex, start.opt.dst)
  BY DEF ParseCommandLineArg, LoadConfiguration, ReadIhex, Exit, Goto
<1>4. IsSeq(up)' /\ IsSeq(air)' BY <1>1 DEF UploadInv, IsSeq
<1>5. CASE pc' = "exit" /\ status' # "success" BY <1>4, <1>5, UploadGivenUp
<1>6. CASE pc' # "exit" /\ status' = status
  <2>1. ToNodeIdle' /\ FromNodeIdle' BY <1>1, <1>2, FramesSame DEF FramesKept, UploadInv
  <2> QED BY <1>1, <1>2, <1>3, <1>4, <1>6, <2>1, UploadNotBegun DEF Before
<1> QED BY <1>3, <1>5, <1>6

LEMMA UploadOpens ==
  ASSUME UploadInv, Prog = "h9fwupload", Open PROVE UploadInv'
<1>1. /\ UNCHANGED <<start, node, bus, air, sent, taken, msg, uploader>>
      /\ pc = "open" /\ pc \in Before /\ status = "running"
      /\ uploader = NewUploader(start.opt.ihex, start.opt.dst) /\ ToNodeIdle /\ FromNodeIdle
      /\ IsSeq(up) /\ IsSeq(air)
  BY DEF Open, UploadInv, Before, recvVars, worldVars, toolVars
<1>2. IsSeq(air)' BY <1>1 DEF IsSeq
<1>3. FromNodeIdle' BY <1>1, FromNodeSame
<1>4. CASE up' = up /\ pc' = "exit" /\ status' # "success"
  <2>1. IsSeq(up)' BY <1>1, <1>4 DEF IsSeq
  <2> QED BY <1>2, <1>4, <2>1, UploadGivenUp
<1>5. CASE up' = up /\ pc' = "run" /\ status' = status
  <2>1. IsSeq(up)' /\ ToNodeIdle' BY <1>1, <1>5, ToNodeSame DEF IsSeq
  <2> QED BY <1>1, <1>2, <1>3, <1>5, <2>1, UploadNotBegun DEF Before
<1>6. CASE /\ up' = <<[Request("authenticate") EXCEPT !.id = 1]>>
           /\ waiting' = [id |-> 1, what |-> "authenticate"] /\ pc' = "recv" /\ status' = status
  <2>1. PICK q : q = [Request("authenticate") EXCEPT !.id = 1] /\ q.method = "authenticate"
    <3> DEFINE q == [Request("authenticate") EXCEPT !.id = 1]
    <3>1. q.method = "authenticate" BY DEF Request
    <3> QED BY <3>1
  <2>2. up' = <<q>> /\ Len(up') = 1 /\ up'[1] = q BY <1>6, <2>1
  <2>3. <<q>> \in Seq({q}) OBVIOUS
  <2>4. IsSeq(up)' BY <2>2, <2>3, AnyOfSeq
  <2>5. \A i \in 1..Len(up') : up'[i] = q BY <2>2
  <2>6. ToNodeIdle' BY <1>1, <2>1, <2>5 DEF ToNodeIdle, UpIdle
  <2> QED BY <1>1, <1>2, <1>3, <1>6, <2>4, <2>6, UploadNotBegun DEF Before
<1> QED BY <1>4, <1>5, <1>6 DEF Open, OpenFails, Exit, Goto, Running

LEMMA UploadAuthenticated ==
  ASSUME UploadInv, Prog = "h9fwupload", Authenticated PROVE UploadInv'
<1>1. /\ UNCHANGED <<start, node, bus, air, sent, taken, up, uploader>> /\ msg' = EAGAIN
      /\ pc = "recv" /\ pc \in Before /\ status = "running"
      /\ uploader = NewUploader(start.opt.ihex, start.opt.dst) /\ ToNodeIdle /\ FromNodeIdle
      /\ IsSeq(up) /\ IsSeq(air)
  BY DEF Authenticated, Answered, Look, UploadInv, Before, recvVars, worldVars, toolVars
<1>2. IsSeq(up)' /\ IsSeq(air)' /\ ToNodeIdle' BY <1>1, ToNodeSame DEF IsSeq
<1>3. FromNodeIdle'
  <2>1. ~Notifies(msg)' BY <1>1 DEF Notifies, EAGAIN, Nothing
  <2> QED BY <1>1, <2>1, AirSame, SentSame DEF FromNodeIdle
<1>4. \/ pc' = "exit" /\ status' # "success"
      \/ pc' = "authenticated" /\ status' = status
  BY DEF Authenticated, OpenFails, Exit, Goto
<1>5. CASE pc' = "exit" /\ status' # "success" BY <1>2, <1>5, UploadGivenUp
<1>6. CASE pc' = "authenticated" /\ status' = status
  BY <1>1, <1>2, <1>3, <1>6, UploadNotBegun DEF Before
<1> QED BY <1>4, <1>5, <1>6

LEMMA UploadSubscribes ==
  ASSUME UploadInv, Prog = "h9fwupload", Subscribe PROVE UploadInv'
<1>1. /\ UNCHANGED <<start, node, bus, air, sent, taken, msg, uploader>>
      /\ pc = "authenticated" /\ pc \in Before /\ status = "running"
      /\ uploader = NewUploader(start.opt.ihex, start.opt.dst) /\ ToNodeIdle /\ FromNodeIdle
      /\ IsSeq(up) /\ IsSeq(air)
  BY DEF Subscribe, UploadInv, Before, recvVars, worldVars, toolVars
<1>2. IsSeq(air)' BY <1>1 DEF IsSeq
<1>3. FromNodeIdle' BY <1>1, FromNodeSame
<1>4. PICK q : /\ q = [Request("subscribe") EXCEPT !.id = get_next_id] /\ q.method = "subscribe"
  <2> DEFINE q == [Request("subscribe") EXCEPT !.id = get_next_id]
  <2>1. q.method = "subscribe" BY DEF Request
  <2> QED BY <2>1
<1>5. \/ pc' = "exit" /\ status' # "success" /\ up' = up
      \/ pc' = "run" /\ status' = status /\ (up' = up \/ up' = Append(up, q))
  BY <1>4 DEF Subscribe, Send, Exit, Goto, Running
<1>6. up' = up => IsSeq(up)' /\ ToNodeIdle' BY <1>1, ToNodeSame DEF IsSeq
<1>7. up' = Append(up, q) => IsSeq(up)' /\ ToNodeIdle' BY <1>1, <1>4, UpSent DEF ToNodeIdle
<1>8. CASE pc' = "exit" /\ status' # "success" /\ up' = up BY <1>2, <1>6, <1>8, UploadGivenUp
<1>9. CASE pc' = "run" /\ status' = status /\ (up' = up \/ up' = Append(up, q))
  BY <1>1, <1>2, <1>3, <1>6, <1>7, <1>9, UploadNotBegun DEF Before
<1> QED BY <1>5, <1>8, <1>9

\* The first frame.
LEMMA UploadFirst ==
  ASSUME UploadInv, Prog = "h9fwupload", UploadBegins PROVE UploadInv'
<1>1. /\ UNCHANGED <<start, node, air, sent, taken, msg, uploader>>
      /\ pc = "run" /\ status = "running"
      /\ uploader = NewUploader(start.opt.ihex, start.opt.dst) /\ ToNodeIdle /\ FromNodeIdle
      /\ IsSeq(up) /\ IsSeq(air) /\ node \in {App, Boot}
  BY DEF UploadBegins, UploadInv, Before, recvVars, toolVars
<1>2. IsSeq(air)' /\ FromNodeIdle' BY <1>1, FromNodeSame DEF IsSeq
<1>3. PICK f : f = IF start.opt.noupgrademsg THEN PAGE_START(uploader)
                   ELSE Frame("NODE_UPGRADE", 0, start.opt.dst, <<>>)
  OBVIOUS
<1>4. CASE CannotSend
  <2>1. pc' = "exit" /\ status' # "success" /\ up' = up BY <1>4 DEF CannotSend, Exit
  <2>2. IsSeq(up)' BY <1>1, <2>1 DEF IsSeq
  <2> QED BY <1>2, <2>1, <2>2, UploadGivenUp
<1>5. CASE SendFrame(f) /\ Goto("frames")
  <2>1. IsSeq(up)' /\ (ToNodeIdle' \/ ToNode(f)') BY <1>1, <1>5, FrameSends
  <2>2. /\ uploader.page = 0 /\ uploader.fw_idx = 0 /\ uploader.done = FALSE
        /\ UploaderInv
    BY <1>1 DEF NewUploader, UploaderInv, Frame
  <2>3. node.page = -1 /\ node.flash = <<>> /\ IsNode(node) BY <1>1 DEF App, Boot, IsNode
  <2>4. Begins
    <3>1. DOMAIN node.flash = {} BY <2>3
    <3>2. 0..0 - 1 = {} OBVIOUS
    <3>3. Pages(uploader.page) BY <2>2, <3>1, <3>2 DEF Pages
    <3>4. 0 = 0 * PageSize BY PageBytes
    <3> QED BY <2>2, <2>3, <3>3, <3>4 DEF Begins
  <2>5. Sends(f)
    <3>1. CASE start.opt.noupgrademsg
      <4>1. f.type = "PAGE_START" /\ f.data = <<uploader.page \div 256, uploader.page % 256>>
        BY <1>3, <3>1 DEF PAGE_START, Frame
      <4> QED BY <2>2, <2>4, <4>1 DEF Sends
    <3>2. CASE ~start.opt.noupgrademsg
      <4>1. f.type = "NODE_UPGRADE" BY <1>3, <3>2 DEF Frame
      <4> QED BY <2>2, <2>4, <4>1 DEF Sends
    <3> QED BY <3>1, <3>2
  <2>6. Sends(f)' BY <1>1, <2>5, PhaseSame
  <2>7. uploader'.done = FALSE BY <1>1, <2>2
  <2>8. Transfer' BY <1>2, <2>1, <2>6, <2>7 DEF Transfer
  <2>9. UploaderInv' /\ IsNode(node)' BY <1>1, <2>2, <2>3 DEF UploaderInv, IsNode
  <2>10. pc' = "frames" /\ status' = "running" BY <1>1, <1>5 DEF Goto
  <2> QED BY <1>2, <2>1, <2>7, <2>8, <2>9, <2>10 DEF UploadInv, Before
<1> QED BY <1>3, <1>4, <1>5 DEF UploadBegins

\* A frame received.
LEMMA UploadFrame ==
  ASSUME UploadInv, IsIhex(start.opt.ihex), Plain(start.opt.ihex), Upload
  PROVE  UploadInv'
<1>1. /\ UNCHANGED <<start, node, waiting>> /\ TakeFrame("h9fwupload") /\ pc = "frames"
      /\ UploaderInv /\ IsNode(node) /\ Transfer /\ ~uploader.done /\ status = "running"
      /\ IsSeq(up) /\ IsSeq(air)
  BY DEF Upload, TakeFrame, UploadInv, Uploading, progVars
<1>2. PICK f : f = Received OBVIOUS
<1>3. /\ IsSeq(air)'
      /\ FromNodeIdle => FromNodeIdle' /\ ~IsReply(f)
      /\ \A g : FromNodeOne(g) => IF IsReply(f) THEN f = g /\ FromNodeIdle' ELSE FromNodeOne(g)'
  BY <1>1, <1>2, FrameTaken
<1>4. PICK u : u = upload(uploader, f) OBVIOUS
<1>5. /\ uploader' = [u EXCEPT !.frame = NoFrame]
      /\ \/ u.crashed /\ Exit("crashed") /\ UNCHANGED <<up, bus>>
         \/ ~u.crashed /\ u.frame.type = "none" /\ Goto("frames") /\ UNCHANGED <<up, bus>>
         \/ /\ ~u.crashed /\ u.frame.type # "none"
            /\ SendFrame(u.frame) /\ Goto(IF u.done THEN "sent" ELSE "frames")
         \/ CannotSend
  BY <1>2, <1>4 DEF Upload
<1>6. up' = up => IsSeq(up)' BY <1>1 DEF IsSeq
<1>7. CASE (u.crashed /\ Exit("crashed") /\ UNCHANGED <<up, bus>>) \/ CannotSend
  <2>1. pc' = "exit" /\ status' # "success" /\ up' = up BY <1>7 DEF CannotSend, Exit
  <2> QED BY <1>3, <1>6, <2>1, UploadGivenUp
<1>8. CASE ~u.crashed /\ IsReply(f)
  <2>1. ToNodeIdle /\ \E g : FromNodeOne(g) /\ Replied(g.type) BY <1>1, <1>3, <1>8 DEF Transfer
  <2>2. Replied(f.type) /\ FromNodeIdle' BY <1>3, <1>8, <2>1
  <2>3. Sent(u) BY <1>1, <1>4, <1>5, <1>8, <2>2, UploadReacts
  <2>4. PICK frame : frame = u.frame OBVIOUS
  <2>5. Sends(frame)' BY <2>3, <2>4 DEF Sent
  <2>6. CASE SendFrame(u.frame) /\ Goto(IF u.done THEN "sent" ELSE "frames")
    <3>1. IsSeq(up)' /\ (ToNodeIdle' \/ ToNode(frame)') BY <1>1, <2>1, <2>4, <2>6, FrameSends
    <3>2. uploader'.done => Written' BY <2>5 DEF Sends
    <3>3. Transfer' BY <2>2, <2>5, <3>1, <3>2 DEF Transfer
    <3>4. UploaderInv' /\ (u.done <=> uploader'.done) BY <2>3 DEF Sent
    <3>5. pc' = (IF u.done THEN "sent" ELSE "frames") /\ status' = "running"
      BY <1>1, <2>6 DEF Goto
    <3>6. IsNode(node)' BY <1>1 DEF IsNode
    <3> QED BY <1>3, <3>1, <3>3, <3>4, <3>5, <3>6 DEF UploadInv, Before
  <2> QED BY <1>5, <1>7, <1>8, <2>3, <2>6 DEF Sent
<1>9. CASE ~u.crashed /\ ~IsReply(f)
  <2>1. u = uploader BY <1>1, <1>4, <1>9, UploadIgnores
  <2>2. u.frame.type = "none" BY <1>1, <2>1 DEF UploaderInv
  <2>3. CASE Goto("frames") /\ UNCHANGED <<up, bus>>
    <3>1. FramesKept BY <1>3, <1>9, <2>3, ToNodeSame DEF FramesKept
    <3>2. /\ UploaderInv' /\ uploader'.fw = uploader.fw /\ uploader'.fw_size = uploader.fw_size
          /\ uploader'.page = uploader.page /\ uploader'.fw_idx = uploader.fw_idx
          /\ (uploader.done <=> uploader'.done)
      BY <1>1, <1>5, <2>1, UploadGoesOn DEF UploaderInv
    <3>3. Transfer' BY <1>1, <3>1, <3>2, TransferKept
    <3>4. pc' = "frames" /\ status' = "running" /\ ~uploader'.done BY <1>1, <2>3, <3>2 DEF Goto
    <3>5. IsNode(node)' BY <1>1 DEF IsNode
    <3> QED BY <1>3, <1>6, <2>3, <3>2, <3>3, <3>4, <3>5 DEF UploadInv, Before
  <2> QED BY <1>5, <1>7, <1>9, <2>2, <2>3
<1> QED BY <1>5, <1>7, <1>8, <1>9

\* The exit after the last frame, which may be lost.
LEMMA UploadExits == ASSUME UploadInv, SendExits PROVE UploadInv'
<1>1. /\ UNCHANGED <<start, waiting, uploader, node, bus, air, sent, taken, msg>>
      /\ pc = "sent" /\ pc' = "exit" /\ status' = "success"
      /\ UploaderInv /\ IsNode(node) /\ Transfer /\ uploader.done
      /\ IsSeq(up) /\ IsSeq(air)
  BY DEF SendExits, Exit, UploadInv, Uploading, recvVars, toolVars, worldVars
<1>2. UploaderInv' /\ IsNode(node)' /\ IsSeq(air)' /\ uploader'.done
  BY <1>1 DEF UploaderInv, IsNode, IsSeq
<1>3. IsSeq(up)' /\ Transfer'
  <2>1. CASE up' = up
    <3>1. FramesKept BY <1>1, <2>1, FramesSame
    <3> QED BY <1>1, <2>1, <3>1, TransferKept DEF IsSeq
  <2>2. CASE up' = <<>>
    <3>1. IsSeq(up') /\ Len(up') = 0 BY <2>2, EmptyAny
    <3>2. \A i \in 1..0 : FALSE OBVIOUS
    <3>3. UpIdle' BY <3>1, <3>2 DEF UpIdle
    <3>4. /\ Written' <=> Written
          /\ \A f : Sends(f) => Sends(f)'
      BY <1>1, PhaseSame
    <3>5. FromNodeIdle /\ Written /\ (ToNodeIdle \/ \E f : ToNode(f) /\ Sends(f))
      BY <1>1 DEF Transfer, Sends, Replied
    <3>6. FromNodeIdle' BY <1>1, <3>5, FromNodeSame
    <3>7. CASE bus = <<>>
      <4>1. ToNodeIdle' BY <1>1, <3>3, <3>7 DEF ToNodeIdle
      <4> QED BY <3>1, <3>4, <3>5, <3>6, <4>1 DEF Transfer
    <3>8. CASE bus # <<>>
      <4>1. PICK f : ToNode(f) /\ Sends(f) BY <3>5, <3>8 DEF ToNodeIdle
      <4>2. ToNode(f)' BY <1>1, <3>3, <3>8, <4>1 DEF ToNode
      <4>3. Sends(f)' BY <3>4, <4>1
      <4> QED BY <3>1, <3>6, <4>2, <4>3 DEF Transfer
    <3> QED BY <3>7, <3>8
  <2> QED BY <1>1, <2>1, <2>2 DEF SendExits
<1> QED BY <1>1, <1>2, <1>3 DEF UploadInv, Uploading, Before

\* A frame at the node.
LEMMA UploadNode ==
  ASSUME TcpInv, UploadInv, NodeStep PROVE UploadInv'
<1>1. /\ UNCHANGED <<start, pc, status, waiting, uploader, msg>>
      /\ UNCHANGED <<taken, recv_bytes, bytes_to_recv, header_buf, data_buf>>
      /\ IsSeq(up) /\ IsSeq(air) /\ IsSeq(up)'
  BY DEF NodeStep, SilentVars, progVars, toolVars, UploadInv, IsSeq
<1>2. ~ToNodeIdle /\ \A f : ToNode(f) => Head(bus) = f /\ ToNodeIdle' BY FrameReaches
<1>3. PICK f : f = Head(bus) OBVIOUS
<1>4. PICK n : n = Bootloader(node, f) OBVIOUS
<1>5. \/ UNCHANGED <<node, air, sent, stream>>
      \/ /\ node' = n.node
         /\ \/ n.reply = "none" /\ UNCHANGED <<air, sent, stream>>
            \/ FrameOnBus(Frame(n.reply, NodeId, 0, <<0, 5>>))
  BY <1>3, <1>4 DEF NodeStep, FromNode
<1>6. IsSeq(air)'
  <2>1. CASE air' = air BY <1>1, <2>1 DEF IsSeq
  <2>2. CASE FrameOnBus(Frame(n.reply, NodeId, 0, <<0, 5>>))
    <3>1. PICK g : g = Frame(n.reply, NodeId, 0, <<0, 5>>) OBVIOUS
    <3> QED BY <1>1, <2>2, <3>1, FrameComes
  <2> QED BY <1>5, <2>1, <2>2
<1>7. Uploading' <=> Uploading BY <1>1 DEF Uploading
<1>8. CASE Uploading
  <2>1. /\ UploaderInv /\ IsNode(node) /\ FromNodeIdle /\ Sends(f) /\ ToNodeIdle'
        /\ (uploader.done => Written)
    BY <1>2, <1>3, <1>8 DEF UploadInv, Transfer, Sends
  <2>2. UploaderInv' BY <1>1, <2>1 DEF UploaderInv
  <2>3. CASE UNCHANGED <<node, air, sent, stream>>
    <3>1. FromNodeIdle' /\ (Written' <=> Written) /\ IsNode(node)'
      BY <1>1, <2>1, <2>3, FromNodeSame, WrittenSame DEF IsNode
    <3>2. Transfer' BY <1>1, <2>1, <3>1 DEF Transfer
    <3> QED BY <1>1, <1>2, <1>6, <1>7, <1>8, <2>2, <3>1, <3>2 DEF UploadInv, Uploading, Before
  <2>4. CASE node' = n.node
    <3>1. Reacts(n) BY <1>1, <1>4, <2>1, <2>4, NodeReacts
    <3>2. IsNode(node)' BY <3>1 DEF Reacts, IsNode
    <3>3. CASE n.reply = "none" /\ UNCHANGED <<air, sent, stream>>
      <4>1. FromNodeIdle' BY <1>1, <2>1, <3>3, FromNodeSame
      <4>2. Transfer' BY <1>1, <2>1, <3>1, <4>1 DEF Transfer, Reacts
      <4> QED BY <1>1, <1>6, <1>7, <1>8, <2>2, <3>2, <4>2 DEF UploadInv, Uploading, Before
    <3>4. CASE FrameOnBus(Frame(n.reply, NodeId, 0, <<0, 5>>))
      <4>1. PICK g : g = Frame(n.reply, NodeId, 0, <<0, 5>>) OBVIOUS
      <4>2. g.type = n.reply BY <4>1 DEF Frame
      <4>3. /\ ~IsReply(g) => FromNodeIdle'
            /\ IsReply(g) => FromNodeIdle' \/ FromNodeOne(g)'
        BY <1>1, <2>1, <3>4, <4>1, FrameComes
      <4>4. Transfer'
        <5>1. CASE FromNodeIdle' BY <1>1, <2>1, <3>1, <5>1 DEF Transfer, Reacts
        <5>2. CASE IsReply(g) /\ FromNodeOne(g)'
          <6>1. g.type \in Awaited BY <5>2 DEF IsReply, Awaited
          <6>2. Replied(g.type)' BY <3>1, <4>2, <6>1 DEF Reacts
          <6> QED BY <2>1, <5>2, <6>2 DEF Transfer
        <5> QED BY <4>3, <5>1, <5>2
      <4> QED BY <1>1, <1>6, <1>7, <1>8, <2>2, <3>2, <4>4 DEF UploadInv, Uploading, Before
    <3> QED BY <1>5, <2>3, <2>4, <3>3, <3>4
  <2> QED BY <1>5, <2>3, <2>4
<1>9. CASE ~Uploading
  <2>1. pc \notin Before BY <1>2 DEF UploadInv
  <2> QED BY <1>1, <1>6, <1>7, <1>9, <2>1 DEF UploadInv, Before
<1> QED BY <1>8, <1>9

\* The connection and the frames of other nodes.
LEMMA UploadAround ==
  ASSUME TcpInv, CallInv, UploadInv, Prog = "h9fwupload",
         Receive \/ NoFrameReceived \/ Serve \/ DaemonStops \/ (\E f \in Noise : OtherNode(f))
           \/ UNCHANGED clientVars
  PROVE  UploadInv'
<1>1. IsSeq(up) /\ IsSeq(air) BY DEF UploadInv
<1>2. CASE Receive
  <2>1. /\ UNCHANGED <<start, pc, status, waiting, uploader, node, up, bus, air, sent>>
        /\ msg = EAGAIN
    BY <1>2 DEF Receive, recv, progVars, toolVars, worldVars
  <2>2. Partly \/ Ends \/ Returns BY <1>2, RecvStep DEF Receive
  <2>3. FramesKept BY <2>1, <2>2, FrameReceived, ToNodeSame DEF FramesKept
  <2>4. IsSeq(up)' /\ IsSeq(air)' BY <1>1, <2>1 DEF IsSeq
  <2> QED BY <2>1, <2>3, <2>4, UploadKept
<1>3. CASE NoFrameReceived
  <2>1. /\ UNCHANGED <<start, waiting, uploader, node, up, bus, air, sent, taken>>
        /\ msg.kind # "notification" /\ msg' = EAGAIN
    BY <1>3 DEF NoFrameReceived, Look, toolVars, worldVars, recvVars
  <2>2. FramesKept BY <2>1, OtherLooked, ToNodeSame DEF FramesKept
  <2>3. IsSeq(up)' /\ IsSeq(air)' BY <1>1, <2>1 DEF IsSeq
  <2>4. CASE UNCHANGED <<pc, status>> BY <2>1, <2>2, <2>3, <2>4, UploadKept
  <2>5. CASE pc' = "exit" /\ status' # "success" BY <2>3, <2>5, UploadGivenUp
  <2> QED BY <1>3, <2>4, <2>5 DEF NoFrameReceived, Exit, Goto
<1>4. CASE Serve
  <2>1. /\ UNCHANGED <<start, pc, status, waiting, uploader, node, air, msg>>
        /\ UNCHANGED <<taken, recv_bytes, bytes_to_recv, header_buf, data_buf>>
    BY <1>4 DEF Serve, progVars, toolVars
  <2>2. PICK m : /\ Emit(m) /\ m.kind # "notification"
    <3> DEFINE m == [kind |-> IF Unknown(Head(up)) THEN "error" ELSE "response",
                     id |-> Head(up).id, world |-> world, frame |-> NoFrame]
    <3>1. Emit(m) BY <1>4 DEF Serve
    <3>2. m.kind # "notification" OBVIOUS
    <3> HIDE DEF m
    <3>3. PICK n : n = m OBVIOUS
    <3> QED BY <3>1, <3>2, <3>3
  <2>3. /\ FromNodeIdle => FromNodeIdle'
        /\ \A g : FromNodeOne(g) => FromNodeOne(g)'
    BY <2>1, <2>2, AnswerComes
  <2>4. IsSeq(up)' /\ (ToNodeIdle => ToNodeIdle') /\ \A f : ToNode(f) => ToNode(f)'
    BY <1>1, <1>4, RequestRead
  <2>5. IsSeq(air)' BY <1>1, <2>1 DEF IsSeq
  <2> QED BY <2>1, <2>3, <2>4, <2>5, UploadKept DEF FramesKept
<1>5. CASE DaemonStops \/ UNCHANGED clientVars
  <2>1. UNCHANGED <<start, pc, status, waiting, uploader, node, up, bus, air, sent, taken, msg>>
    BY <1>5 DEF DaemonStops, clientVars, tcpVars, progVars, toolVars, worldVars, recvVars
  <2>2. IsSeq(up)' /\ IsSeq(air)' BY <1>1, <2>1 DEF IsSeq
  <2> QED BY <2>1, <2>2, FramesSame, UploadKept
<1>6. CASE \E f \in Noise : OtherNode(f)
  <2>1. PICK f \in Noise : OtherNode(f) BY <1>6
  <2>2. /\ UNCHANGED <<start, pc, status, waiting, uploader, node, up, bus, msg>>
        /\ UNCHANGED <<taken, recv_bytes, bytes_to_recv, header_buf, data_buf>>
        /\ FrameOnBus(f)
    BY <2>1 DEF OtherNode, SilentVars, progVars, toolVars
  <2>3. ~IsReply(f) BY NoiseAssumption DEF IsReply, CallInv, Prog
  <2>4. /\ IsSeq(air)' /\ (FromNodeIdle => FromNodeIdle')
        /\ \A g : FromNodeOne(g) => FromNodeOne(g)'
    BY <1>1, <2>2, <2>3, FrameComes
  <2>5. FramesKept BY <2>2, <2>4, ToNodeSame DEF FramesKept
  <2>6. IsSeq(up)' BY <1>1, <2>2 DEF IsSeq
  <2> QED BY <2>2, <2>4, <2>5, <2>6, UploadKept
<1> QED BY <1>2, <1>3, <1>4, <1>5, <1>6

LEMMA StartKept ==
  ASSUME [Next]_clientVars PROVE start' = start /\ faults \subseteq faults'
<1>1. CASE Program
  BY <1>1 DEF Program, ParseCommandLineArg, LoadConfiguration, ReadIhex, Open, Receive, Authenticated,
     Subscribe, AskDaemon, Refreshed, Resolve, Execute, CommandAnswered, StatsAsk, StatsAnswered,
     SendsOnce, SendExits, NoFrameReceived, Sniff, UploadBegins, Upload, CannotSend,
     progVars, worldVars
<1>2. CASE (\E l \in Lines : TypeLine(l)) \/ EndOfInput \/ Serve \/ WorldChanges \/ DaemonStops
  BY <1>2 DEF TypeLine, EndOfInput, Serve, WorldChanges, DaemonStops, progVars, worldVars
<1>3. CASE NodeStep \/ NodeFails \/ \E f \in Noise : OtherNode(f)
  BY <1>3 DEF NodeStep, NodeFails, OtherNode, SilentVars, progVars
<1>4. CASE UNCHANGED clientVars BY <1>4 DEF clientVars, progVars, worldVars
<1> QED BY <1>1, <1>2, <1>3, <1>4 DEF Next

OrderedInv == Ordered => UploadInv
LEMMA UploadStep ==
  ASSUME TcpInv, CallInv, OrderedInv, [Next]_clientVars PROVE OrderedInv'
<1> SUFFICES ASSUME Ordered' PROVE UploadInv' BY DEF OrderedInv
<1>1. start' = start /\ faults \subseteq faults' BY StartKept
<1>2. Ordered /\ UploadInv BY <1>1 DEF Ordered, OrderedInv, Prog
<1>3. Prog = "h9fwupload" /\ start.args = "ok" /\ Plain(start.opt.ihex) BY <1>2 DEF Ordered
<1>4. IsIhex(start.opt.ihex) BY StartsAssumption DEF CallInv
<1>5. pc \in Before \cup {"frames", "sent", "exit"} /\ (pc = "recv" => waiting.what = "authenticate")
  BY <1>2 DEF UploadInv
<1>6. CASE ParseCommandLineArg \/ LoadConfiguration \/ ReadIhex BY <1>2, <1>3, <1>6, UploadStarts
<1>7. CASE Open BY <1>2, <1>3, <1>7, UploadOpens
<1>8. CASE Authenticated BY <1>2, <1>3, <1>8, UploadAuthenticated
<1>9. CASE Subscribe BY <1>2, <1>3, <1>9, UploadSubscribes
<1>10. CASE UploadBegins BY <1>2, <1>3, <1>10, UploadFirst
<1>11. CASE Upload BY <1>2, <1>3, <1>4, <1>11, UploadFrame
<1>12. CASE NodeStep BY <1>2, <1>12, UploadNode
<1>13. CASE Receive \/ NoFrameReceived \/ Serve \/ DaemonStops \/ (\E f \in Noise : OtherNode(f))
              \/ UNCHANGED clientVars
  BY <1>2, <1>3, <1>13, UploadAround
<1>14. ~NodeFails BY DEF NodeFails, Ordered
<1>15. CASE SendExits BY <1>2, <1>15, UploadExits
<1>16. ~((\E what \in DOMAIN MethodOf : Refreshed(what)) \/ CommandAnswered
           \/ StatsAnswered("get_version") \/ StatsAnswered("get_stats"))
  BY <1>5, MethodsKnown DEF Refreshed, CommandAnswered, StatsAnswered, Answered
<1>17. ~(StatsAsk \/ SendsOnce \/ Sniff \/ (\E l \in Lines : TypeLine(l)) \/ EndOfInput
           \/ WorldChanges)
  BY <1>3 DEF StatsAsk, SendsOnce, Sniff, TakeFrame, TypeLine, EndOfInput, WorldChanges
<1>18. ~(AskDaemon \/ Resolve \/ Execute)
  BY <1>5 DEF AskDaemon, Resolve, Execute, Before
<1> QED BY <1>6, <1>7, <1>8, <1>9, <1>10, <1>11, <1>12, <1>13, <1>14, <1>15, <1>16, <1>17,
        <1>18 DEF Next, Program

LEMMA UploadInit == ASSUME ClientInit PROVE OrderedInv
<1> SUFFICES ASSUME Ordered PROVE UploadInv BY DEF OrderedInv
<1>1. /\ up = <<>> /\ air = <<>> /\ bus = <<>> /\ sent = <<>> /\ msg = EAGAIN
      /\ pc = "parse_command_line_arg" /\ status = "running"
      /\ Prog = "h9fwupload" /\ node \in {App, Boot}
  BY DEF ClientInit, TcpInit, Ordered, Prog
<1>2. IsSeq(up) /\ IsSeq(air) /\ Len(up) = 0 /\ Len(air) = 0 /\ Len(sent) = 0 BY <1>1, EmptyAny
<1>3. \A i \in 1..0 : FALSE OBVIOUS
<1>4. ToNodeIdle BY <1>1, <1>2, <1>3 DEF ToNodeIdle, UpIdle
<1>5. ~Notifies(msg) BY <1>1 DEF Notifies, EAGAIN, Nothing
<1>6. FromNodeIdle BY <1>2, <1>3, <1>5 DEF FromNodeIdle, AirIdle, SentIdle
<1> QED BY <1>1, <1>2, <1>4, <1>6 DEF UploadInv, Before, Uploading

LEMMA PageOf ==
  ASSUME NEW a \in Nat, NEW w \in Nat, w > 0, NEW k \in Nat, a < k * w
  PROVE  a \div w \in 0..k - 1
<1>1. a \div w \in Int /\ a \div w >= 0 BY SMT
<1>2. a \div w < k BY SMT
<1> QED BY <1>1, <1>2

\* When h9fwupload says it is done, the flash of the node holds the bytes of the
\* file at their addresses and 0xff elsewhere, for any file in order of addresses
\* without segment addresses, size of a page, daemon or driver, and frames of other
\* nodes, if the node neither restarts nor gives a page up.
THEOREM UploadSafe == Spec => []FirmwareIsFile
<1>1. ClientInit => TcpInv /\ CallInv /\ OrderedInv
  BY TcpStart, CallBegins, UploadInit DEF ClientInit
<1>2. TcpInv /\ CallInv /\ OrderedInv /\ [Next]_clientVars => TcpInv' /\ CallInv' /\ OrderedInv'
  BY TcpStep, CallStep, UploadStep
<1>3. CallInv /\ OrderedInv => FirmwareIsFile
  <2> SUFFICES ASSUME CallInv, OrderedInv, Ordered, status = "success"
               PROVE  FlashIsFile
    BY DEF FirmwareIsFile, Uploaded, Ordered, Plain
  <2>1. UploadInv /\ Plain(start.opt.ihex) /\ IsIhex(start.opt.ihex)
    BY StartsAssumption DEF OrderedInv, Ordered, CallInv
  <2>2. Uploading /\ uploader.done BY <2>1 DEF UploadInv, Uploading
  <2>3. UploaderInv /\ Written BY <2>1, <2>2 DEF UploadInv, Transfer, Sends, Replied
  <2>4. PICK fw, size : fw = read_ihex(start.opt.ihex).fw /\ size = read_ihex(start.opt.ihex).length
    OBVIOUS
  <2>5. uploader.fw = fw /\ uploader.fw_size = size BY <2>3, <2>4 DEF UploaderInv
  <2>6. PICK k \in Nat : /\ DOMAIN node.flash = 0..k - 1 /\ size <= k * PageSize
                         /\ \A p \in 0..k - 1 : node.flash[p] = Bytes(fw, p * PageSize, PageSize)
    BY <2>3, <2>5 DEF Written, Pages
  <2>7. ASSUME NEW p \in DOMAIN node.flash, NEW i \in 1..PageSize
        PROVE  node.flash[p][i] = ByteOf(start.opt.ihex, p * PageSize + i - 1)
    <3>1. p \in Nat /\ PageSize \in Nat BY <2>6, PageBytes
    <3>2. PICK a \in Nat : a = p * PageSize BY <3>1, PageStarts
    <3>3. node.flash[p][i] = At(fw, a + i - 1)
      <4>1. node.flash[p] = Bytes(fw, a, PageSize) BY <2>6, <3>2
      <4> QED BY <4>1, <3>1, <3>2 DEF Bytes
    <3>4. a + i - 1 \in Nat BY <3>1, <3>2
    <3>5. At(fw, a + i - 1) = ByteOf(start.opt.ihex, a + i - 1)
      BY <2>1, <2>4, <3>4, ImageIsFile
    <3> QED BY <3>2, <3>3, <3>5
  <2>8. ASSUME NEW i \in ProgramLines(start.opt.ihex), NEW x \in 1..Len(start.opt.ihex[i].data)
        PROVE  (Address(start.opt.ihex, i) + x - 1) \div PageSize \in DOMAIN node.flash
    <3>1. ReadBytes(start.opt.ihex, Len(start.opt.ihex), read_ihex(start.opt.ihex))
          /\ ReadTypes(read_ihex(start.opt.ihex))
      BY <2>1, ReadAll DEF ReadOK
    <3>7. i <= Len(start.opt.ihex) BY <2>1, LineTypes DEF ProgramLines
    <3>8. PICK a : a = Address(start.opt.ihex, i) + x - 1 OBVIOUS
    <3>9. a \in DOMAIN fw BY <2>4, <3>1, <3>7, <3>8 DEF ReadBytes, DataOf
    <3>2. a \in Nat /\ a < size /\ size \in Nat BY <2>4, <3>1, <3>9 DEF ReadBytes, ReadTypes
    <3>3. PICK w \in Nat : w = PageSize /\ w > 0 BY PageBytes
    <3>4. PICK y \in Nat : y = k * w BY <3>3
    <3>5. a < y BY <2>6, <3>2, <3>3, <3>4
    <3>6. a \div w \in 0..k - 1 BY <3>2, <3>3, <3>4, <3>5, PageOf
    <3> QED BY <2>6, <3>3, <3>6, <3>8
  <2> QED BY <2>7, <2>8 DEF FlashIsFile
<1> QED BY <1>1, <1>2, <1>3, PTL DEF Spec
=============================================================================

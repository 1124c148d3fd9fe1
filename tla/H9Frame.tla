------------------------------- MODULE H9Frame -------------------------------
(***************************************************************************)
(* H9Frame (src/common/h9_frame.cc): the fields of a frame, its 29-bit CAN *)
(* identifier, its 13 serialised bytes and its JSON form, and the forms in *)
(* which the bus drivers (src/bus_driver/) put it on their line.           *)
(*                                                                         *)
(* The bit lengths come from h9def.h of the h9can library and are those of *)
(* doc/Frame.md.  A field the code does not set keeps what the object held *)
(* before: the operators that fill a frame take that object.               *)
(***************************************************************************)
EXTENDS Integers, Sequences

TYPE_BIT_LENGTH == 5
ID_BIT_LENGTH == 8
FLAGS_BITS_LENGTH == 3
SEQNUM_BIT_LENGTH == 5
BROADCAST_GROUP_BIT_LENGTH == 16
MAX_DATA_LENGTH == 8
BROADCAST_ALL_GROUP == 65535

\* H9Frame::Type, in the order of the enumeration.
COMMAND_ERROR == 8
REG_VALUE == 9
SET_REG == 10
GET_REG == 11
SET_BIT == 12
CLEAR_BIT == 13
NODE_UPGRADE == 14
NODE_RESET == 15
DISCOVER == 16
REG_VALUE_BROADCAST == 19
NODE_INFO == 21
NODE_TURNED_ON == 22

\* H9Frame::Error, by the codes of doc/Frame.md.
BOOTLOADER_UNSUPPORTED == 2
INVALID_REGISTER == 5
REGISTER_SIZE_MISMATCH == 8

Byte == 0..255
Word == 0..(2^16 - 1)

\* The low n bits of a number, and a number shifted right.
Low(x, n) == x % 2^n
Shr(x, n) == x \div 2^n

\* htons, htonl: n bytes of a number, the highest first.
BigEndian(v, n) == [i \in 1..n |-> Low(Shr(v, 8 * (n - i)), 8)]

H9Frames == [type : Byte, source_id : Byte, flags : Byte, destination_id : Byte, seqnum : Byte,
             group : Word, dlc : Byte, data : [1..MAX_DATA_LENGTH -> Byte]]

is_unicast(f) == f.type < DISCOVER

\* Frames that fit on a line: no field is wider than its bits, the flags aside.
FitFrames == {f \in H9Frames : /\ f.type < 32 /\ f.dlc <= MAX_DATA_LENGTH
                               /\ is_unicast(f) => f.seqnum < 32}

\* H9Frame(): every field holds garbage g.
Blank(g) ==
  [type |-> Low(g, 8), source_id |-> Low(g, 8), flags |-> Low(g, 8), destination_id |-> Low(g, 8),
   seqnum |-> Low(g, 8), group |-> g, dlc |-> Low(g, 8),
   data |-> [i \in 1..MAX_DATA_LENGTH |-> Low(g, 8)]]

\* data(vector): at most eight bytes are taken, and dlc is set to their number.
WithData(f, bytes) ==
  LET n == IF Len(bytes) < MAX_DATA_LENGTH THEN Len(bytes) ELSE MAX_DATA_LENGTH
  IN [f EXCEPT !.dlc = n,
               !.data = [i \in 1..MAX_DATA_LENGTH |-> IF i <= n THEN bytes[i] ELSE f.data[i]]]

\* The two constructors: what they do not name is left unset (old).
Unicast(old, type, flags, dst, bytes) ==
  WithData([old EXCEPT !.type = type, !.flags = flags, !.destination_id = dst], bytes)
Broadcast(old, type, group, bytes) ==
  WithData([old EXCEPT !.type = type, !.group = group], bytes)

-----------------------------------------------------------------------------
(* The CAN identifier and the serialised form. *)

\* can_id(): fields wider than their bits are cut.
can_id(f) ==
  LET head == Low(f.type, TYPE_BIT_LENGTH) * 2^ID_BIT_LENGTH + Low(f.source_id, ID_BIT_LENGTH)
  IN IF is_unicast(f)
     THEN (((head * 2^FLAGS_BITS_LENGTH + Low(f.flags, FLAGS_BITS_LENGTH))
             * 2^ID_BIT_LENGTH + Low(f.destination_id, ID_BIT_LENGTH))
             * 2^SEQNUM_BIT_LENGTH + Low(f.seqnum, SEQNUM_BIT_LENGTH))
     ELSE head * 2^BROADCAST_GROUP_BIT_LENGTH + Low(f.group, BROADCAST_GROUP_BIT_LENGTH)

\* Mutant: the destination is looked for one bit off.
FromCanIdOff(old, id) ==
  LET head == [old EXCEPT
        !.type = Low(Shr(id, ID_BIT_LENGTH + FLAGS_BITS_LENGTH + ID_BIT_LENGTH + SEQNUM_BIT_LENGTH),
                     TYPE_BIT_LENGTH),
        !.source_id = Low(Shr(id, FLAGS_BITS_LENGTH + ID_BIT_LENGTH + SEQNUM_BIT_LENGTH), ID_BIT_LENGTH)]
  IN IF is_unicast(head)
     THEN [head EXCEPT !.flags = Low(Shr(id, ID_BIT_LENGTH + SEQNUM_BIT_LENGTH), FLAGS_BITS_LENGTH),
                       !.destination_id = Low(Shr(id, SEQNUM_BIT_LENGTH + 1), ID_BIT_LENGTH),
                       !.seqnum = Low(id, SEQNUM_BIT_LENGTH)]
     ELSE [head EXCEPT !.group = Low(id, BROADCAST_GROUP_BIT_LENGTH)]

\* can_id(id): a broadcast leaves flags, destination and number as they were, a
\* unicast the group.
FromCanId(old, id) ==
  LET head == [old EXCEPT
        !.type = Low(Shr(id, ID_BIT_LENGTH + FLAGS_BITS_LENGTH + ID_BIT_LENGTH + SEQNUM_BIT_LENGTH),
                     TYPE_BIT_LENGTH),
        !.source_id = Low(Shr(id, FLAGS_BITS_LENGTH + ID_BIT_LENGTH + SEQNUM_BIT_LENGTH), ID_BIT_LENGTH)]
  IN IF is_unicast(head)
     THEN [head EXCEPT !.flags = Low(Shr(id, ID_BIT_LENGTH + SEQNUM_BIT_LENGTH), FLAGS_BITS_LENGTH),
                       !.destination_id = Low(Shr(id, SEQNUM_BIT_LENGTH), ID_BIT_LENGTH),
                       !.seqnum = Low(id, SEQNUM_BIT_LENGTH)]
     ELSE [head EXCEPT !.group = Low(id, BROADCAST_GROUP_BIT_LENGTH)]

\* serialize(): identifier, dlc and all eight bytes.
serialize(f) ==
  LET id == can_id(f)
  IN <<Low(Shr(id, 24), 8), Low(Shr(id, 16), 8), Low(Shr(id, 8), 8), Low(id, 8), f.dlc>> \o f.data

\* deserialize(bytes) takes the fields out of the bytes without the identifier;
\* destination_id is a byte, so what is shifted past it is lost.
deserialize(old, s) ==
  LET head == [old EXCEPT !.type = Low(s[1], TYPE_BIT_LENGTH), !.source_id = Low(s[2], ID_BIT_LENGTH)]
      named == IF is_unicast(head)
               THEN [head EXCEPT !.flags = Low(Shr(s[3], 8 - FLAGS_BITS_LENGTH), FLAGS_BITS_LENGTH),
                                 !.destination_id = Low(s[3] * 2^FLAGS_BITS_LENGTH, 8)
                                                    + Shr(s[4], SEQNUM_BIT_LENGTH),
                                 !.seqnum = Low(s[4], SEQNUM_BIT_LENGTH)]
               ELSE [head EXCEPT !.group = s[3] * 256 + s[4]]
  IN [named EXCEPT !.dlc = IF s[5] < 8 THEN s[5] ELSE 8,
                   !.data = [i \in 1..MAX_DATA_LENGTH |-> s[5 + i]]]

\* deserialize(can_id, dlc, data)
FromCan(old, id, dlc, data) == [FromCanId(old, id) EXCEPT !.dlc = dlc, !.data = data]

-----------------------------------------------------------------------------
(* JSON. *)

\* to_json: the members depend on the kind of frame; data has dlc bytes.
to_json(f) ==
  LET data == SubSeq(f.data, 1, f.dlc)
  IN IF is_unicast(f)
     THEN [type |-> f.type, source_id |-> f.source_id, seqnum |-> f.seqnum,
           destination_id |-> f.destination_id, flags |-> f.flags, dlc |-> f.dlc, data |-> data]
     ELSE [type |-> f.type, source_id |-> f.source_id, broadcast_group |-> f.group,
           dlc |-> f.dlc, data |-> data]

\* from_json: every member is optional; data, when there, sets dlc again.
from_json(old, j) ==
  LET member(name, field) == IF name \in DOMAIN j THEN j[name] ELSE old[field]
      named == [old EXCEPT !.type = member("type", "type"),
                           !.source_id = member("source_id", "source_id"),
                           !.seqnum = member("seqnum", "seqnum"),
                           !.destination_id = member("destination_id", "destination_id"),
                           !.flags = member("flags", "flags"),
                           !.group = member("broadcast_group", "group"),
                           !.dlc = member("dlc", "dlc")]
  IN IF "data" \in DOMAIN j THEN WithData(named, j.data) ELSE named

-----------------------------------------------------------------------------
(* The drivers. *)

\* SLCAN: build_slcan_msg writes T, the identifier, dlc and dlc bytes, and
\* parse_slcan_msg reads them back; a line that is too short is refused. Bytes
\* past dlc come from an array that was not set (old).
build_slcan_msg(f) == [id |-> can_id(f), dlc |-> f.dlc, bytes |-> SubSeq(f.data, 1, f.dlc)]
parse_slcan_msg(old, line) ==
  FromCan(old, line.id, line.dlc,
          [i \in 1..MAX_DATA_LENGTH |-> IF i <= line.dlc THEN line.bytes[i] ELSE old.data[i]])

\* SocketCAN: the kernel's can_frame; the extended-frame flag is set for the
\* line and is above the bits can_id(id) looks at.
socketcan_send(f) == [can_id |-> can_id(f), eff |-> TRUE, can_dlc |-> f.dlc, data |-> f.data]
socketcan_recv(old, m) == FromCan(old, m.can_id, m.can_dlc, m.data)

\* h9d over h9d: the frame travels as JSON in send_frame and on_frame.
h9d_send(f) == to_json(f)
h9d_recv(old, j) == from_json(old, j)

\* loop, udp, pipe and virtual send the serialised bytes in a datagram.
Datagram == {"loop", "udp", "pipe", "virtual"}
\* One driver for each form a frame takes.
Formats == {"udp", "SLCAN", "SocketCAN", "h9d"}

\* The frame an endpoint of driver d makes of frame f sent to it.
Carried(d, old, f) ==
  CASE d = "SLCAN"     -> parse_slcan_msg(old, build_slcan_msg(f))
    [] d = "SocketCAN" -> socketcan_recv(old, socketcan_send(f))
    [] d = "h9d"       -> h9d_recv(old, h9d_send(f))
    [] d \in Datagram  -> deserialize(old, serialize(f))

\* What a frame means: the fields its kind has, of the flags the bits there are for
\* them on a line (an object whose flags were never set may hold more), and its dlc
\* bytes.
Meaning(f) ==
  IF is_unicast(f) THEN [to_json(f) EXCEPT !.flags = Low(@, FLAGS_BITS_LENGTH)] ELSE to_json(f)
=============================================================================

----------------------------- MODULE VirtualNode -----------------------------
(***************************************************************************)
(* The virtual node: VirtualEndpoint and VirtualPyNode (src/h9d/) and the  *)
(* h9 module they give to Python (py_h9.cc).  The frame handler is an      *)
(* operator that returns every outcome it may have: the node afterwards    *)
(* and the frames it sent.                                                 *)
(*                                                                         *)
(* The Python module is not part of the daemon: it keeps one register, and *)
(* answers a frame or raises an exception.                                 *)
(***************************************************************************)
EXTENDS H9Frame

CONSTANTS
  VirtualId,      \* id in the configuration file
  VirtualType,    \* node type in the configuration file
  PyModule,       \* name of the Python module, as characters
  Garbage         \* what memory that is not set may hold

ASSUME VirtualAssumption ==
  /\ VirtualId \in 1..511 /\ VirtualType \in Word
  /\ PyModule \in Seq(1..255)
  /\ Garbage \subseteq Word /\ Garbage # {}

VERSION == <<0, 0, 0, 3, 0, 1>>    \* major, minor and patch, two bytes each
PY_REG == 10

NoVirtualNode == [alive |-> FALSE, id |-> 0, new_id |-> 0, reg |-> <<0>>]

\* Both bytes of the type and four of the version, as NODE_INFO and
\* NODE_TURNED_ON carry them.
NodeInfo == BigEndian(VirtualType, 2) \o SubSeq(VERSION, 1, 4) \o <<0, 0>>

\* send_turned_on_broadcast
TurnedOn(old, id) ==
  [Broadcast(old, NODE_TURNED_ON, VirtualType, NodeInfo) EXCEPT !.source_id = Low(id, 8)]

\* The constructor, in create_node and in reload_node: the new id is the id.
Created(id, reg) == [alive |-> TRUE, id |-> id, new_id |-> id, reg |-> reg]

\* A reply to f, from an object that was not set.
Reply(old, n, f, type, bytes) ==
  [WithData([old EXCEPT !.type = type], bytes)
     EXCEPT !.seqnum = f.seqnum, !.source_id = Low(n.id, 8), !.destination_id = f.source_id]

\* Frames of the h9 module: H9Frame() is zeroed, and its setters raise an
\* exception for a value out of range.
PyFrame(type, seqnum, dst, src, bytes) ==
  IF type < 2^TYPE_BIT_LENGTH /\ seqnum < 2^SEQNUM_BIT_LENGTH /\ dst < 256 /\ src < 256
     /\ Len(bytes) <= MAX_DATA_LENGTH
  THEN {<<WithData([Blank(0) EXCEPT !.type = type, !.seqnum = seqnum, !.destination_id = dst,
                                    !.source_id = src], bytes)>>}
  ELSE {}

\* The Python module's answer; <<>> if it raises.
PyOnFrame(n, f) ==
  LET reg == IF f.type = SET_REG /\ f.data[1] = PY_REG THEN SubSeq(f.data, 2, f.dlc) ELSE n.reg
      replies == IF f.type \notin {GET_REG, SET_REG} THEN {}
                 ELSE IF f.data[1] # PY_REG
                 THEN PyFrame(COMMAND_ERROR, f.seqnum, f.source_id, n.id, <<INVALID_REGISTER>>)
                 ELSE PyFrame(REG_VALUE, f.seqnum, f.source_id, n.id, <<PY_REG>> \o reg)
  IN {[node |-> n, sent |-> <<>>]} \cup {[node |-> [n EXCEPT !.reg = reg], sent |-> s] : s \in replies}

\* call_py_on_frame: a module that did not load is not called.
CallPyOnFrame(n, f) == IF PyModule = <<>> THEN {[node |-> n, sent |-> <<>>]} ELSE PyOnFrame(n, f)

ForGroup(f) == f.group \in {VirtualType, BROADCAST_ALL_GROUP}
\* destination_id is a byte: no frame reaches an id above 255.
ForNode(n, f) == f.destination_id = n.id

\* GET_REG of a standard register. Register 3 does not set the first byte.
StdRegister(old, n, r) ==
  CASE r = 1 -> BigEndian(VirtualType, 2)
    [] r = 2 -> VERSION
    [] r = 3 -> SubSeq(PyModule, 1, IF Len(PyModule) < 6 THEN Len(PyModule) ELSE 6)
    [] r = 4 -> BigEndian(n.new_id, 2)
    [] r = 5 -> <<255>>
GetStdRegister(old, n, f) ==
  LET r == f.data[1]
  IN IF r \in 1..5
     THEN Reply(old, n, f, REG_VALUE, <<IF r = 3 THEN old.data[1] ELSE r>> \o StdRegister(old, n, r))
     ELSE Reply(old, n, f, COMMAND_ERROR, <<INVALID_REGISTER>>)

\* Mutant: the high byte of the id is not masked.
SetStdRegisterWide(old, n, f) ==
  IF f.data[1] = 4 /\ f.dlc = 3
  THEN [node |-> [n EXCEPT !.new_id = f.data[2] * 256 + f.data[3]],
        sent |-> <<Reply(old, n, f, REG_VALUE, SubSeq(f.data, 1, 3))>>]
  ELSE [node |-> n, sent |-> <<Reply(old, n, f, COMMAND_ERROR, <<INVALID_REGISTER>>)>>]

\* SET_REG of a standard register: only the id, in two bytes of which nine bits
\* are kept, and for the next reset.
SetStdRegister(old, n, f) ==
  IF f.data[1] = 4 /\ f.dlc = 3
  THEN [node |-> [n EXCEPT !.new_id = Low(f.data[2], 1) * 256 + f.data[3]],
        sent |-> <<Reply(old, n, f, REG_VALUE, SubSeq(f.data, 1, 3))>>]
  ELSE [node |-> n, sent |-> <<Reply(old, n, f, COMMAND_ERROR, <<INVALID_REGISTER>>)>>]

\* VirtualPyNode::on_frame. DISCOVER prepares a NODE_INFO and sends the request
\* back; NODE_RESET is a unicast, whose group is not set.
on_frame(n, f, old) ==
  CASE f.type = DISCOVER /\ ForGroup(f) -> {[node |-> n, sent |-> <<f>>]}
    [] f.type = NODE_RESET /\ ForGroup(f) ->
         {[node |-> Created(n.new_id, <<0>>), sent |-> <<TurnedOn(old, n.new_id)>>]}
    [] f.type = SET_REG /\ ForNode(n, f) /\ f.dlc > 1 ->
         IF f.data[1] >= 10 THEN CallPyOnFrame(n, f) ELSE {SetStdRegister(old, n, f)}
    [] f.type = GET_REG /\ ForNode(n, f) /\ f.dlc = 1 ->
         IF f.data[1] >= 10 THEN CallPyOnFrame(n, f)
         ELSE {[node |-> n, sent |-> <<GetStdRegister(old, n, f)>>]}
    [] f.type \in {SET_BIT, CLEAR_BIT} /\ ForNode(n, f) -> CallPyOnFrame(n, f)
    [] f.type = NODE_UPGRADE /\ ForNode(n, f) ->
         {[node |-> n, sent |-> <<Reply(old, n, f, COMMAND_ERROR, <<BOOTLOADER_UNSUPPORTED>>)>>]}
    [] OTHER -> {[node |-> n, sent |-> <<>>]}
=============================================================================

------------------------------- MODULE Request -------------------------------
(***************************************************************************)
(* A request of a client from the API to a node and back: API (api.cc),    *)
(* NodeMgr and Node (node_mgr.cc, node.cc), the node descriptions          *)
(* (node_desc_loader.cc), the bus with the drivers' conversions, and at    *)
(* the other end of the lines the virtual node and a node of a real bus.   *)
(*                                                                         *)
(* One client, one request at a time: how several callers, late answers    *)
(* and the threads of the daemon interleave is the subject of Bus,         *)
(* RawNode, NodeMgr and TcpService; how descriptions are reloaded while    *)
(* nodes are initialised, that of NodeDesc.  Forwarding between endpoints  *)
(* is off.                                                                 *)
(***************************************************************************)
EXTENDS NodeRegister, VirtualNode, Startup, FiniteSets

CONSTANTS
  BusId,       \* id of the daemon on the bus
  PeerId,      \* id of the node on the real bus
  PeerType,    \* its type
  PeerRegs,    \* its registers when it is turned on: number -> bytes
  PeerStrings, \* those that hold a string, filled up with zeros
  Files,       \* contents the description file may have: type -> registers, or Unreadable
  Requests,    \* requests the client may make, see NoRequest
  MaxCalls

ASSUME RequestAssumption ==
  /\ {BusId, PeerId} \subseteq Byte /\ BusId # PeerId /\ PeerType \in Word \ {0}
  /\ DOMAIN PeerRegs \subseteq Byte /\ PeerStrings \subseteq DOMAIN PeerRegs
  /\ MaxCalls \in Nat

\* bad: a parameter is missing or of the wrong type.
NoRequest == [method |-> "none", bad |-> FALSE, id |-> 0, reg |-> 0, value |-> Error("none"),
              bit |-> 0, frame |-> Blank(0), raw |-> FALSE, dev |-> "none", dmethod |-> "none"]

\* Registers hold bytes and have a description; a client's integer is a number, any
\* other value it may give is made of bytes. reload_nodes_description is in NodeDesc.
ASSUME ContentsAssumption ==
  /\ PeerRegs \in [DOMAIN PeerRegs -> Seq(Byte)]
  /\ \A f \in Files \ {Unreadable} : \A t \in DOMAIN f :
       DOMAIN f[t] \subseteq Nat /\ \A r \in DOMAIN f[t] : f[t][r] \in DescType
  /\ \A r \in Requests : /\ DOMAIN r = DOMAIN NoRequest /\ r.method # "reload_nodes_description"
                         /\ r.bit \in Byte /\ r.frame \in H9Frames /\ r.raw \in BOOLEAN
                         /\ r.value = Json(r.value.json, r.value.value)
                         /\ IF r.value.json = "integer" THEN r.value.value[1] \in Int
                            ELSE r.value.value \in Seq(Byte)
                         /\ r.value.json = "float" => Len(r.value.value) = 4

\* The frames that clients give to send_frame fit. Nothing in the daemon sees to it
\* (H9Frame::is_valid returns true): a hypothesis of the theorems that need it.
FitRequests == \A r \in Requests : r.frame \in FitFrames

\* And those frames are not for the node on the real bus, nor say they are from it.
OwnRequests ==
  \A r \in Requests : r.method = "send_frame" =>
    /\ ~(is_unicast(r.frame) /\ r.frame.destination_id = PeerId)
    /\ r.raw => r.frame.source_id # PeerId

VARIABLES
  file,           \* the description file
  types,          \* NodeDescLoader::types
  nodes,          \* NodeMgr::nodes: id -> [init, type, regs] (the register_map)
  dev,            \* the antenna switch device: [switch_node_id, selected]
  vnode, peer,    \* the virtual node, and the registers of the real one
  down, up,       \* frames on the lines, to and from the nodes: [sent, got]
  next_seqnum,
  authenticated,
  pc,             \* of the client's thread: "idle" or "waiting" for an answer
  request,        \* the request last sent to a node, if nothing else was asked since
  seqnum,         \* number of the frame whose answer is awaited
  response,       \* the last response
  calls,          \* number of requests made
  written         \* history: value last set in each register of the real node

requestVars == <<file, types, nodes, dev, vnode, peer, down, up, next_seqnum, authenticated,
                 pc, request, seqnum, response, calls, written>>

\* AntennaSwitchDev
ANTENNA_SWITCH_NODE_TYPE == 5
ANTENNA_SELECT_REG == 10
Dev == "antenna_switch"
NoNodeId == 65535

RequestInit ==
  /\ file \in Files /\ types = <<>> /\ nodes = <<>>
  /\ dev = [switch_node_id |-> NoNodeId, selected |-> 0]
  /\ vnode = NoVirtualNode /\ peer = PeerRegs
  /\ down = [l \in {"virtual", "bus"} |-> <<>>] /\ up = down
  /\ next_seqnum = 0 /\ authenticated = FALSE
  /\ pc = "idle" /\ request = NoRequest /\ seqnum = 0 /\ response = Error("none") /\ calls = 0
  /\ written = <<>>

-----------------------------------------------------------------------------
(* The lines. *)

Lines == {"virtual", "bus"}
RealEndpoints == endpoints \ {0}
Open(l) == IF l = "virtual" THEN 0 \in endpoints ELSE RealEndpoints # {}
Driver(l) == IF l = "virtual" THEN "virtual"
             ELSE cfg.endpoints[CHOOSE i \in RealEndpoints : TRUE].driver
Quiet == \A l \in Lines : Open(l) => down[l] = <<>> /\ up[l] = <<>>

\* A frame on line l, as it was sent and as it is read at the other end into
\* an object that holds garbage x.
OnLine(l, f, x) == [sent |-> f, got |-> Carried(Driver(l), Blank(x), f)]

\* What Bus::recv_thread_send does to a frame that is not raw: source, and a
\* number for the requests.
Numbered == 0..4 \cup {SET_REG, GET_REG, SET_BIT, CLEAR_BIT, NODE_UPGRADE, NODE_RESET}
Stamped(f, raw) ==
  IF raw THEN f
  ELSE [f EXCEPT !.source_id = BusId, !.seqnum = IF f.type \in Numbered THEN next_seqnum ELSE @]

\* Bus::send_frame: every endpoint gets the frame; a loop endpoint sends it back.
Send(f, raw, x) ==
  LET g == Stamped(f, raw)
      On(l) == <<OnLine(l, g, x)>>
      Looped(l) == Driver(l) = "loop"
  IN /\ down' = [l \in Lines |-> IF Open(l) /\ ~Looped(l) THEN down[l] \o On(l) ELSE down[l]]
     /\ up' = [l \in Lines |-> IF Open(l) /\ Looped(l) THEN up[l] \o On(l) ELSE up[l]]
     /\ next_seqnum' = IF ~raw /\ f.type \in Numbered THEN (next_seqnum + 1) % 2^SEQNUM_BIT_LENGTH
                       ELSE next_seqnum
     /\ seqnum' = g.seqnum

SendUp(l, frames, x) == up' = [up EXCEPT ![l] = @ \o [i \in DOMAIN frames |-> OnLine(l, frames[i], x)]]

-----------------------------------------------------------------------------
(* Descriptions and nodes. *)

NewNode == [init |-> FALSE, type |-> 0, regs |-> <<>>]

\* Node::init: nothing but _init changes if the type is known (the version and
\* the hardware of a node stay the same).
NodeInit(n, t) ==
  IF n.type = t THEN [n EXCEPT !.init = TRUE]
  ELSE [init |-> TRUE, type |-> t, regs |-> load_description(types, t)]

\* Mutant: only a node that is turned on is initialised.
UpdateNodesLate(f) ==
  LET id == f.source_id
      old == IF id \in DOMAIN nodes THEN nodes[id] ELSE NewNode
      new == IF f.type = NODE_TURNED_ON THEN NodeInit(old, f.data[1] * 256 + f.data[2]) ELSE old
  IN [i \in DOMAIN nodes \cup {id} |-> IF i = id THEN new ELSE nodes[i]]

\* What the update thread does to nodes: the sender of any frame gets a node,
\* and NODE_INFO and NODE_TURNED_ON initialise it.
UpdateNodes(f) ==
  LET id == f.source_id
      old == IF id \in DOMAIN nodes THEN nodes[id] ELSE NewNode
      new == IF f.type \in {NODE_INFO, NODE_TURNED_ON}
             THEN NodeInit(old, f.data[1] * 256 + f.data[2]) ELSE old
  IN [i \in DOMAIN nodes \cup {id} |-> IF i = id THEN new ELSE nodes[i]]

\* Dev::update_dev_state of the antenna switch, which depends on the real node.
\* A value that cannot be read is only logged; std::get of a value that is no
\* integer throws, and nothing catches it.
DevThrows(f) ==
  /\ f.source_id = PeerId /\ f.type \in {REG_VALUE, REG_VALUE_BROADCAST} /\ dev.switch_node_id = PeerId
  /\ f.data[1] = ANTENNA_SELECT_REG
  /\ RegValueFromFrame(UpdateNodes(f)[PeerId].regs, f).json \in {"string", "array"}
UpdateDev(f) ==
  LET v == RegValueFromFrame(UpdateNodes(f)[PeerId].regs, f)
  IN IF f.source_id # PeerId THEN dev
     ELSE IF f.type \in {NODE_INFO, NODE_TURNED_ON}
     THEN IF f.data[1] * 256 + f.data[2] = ANTENNA_SWITCH_NODE_TYPE
          THEN [dev EXCEPT !.switch_node_id = PeerId] ELSE dev
     ELSE IF f.type \in {REG_VALUE, REG_VALUE_BROADCAST} /\ dev.switch_node_id = PeerId
             /\ f.data[1] = ANTENNA_SELECT_REG /\ v.json = "integer"
     THEN [dev EXCEPT !.selected = Low(v.value[1], 8)]
     ELSE dev

-----------------------------------------------------------------------------
(* The other ends of the lines. *)

\* The thread of VirtualEndpoint starts: create_node.
CreateVirtualNode ==
  /\ "virtual_endpoint" \in threads /\ configured /\ ~vnode.alive
  /\ vnode' = Created(VirtualId, <<0>>)
  /\ \E x \in Garbage : IF Open("virtual") THEN SendUp("virtual", <<TurnedOn(Blank(x), VirtualId)>>, x)
                        ELSE UNCHANGED up
  /\ UNCHANGED <<file, types, nodes, dev, peer, down, next_seqnum, authenticated, pc, request,
                 seqnum, response, calls, written>>

\* One round of virtual_endpoint_thread.
VirtualNodeStep ==
  /\ vnode.alive /\ down["virtual"] # <<>>
  /\ down' = [down EXCEPT !["virtual"] = Tail(@)]
  /\ \E x \in Garbage : \E o \in on_frame(vnode, Head(down["virtual"]).got, Blank(x)) :
       /\ vnode' = o.node
       /\ SendUp("virtual", o.sent, x)
  /\ UNCHANGED <<file, types, nodes, dev, peer, next_seqnum, authenticated, pc, request, seqnum,
                 response, calls, written>>

\* The node on the real bus, by doc/Frame.md: it answers what is addressed to
\* it, takes a value of the right size, and is reset to its first values.
Padded(r, bytes) == [i \in DOMAIN PeerRegs[r] |-> IF i <= Len(bytes) THEN bytes[i] ELSE 0]
PeerInfo(type) ==
  [Broadcast(Blank(0), type, PeerType, BigEndian(PeerType, 2) \o <<0, 1, 0, 2, 65, 0>>)
     EXCEPT !.source_id = PeerId]
PeerReply(f, type, bytes) ==
  [Unicast(Blank(0), type, 0, f.source_id, bytes) EXCEPT !.seqnum = f.seqnum, !.source_id = PeerId]
WithBit(f, bytes) ==
  LET n == Len(bytes) * 8 - 1 - f.data[2]
      i == 1 + (n \div 8)
      weight == 2^(f.data[2] % 8)
      isSet == (bytes[i] \div weight) % 2 = 1
  IN CASE f.type = SET_BIT /\ ~isSet  -> [bytes EXCEPT ![i] = @ + weight]
       [] f.type = CLEAR_BIT /\ isSet -> [bytes EXCEPT ![i] = @ - weight]
       [] OTHER                       -> bytes
PeerOutcome(f) ==
  LET mine == is_unicast(f) /\ f.destination_id = PeerId
      r == f.data[1]
      known == r \in DOMAIN peer
      value == SubSeq(f.data, 2, f.dlc)
      Same(frame) == [regs |-> peer, sent |-> <<frame>>]
      Now(bytes) == [regs |-> [peer EXCEPT ![r] = bytes], sent |-> <<PeerReply(f, REG_VALUE, <<r>> \o bytes)>>]
  IN CASE f.type = DISCOVER                         -> Same(PeerInfo(NODE_INFO))
       [] mine /\ f.type = NODE_RESET               -> [regs |-> PeerRegs, sent |-> <<PeerInfo(NODE_TURNED_ON)>>]
       [] mine /\ f.type # NODE_RESET /\ ~known     -> Same(PeerReply(f, COMMAND_ERROR, <<INVALID_REGISTER>>))
       [] mine /\ known /\ f.type = GET_REG         -> Now(peer[r])
       [] mine /\ known /\ f.type = SET_REG ->
            IF r \in PeerStrings /\ Len(value) < Len(peer[r]) THEN Now(Padded(r, value))
            ELSE IF Len(value) = Len(peer[r]) THEN Now(value)
            ELSE Same(PeerReply(f, COMMAND_ERROR, <<REGISTER_SIZE_MISMATCH>>))
       [] mine /\ known /\ f.type \in {SET_BIT, CLEAR_BIT} -> Now(WithBit(f, peer[r]))
       [] OTHER                                     -> [regs |-> peer, sent |-> <<>>]

PeerStep ==
  /\ down["bus"] # <<>>
  /\ down' = [down EXCEPT !["bus"] = Tail(@)]
  /\ \E x \in Garbage :
       LET o == PeerOutcome(Head(down["bus"]).got)
       IN peer' = o.regs /\ SendUp("bus", o.sent, x)
  /\ UNCHANGED <<file, types, nodes, dev, vnode, next_seqnum, authenticated, pc, request, seqnum,
                 response, calls, written>>
=============================================================================

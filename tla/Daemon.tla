------------------------------- MODULE Daemon -------------------------------
(***************************************************************************)
(* The daemon from its start to the answers of its API (src/h9d/api.cc):   *)
(* Startup and Request composed.  Startup creates the threads; the API     *)
(* serves once main has reached server.run.                                *)
(***************************************************************************)
EXTENDS Request

daemonVars == <<startVars, requestVars>>

\* Startup steps that also touch the nodes: descriptions are loaded, and
\* DISCOVER is sent.
DaemonConfigures ==
  /\ ConfigureDevicesMgr
  /\ types' = load_file(file)
  /\ UNCHANGED <<file, nodes, dev, vnode, peer, down, up, next_seqnum, authenticated, pc, request,
                 seqnum, response, calls, written>>

discover(x) == Broadcast(Blank(x), DISCOVER, BROADCAST_ALL_GROUP, <<>>)
DaemonDiscovers ==
  /\ Discover
  /\ \E x \in Garbage : Send(discover(x), FALSE, x)
  /\ UNCHANGED <<file, types, nodes, dev, vnode, peer, authenticated, pc, request, response, calls,
                 written>>

\* A client connects: TCPClientThread does not initialise _authenticated.
Connect ==
  /\ Serving /\ calls = 0 /\ calls' = 1
  /\ authenticated' \in BOOLEAN
  /\ UNCHANGED <<startVars, file, types, nodes, dev, vnode, peer, down, up, next_seqnum, pc,
                 request, seqnum, response, written>>

-----------------------------------------------------------------------------
(* The methods of the API. *)

Methods == {"get_version", "get_methods_list", "subscribe", "get_tcp_clients", "send_frame",
            "get_stats", "authenticate", "reload_nodes_description", "get_nodes_list",
            "get_node_info", "discover_nodes", "node_reset", "get_registers_list",
            "get_register_value", "set_register_value", "set_register_bit", "clear_register_bit",
            "get_devs_list", "get_dev_description", "get_dev_status", "dev_method_call"}
\* Methods that read no parameter, or have a default for it.
Parameterless == {"get_version", "get_methods_list", "get_tcp_clients", "get_stats",
                  "reload_nodes_description", "get_nodes_list", "discover_nodes", "get_devs_list"}

\* API::call finds the method for a client that may use it.
Found(r) == r.method \in Methods /\ (authenticated \/ r.method = "authenticate")

\* Request r arrives and is neither unknown nor malformed.
Called(r, methods) ==
  /\ Serving /\ pc = "idle" /\ calls \in 1..MaxCalls
  /\ r.method \in methods /\ Found(r) /\ (r.bad => r.method \in Parameterless)
  /\ calls' = calls + 1

Respond(j) == response' = j /\ pc' = "idle"
Await == pc' = "waiting" /\ UNCHANGED response

Refuse(r) ==
  /\ Serving /\ pc = "idle" /\ calls \in 1..MaxCalls
  /\ ~Found(r) \/ (r.bad /\ r.method \notin Parameterless)
  /\ calls' = calls + 1 /\ request' = NoRequest
  /\ Respond(Error(IF Found(r) THEN "InvalidParams" ELSE "MethodNotFound"))
  /\ UNCHANGED <<startVars, file, types, nodes, dev, vnode, peer, down, up, next_seqnum,
                 authenticated, seqnum, written>>

\* get_nodes_list: only nodes that were initialised, by id.
get_nodes_list ==
  Json("array", LET ids == {i \in DOMAIN nodes : nodes[i].init}
                IN CHOOSE s \in [1..Cardinality(ids) -> ids] :
                     \A i, j \in 1..Cardinality(ids) : i < j => s[i] < s[j])

\* get_registers_list asks whether the node exists, not whether it is initialised.
get_registers_list(id) ==
  IF id \in DOMAIN nodes THEN Json("object", <<Cardinality(DOMAIN nodes[id].regs)>>)
  ELSE Error("NODE_IS_NOT_EXIST")

\* get_dev_description, and get_dev_status with the state of the antenna switch.
get_dev_description(r) == IF r.dev = Dev THEN Json("object", <<>>) ELSE Error("DEV_IS_NOT_EXIST")
get_dev_status(r) == IF r.dev = Dev THEN Json("object", <<dev.selected>>) ELSE Error("DEV_IS_NOT_EXIST")

\* Methods that answer from what the daemon knows.
Reads(r) ==
  /\ Called(r, {"get_version", "get_methods_list", "subscribe", "get_tcp_clients", "get_stats",
                "get_nodes_list", "get_registers_list", "get_devs_list", "get_dev_description",
                "get_dev_status"})
  /\ request' = NoRequest
  /\ Respond(CASE r.method = "get_nodes_list"      -> get_nodes_list
               [] r.method = "get_registers_list"  -> get_registers_list(r.id)
               [] r.method = "get_dev_description" -> get_dev_description(r)
               [] r.method = "get_dev_status"      -> get_dev_status(r)
               [] OTHER                            -> Json("object", <<>>))
  /\ UNCHANGED <<startVars, file, types, nodes, dev, vnode, peer, down, up, next_seqnum,
                 authenticated, seqnum, written>>

authenticate(r) ==
  /\ Called(r, {"authenticate"})
  /\ request' = NoRequest
  /\ authenticated' = TRUE
  /\ Respond(Json("object", <<>>))
  /\ UNCHANGED <<startVars, file, types, nodes, dev, vnode, peer, down, up, next_seqnum, seqnum,
                 written>>

\* get_node_info throws for a node that does not exist: not the exception API
\* turns into an answer, and the daemon ends.
get_node_info(r) ==
  /\ Called(r, {"get_node_info"})
  /\ request' = NoRequest
  /\ IF r.id \in DOMAIN nodes
     THEN Respond(Json("object", <<nodes[r.id].type>>)) /\ UNCHANGED <<step, status>>
     ELSE Abort /\ UNCHANGED <<response, pc>>
  /\ UNCHANGED <<args, cfg, root, pid, pid_file, uid, gid, configured, section, endpoints, threads,
                 file, types, nodes, dev, vnode, peer, down, up, next_seqnum, authenticated, seqnum,
                 written>>

\* discover_nodes, and send_frame with a frame of the client, numbered unless raw.
SendsFrame(r) ==
  /\ Called(r, {"discover_nodes", "send_frame"})
  /\ request' = NoRequest
  /\ \E x \in Garbage :
       IF r.method = "discover_nodes" THEN Send(discover(x), FALSE, x)
       ELSE Send(from_json(Blank(x), to_json(r.frame)), r.raw, x)
  /\ Respond(IF r.method = "send_frame" THEN Integer(seqnum') ELSE Json("object", <<>>))
  /\ UNCHANGED <<startVars, file, types, nodes, dev, vnode, peer, authenticated, written>>

\* Node::set_register, get_register and the bit operations, up to send_frame.
NodeFrame(r, type, bytes, x) == Unicast(Blank(x), type, 0, r.id, bytes)

\* The exception thrown before a frame is sent, or "none".
NodeRefuses(r) ==
  IF r.id \notin DOMAIN nodes THEN "NODE_IS_NOT_EXIST"
  ELSE LET regs == nodes[r.id].regs
       IN CASE r.method \in {"set_register_value", "dev_method_call"} -> SetRefused(regs, r.reg, r.value)
            [] r.method = "get_register_value"                       -> GetRefused(regs, r.reg)
            [] r.method \in {"set_register_bit", "clear_register_bit"} -> BitRefused(regs, r.reg)
            [] OTHER                                                 -> "none"
Frames(r, x) ==
  CASE r.method \in {"set_register_value", "dev_method_call"} ->
         {NodeFrame(r, SET_REG, <<r.reg>> \o b, x) : b \in SetBytes(nodes[r.id].regs[r.reg], r.value)}
    [] r.method = "get_register_value" -> {NodeFrame(r, GET_REG, <<r.reg>>, x)}
    [] r.method = "set_register_bit"   -> {NodeFrame(r, SET_BIT, <<r.reg, r.bit>>, x)}
    [] r.method = "clear_register_bit" -> {NodeFrame(r, CLEAR_BIT, <<r.reg, r.bit>>, x)}
    [] r.method = "node_reset"         -> {NodeFrame(r, NODE_RESET, <<>>, x)}

\* The call to the node: refused, or sent and awaited.
CallNode(r) ==
  IF NodeRefuses(r) # "none"
  THEN /\ Respond(IF r.method = "dev_method_call" THEN Json("object", <<>>) ELSE Error(NodeRefuses(r)))
       /\ request' = NoRequest
       /\ UNCHANGED <<down, up, next_seqnum, seqnum>>
  ELSE /\ Await
       /\ request' = r
       /\ \E x \in Garbage : \E f \in Frames(r, x) : Send(f, FALSE, x)

NodeMethods == {"node_reset", "get_register_value", "set_register_value", "set_register_bit",
                "clear_register_bit"}
CallsNode(r) ==
  /\ Called(r, NodeMethods)
  /\ CallNode(r)
  /\ UNCHANGED <<startVars, file, types, nodes, dev, vnode, peer, authenticated, written>>

\* dev_method_call of select_antenna: a set_register whose exceptions are
\* swallowed. Before the device has seen its node, it indexes nodes[] with
\* 0xffff: what is there is nothing, or ends the daemon.
dev_method_call(r) ==
  /\ Called(r, {"dev_method_call"})
  /\ \/ /\ r.dev # Dev
        /\ Respond(Error("DEV_IS_NOT_EXIST")) /\ request' = NoRequest
        /\ UNCHANGED <<step, status, down, up, next_seqnum, seqnum>>
     \/ /\ r.dev = Dev /\ r.dmethod # "select_antenna"
        /\ Respond(Error("InvalidParams")) /\ request' = NoRequest
        /\ UNCHANGED <<step, status, down, up, next_seqnum, seqnum>>
     \/ /\ r.dev = Dev /\ r.dmethod = "select_antenna" /\ dev.switch_node_id # NoNodeId
        /\ CallNode([r EXCEPT !.id = dev.switch_node_id, !.reg = ANTENNA_SELECT_REG])
        /\ UNCHANGED <<step, status>>
     \/ /\ r.dev = Dev /\ r.dmethod = "select_antenna" /\ dev.switch_node_id = NoNodeId
        /\ \/ Respond(Json("object", <<>>)) /\ UNCHANGED <<step, status>>
           \/ Abort /\ UNCHANGED <<response, pc>>
        /\ request' = NoRequest
        /\ UNCHANGED <<down, up, next_seqnum, seqnum>>
  /\ UNCHANGED <<args, cfg, root, pid, pid_file, uid, gid, configured, section, endpoints, threads,
                 file, types, nodes, dev, vnode, peer, authenticated, written>>

-----------------------------------------------------------------------------
(* The answer. *)

\* The node and the register the request waiting is about.
Target == IF request.method = "dev_method_call" THEN dev.switch_node_id ELSE request.id
TargetReg == IF request.method = "dev_method_call" THEN ANTENNA_SELECT_REG ELSE request.reg

\* The comparators of RawNode: reset expects NODE_TURNED_ON with number 0.
Matches(f) ==
  /\ pc = "waiting" /\ f.source_id = Target
  /\ \/ f.type = COMMAND_ERROR /\ f.seqnum = seqnum
     \/ request.method = "node_reset" /\ f.type = NODE_TURNED_ON /\ f.seqnum = 0
     \/ request.method # "node_reset" /\ f.type = REG_VALUE /\ f.seqnum = seqnum
        /\ f.data[1] = TargetReg

\* What the method makes of answer f.
Result(f) ==
  LET d == nodes[Target].regs[TargetReg]
  IN CASE request.method = "node_reset"         -> IF f.type = NODE_TURNED_ON THEN Json("object", <<>>) ELSE Answer(f)
       [] request.method = "get_register_value" -> GetResult(d, f)
       [] request.method = "set_register_value" -> SetResult(d, request.value, f)
       [] request.method \in {"set_register_bit", "clear_register_bit"} -> BitResult(f)
       [] request.method = "dev_method_call"    -> Json("object", <<>>)

Values == {"integer", "float", "string", "array"}

\* What was written is remembered; a reset of the node and a write that is not
\* a set_register_value, or is answered with a value of another size, end it.
NowWritten(f) ==
  LET set == {r \in DOMAIN written : r # TargetReg}
      Kept(s) == [r \in s |-> written[r]]
  IN IF f.source_id # PeerId THEN written
     ELSE IF f.type = NODE_TURNED_ON THEN <<>>
     ELSE CASE Matches(f) /\ request.method = "set_register_value" /\ Result(f).json \in Values ->
                 [r \in set \cup {TargetReg} |->
                    IF r = TargetReg THEN [dsc |-> nodes[PeerId].regs[r], value |-> request.value]
                    ELSE written[r]]
            [] Matches(f) /\ request.method = "get_register_value" -> written
            [] OTHER -> IF f.type = REG_VALUE THEN Kept({r \in DOMAIN written : r # f.data[1]})
                        ELSE written

\* The bus thread reads a frame of line l and tells its observers: NodeMgr, if
\* it is there already, updates nodes, devices and the waiting request.
Receive(l) ==
  /\ status = "running" /\ "bus" \in threads /\ Open(l) /\ up[l] # <<>>
  /\ up' = [up EXCEPT ![l] = Tail(@)]
  /\ LET f == Head(up[l]).got
     IN IF ~NodeMgrAttached THEN UNCHANGED <<step, status, nodes, dev, pc, response, written>>
        ELSE IF DevThrows(f) THEN Abort /\ UNCHANGED <<nodes, dev, pc, response, written>>
        ELSE /\ nodes' = UpdateNodes(f)
             /\ dev' = UpdateDev(f)
             /\ written' = NowWritten(f)
             /\ IF Matches(f) THEN Respond(Result(f)) ELSE UNCHANGED <<pc, response>>
             /\ UNCHANGED <<step, status>>
  /\ UNCHANGED <<args, cfg, root, pid, pid_file, uid, gid, configured, section, endpoints, threads,
                 file, types, vnode, peer, down, next_seqnum, authenticated, request, seqnum, calls>>

\* Nothing is under way any more: response_timeout_duration passes.
Timeout ==
  /\ status = "running" /\ pc = "waiting" /\ Quiet
  /\ Respond(IF request.method = "dev_method_call" THEN Json("object", <<>>) ELSE Error("EXECUTION_TIMEOUT"))
  /\ UNCHANGED <<startVars, file, types, nodes, dev, vnode, peer, down, up, next_seqnum,
                 authenticated, request, seqnum, calls, written>>

\* Nothing follows an exit; a daemon may serve for ever without a request.
Idle == (status # "running" \/ (Serving /\ pc = "idle" /\ Quiet)) /\ UNCHANGED daemonVars

Serve == \E r \in Requests :
  \/ Refuse(r) \/ Reads(r) \/ authenticate(r) \/ get_node_info(r)
  \/ SendsFrame(r) \/ CallsNode(r) \/ dev_method_call(r)

Init == StartInit /\ RequestInit
Next ==
  \/ StartNext /\ UNCHANGED requestVars
  \/ DaemonConfigures \/ DaemonDiscovers
  \/ Connect \/ Serve
  \/ (status = "running" /\ (CreateVirtualNode \/ VirtualNodeStep \/ PeerStep) /\ UNCHANGED startVars)
  \/ \E l \in Lines : Receive(l)
  \/ Timeout \/ Idle
Spec == Init /\ [][Next]_daemonVars

-----------------------------------------------------------------------------
(* Properties *)

\* Types of the daemon's state: frames keep their fields within a byte, the
\* group within two, through every conversion.
TypeOK ==
  /\ StartTypeOK
  /\ DOMAIN nodes \subseteq Byte
  /\ \A i \in DOMAIN nodes : /\ nodes[i].init \in BOOLEAN /\ nodes[i].type \in Word
                            /\ \A r \in DOMAIN nodes[i].regs : nodes[i].regs[r] \in DescType
  /\ dev.switch_node_id \in {PeerId, NoNodeId} /\ dev.selected \in Byte
  /\ vnode.id \in 0..511 /\ vnode.new_id \in 0..511
  /\ \A r \in DOMAIN peer : peer[r] \in Seq(Byte) /\ Len(peer[r]) = Len(PeerRegs[r])
  /\ \A l \in Lines : \A i \in DOMAIN down[l] : down[l][i].got \in H9Frames
  /\ \A l \in Lines : \A i \in DOMAIN up[l] : up[l][i].got \in H9Frames
  /\ next_seqnum \in 0..31 /\ seqnum \in Byte
  /\ pc \in {"idle", "waiting"} /\ authenticated \in BOOLEAN

\* The other end of a line reads the same type, addresses, number, flags and
\* data that were sent: what the line does not carry are fields the kind of frame
\* does not have. It would through any other driver too (SLCAN text, CAN frame,
\* serialised bytes, JSON).
FrameSurvives ==
  \A l \in Lines : \A items \in {down[l], up[l]} \ {<<>>} :
    LET item == items[Len(items)]
    IN /\ Meaning(item.got) = Meaning(item.sent)
       /\ \A d \in Formats : Meaning(Carried(d, item.got, item.sent)) = Meaning(item.sent)

\* doc/API.md:489-494: an int has a sign, a float 32 bits; 594-596: an integer is
\* for the registers that hold one, a float for a float register. What else the code
\* takes has no documented value: an integer for a float register, floats of another
\* size, raw bytes with more bits than the number with a sign they stand for.
Integral(d) == d.type \in {"uint", "int", "bool", "char"}
Documented(d, v) ==
  /\ d.type = "float" => d.size = 32
  /\ v.json = "integer" => Integral(d)
  /\ v.json = "array" /\ d.type = "int" => d.size % 8 = 0

\* n cut to size bits; the first case is the same in numbers that TLC has.
Cut(n, size) == IF size = 32 /\ n \in Word THEN n ELSE Low(n, size)
\* The number an integral register of description d holds when its bits are those of n.
Signed(d, n) == IF d.type = "int" /\ n >= 2^(d.size - 1) THEN n - 2^d.size ELSE n

\* The value a register of description d should read after v was written, as
\* doc/API.md:489-494 and 557-562 have it: cut to the width of the register; raw
\* bytes, an array, become what the register holds. More than 32 bits are no
\* integer in this program: they are read as an array.
Expected(d, v) ==
  CASE v.json = "integer" -> Integer(Signed(d, Cut(v.value[1], d.size)))
    [] v.json = "string"  -> Json("string", CString(UpTo(v.value, d.size \div 8)))
    [] v.json = "array"   ->
         IF d.type = "str" THEN Json("string", CString(v.value))
         ELSE IF d.size > 32 THEN v
         ELSE IF d.type = "float" THEN Json("float", v.value)
         ELSE Integer(Signed(d, Number(IF Len(v.value) = 3 THEN <<0>> \o v.value ELSE v.value)))
    [] OTHER              -> v

\* A register of the real node was set, and the request just answered has read it.
ReadsWritten ==
  LET r == request.reg
  IN /\ pc = "idle" /\ request.method = "get_register_value" /\ request.id = PeerId
     /\ r \in DOMAIN written /\ nodes[PeerId].regs[r] = written[r].dsc
     /\ written[r].dsc.readable /\ Documented(written[r].dsc, written[r].value)
AsExpected == response = Expected(written[request.reg].dsc, written[request.reg].value)

\* Where Node writes in one form and reads in another: an integral register of 32
\* bits (the mask is undefined, and it is read as a float), a number below zero (it
\* is read without its sign), and 17 to 24 bits (four bytes are written and expected,
\* the register has three).
Misread(d, v) ==
  /\ Integral(d)
  /\ \/ d.size = 32 \/ d.size \in 17..24
     \/ d.type = "int" /\ d.size < 32 /\ Expected(d, v).value[1] < 0

\* doc/API.md:559-562 and 594-597: a register that was set through the API is read
\* back with the value that was set, cut to its width: through both conversions of
\* Node, both directions of the driver and the node, as long as its description is
\* the same and the node was not reset. What is Misread is excepted; the next
\* property has no exception.
ReadBackWritten ==
  ReadsWritten /\ ~Misread(written[request.reg].dsc, written[request.reg].value) => AsExpected

\* doc/API.md:489-494 and 559-561: the same, for every type and size listed there.
ReadBackDocumented == ReadsWritten => AsExpected

\* doc/API.md:491 and 559: a bool has 1 to 48 bits and is read as an integer, as is
\* any uint, int and char; a float is a number, a str a string.
ReadAsDocumented ==
  ReadsWritten /\ response.json \in Values =>
    response.json = LET d == written[request.reg].dsc
                    IN IF Integral(d) THEN "integer" ELSE IF d.type = "str" THEN "string" ELSE "float"

\* Once main serves and the lines are quiet, the node on the real bus is known
\* with its type, whenever it was turned on: DISCOVER is sent after NodeMgr has
\* attached to the bus, and its answer is not lost.
NodeKnownAfterDiscover ==
  Serving /\ Quiet /\ RealEndpoints # {} /\ Driver("bus") # "loop" =>
    /\ PeerId \in DOMAIN nodes
    /\ nodes[PeerId].init /\ nodes[PeerId].type = PeerType
=============================================================================

------------------------------- MODULE Client -------------------------------
(***************************************************************************)
(* The client programs h9cli, h9stats, h9send, h9sniffer and h9fwupload,   *)
(* one of which runs, from main to its exit; its connection (JsonTcp) to a *)
(* daemon, or its own driver to the bus; and a node with a bootloader.     *)
(*                                                                         *)
(* The daemon is the one of Daemon and TcpService as a client sees it: it  *)
(* answers requests in order and notifies a subscriber of frames.  It may  *)
(* stop, the node may restart, and other nodes may send.                   *)
(***************************************************************************)
EXTENDS JsonTcp, ClientConfig, CliCache, FirmwareUpload

CONSTANTS
  Starts,     \* how the programs are started, see StartType
  Lines,      \* what the user types at the prompt of h9cli
  MaxLines,   \* lines typed
  MaxRounds,  \* rounds of the loops of h9stats and h9send -r
  NodeId,     \* the node on the bus
  Noise       \* frames of other nodes

ASSUME StartsAssumption ==
  \A s \in Starts : /\ s.args \in {"ok", "help", "bad"} /\ IsIhex(s.opt.ihex)

\* The answers of a bootloader come from the node they are awaited from.
ASSUME NoiseAssumption ==
  \A s \in Starts, f \in Noise :
    s.prog = "h9fwupload" /\ f.source_id = s.opt.dst
      => f.type \notin {"BOOTLOADER_TURNED_ON", "PAGE_FILL_NEXT", "PAGE_WRITED"}

Programs == {"h9cli", "h9stats", "h9send", "h9sniffer", "h9fwupload"}

\* opt holds the options of all programs: dst, noupgrademsg and ihex, extended,
\* types and ids, json and oneshot, repeat; a file that is not readable cannot be opened.
NoOptions == [dst |-> 0, noupgrademsg |-> FALSE, ihex |-> <<>>, readable |-> TRUE,
              extended |-> FALSE, types |-> {}, ids |-> {}, json |-> FALSE, oneshot |-> FALSE,
              repeat |-> FALSE, src |-> 0]

VARIABLES
  start,      \* program, command line and files: fixed at the start
  conf,       \* what load_configuration made of them
  pc,         \* where the program is
  status,     \* "running", "success", "failure", "terminated" (uncaught), "crashed"
  waiting,    \* the request whose answer is awaited: [id, what]
  rounds,     \* lines read, rounds of a loop
  cache, line,       \* h9cli: CliCache, and the line being parsed or completed
  uploader,   \* h9fwupload
  registry,   \* h9sniffer: NodeRegistry
  shown,      \* h9sniffer: the last frame printed and the node type it is described by
  world, subscribed, \* the daemon
  node, bus, air,    \* the node, frames to it, frames to a driver of the client's own
  faults,     \* what went wrong around the program
  since       \* reports taken since the cache was cleared: <<what, node, world>>

progVars == <<start, conf, pc, status, waiting, rounds>>
cliVars == <<cache, line, since>>
toolVars == <<uploader, registry, shown>>
worldVars == <<world, subscribed, node, bus, air, faults>>
clientVars == <<tcpVars, progVars, cliVars, toolVars, worldVars>>

NotWaiting == [id |-> 0, what |-> "none"]
Request(method) == [method |-> method, id |-> 0, node |-> 0, reg |-> 0, bit |-> 0, dev |-> "",
                    frame |-> NoFrame]

\* A line: a command, or "complete" with the token before the cursor; names are
\* to be resolved, "" stands for a number given.
Ref(name, num) == [name |-> name, num |-> num]
NoLine == [cmd |-> "none", node |-> Ref("", 0), reg |-> Ref("", 0), bit |-> Ref("", 0),
           dev |-> "", token |-> "", asked |-> FALSE]

\* h9cli has no command that subscribes.
IsLine(l) == l = [cmd |-> l.cmd, node |-> l.node, reg |-> l.reg, bit |-> l.bit,
                  dev |-> l.dev, token |-> l.token, asked |-> l.asked]
ASSUME LinesAssumption == \A l \in Lines : IsLine(l) /\ l.cmd # "subscribe"

Prog == start.prog
Direct == conf.uri.scheme # H9D_SCHEME

ClientInit ==
  /\ TcpInit
  /\ start \in Starts /\ conf = [uri |-> NoURI, source_id |-> default_source_id]
  /\ pc = "parse_command_line_arg" /\ status = "running"
  /\ waiting = NotWaiting /\ rounds = 0
  /\ cache = NoCache /\ line = NoLine /\ since = {}
  /\ uploader = NewUploader(<<>>, 0) /\ registry = <<>> /\ shown = [frame |-> NoFrame, type |-> 0]
  /\ world = 1 /\ subscribed = FALSE
  /\ node \in (IF start.prog = "h9fwupload" THEN {App, Boot} ELSE {App}) /\ bus = <<>> /\ air = <<>> /\ faults = {}

Running == IF Prog = "h9sniffer" THEN "frames" ELSE "run"
Goto(l) == pc' = l /\ UNCHANGED status
Exit(s) == status' = s /\ pc' = "exit"

-----------------------------------------------------------------------------
(* The start, common to all programs. *)

ParseCommandLineArg ==
  /\ pc = "parse_command_line_arg"
  /\ CASE start.args = "ok"   -> Goto("load_configuration")
       [] start.args = "help" -> Exit("success")
       [] start.args = "bad"  -> Exit("failure")
  /\ UNCHANGED <<start, conf, waiting, rounds, tcpVars, cliVars, toolVars, worldVars>>

LoadConfiguration ==
  /\ pc = "load_configuration"
  /\ conf' = load_configuration(start)
  /\ CASE ~conf'.uri.valid -> Exit("failure")
       [] conf'.uri.valid  -> Goto(IF Prog = "h9fwupload" THEN "read_ihex" ELSE "open")
  /\ UNCHANGED <<start, waiting, rounds, tcpVars, cliVars, toolVars, worldVars>>

\* An image without data is uploaded like any other.
ReadIhex ==
  /\ pc = "read_ihex"
  /\ uploader' = NewUploader(start.opt.ihex, start.opt.dst)
  /\ IF start.opt.readable THEN Goto("open") ELSE Exit("failure")
  /\ UNCHANGED <<start, conf, waiting, rounds, registry, shown, tcpVars, cliVars, worldVars>>

\* h9cli and h9stats talk to the host of the URI whatever its scheme; the others
\* make a driver and open it, and h9sniffer -e connects before, outside of any try.
\* A driver of their own that is made may not open.
Connects == Prog \in {"h9cli", "h9stats"} \/ ~Direct
Reaches == /\ conf.uri.host /\ peer = "listening"
           /\ Prog \in {"h9cli", "h9stats"} \/ get_bus_driver(conf.uri)
OpenFails ==
  Exit(IF Prog = "h9sniffer" /\ start.opt.extended /\ ~Direct THEN "terminated" ELSE "failure")
Open ==
  /\ pc = "open"
  /\ \/ /\ Connects /\ Reaches /\ Goto("recv")
        /\ peer' = "open" /\ up' = <<[Request("authenticate") EXCEPT !.id = 1]>>
        /\ waiting' = [id |-> 1, what |-> "authenticate"]
     \/ Connects /\ ~Reaches /\ OpenFails /\ UNCHANGED <<peer, up, waiting>>
     \/ ~Connects /\ get_bus_driver(conf.uri) /\ Goto(Running) /\ UNCHANGED <<peer, up, waiting>>
     \/ ~Connects /\ Exit("failure") /\ UNCHANGED <<peer, up, waiting>>
  /\ UNCHANGED <<start, conf, rounds, sent, msg, next_msg_id, recvVars, cliVars, toolVars, worldVars>>

\* The driver of a client of h9d receives in "frames", every other call in "recv".
Receive ==
  /\ pc = "recv" \/ (pc = "frames" /\ ~Direct)
  /\ recv
  /\ UNCHANGED <<progVars, cliVars, toolVars, worldVars>>

\* A message, once looked at, is gone; the answer is no longer awaited.
Look == msg # EAGAIN /\ msg' = EAGAIN /\ UNCHANGED <<peer, sent, recvVars>>
Answered(what) == /\ pc = "recv" /\ waiting.what = what /\ Look /\ waiting' = NotWaiting

\* authentication expects a result; the driver of h9d then subscribes.
Authenticated ==
  /\ Answered("authenticate")
  /\ IF msg.kind = "response" THEN Goto("authenticated") ELSE OpenFails
  /\ UNCHANGED <<start, conf, rounds, up, next_msg_id, cliVars, toolVars, worldVars>>

\* Mutant: the driver of h9d does not ask for the frames.
SubscribeForgotten ==
  /\ pc = "authenticated" /\ Goto(Running)
  /\ UNCHANGED <<start, conf, waiting, rounds, tcpVars, cliVars, toolVars, worldVars>>

Subscribe ==
  /\ pc = "authenticated"
  /\ IF Prog \in {"h9cli", "h9stats"}
     THEN Goto(Running) /\ UNCHANGED <<up, next_msg_id>>
     ELSE \/ Send(Request("subscribe")) /\ Goto(Running)
          \/ SendFails /\ Exit("failure") /\ UNCHANGED <<up, next_msg_id>>
  /\ UNCHANGED <<start, conf, waiting, rounds, peer, sent, msg, recvVars, cliVars, toolVars,
                 worldVars>>

\* A call of the daemon: the request is sent and its answer awaited.
Call(request, what) ==
  /\ Send(request) /\ waiting' = [id |-> get_next_id, what |-> what] /\ Goto("recv")

\* send_frame of a driver.
SendFrame(f) ==
  IF Direct THEN bus' = Append(bus, f) /\ UNCHANGED <<up, next_msg_id>>
  ELSE Send([Request("send_frame") EXCEPT !.frame = f]) /\ UNCHANGED bus

\* A send that fails: the driver of h9d exits, h9send and h9stats exit, nobody
\* else catches the exception.
CannotSend ==
  /\ Direct \/ SendFails
  /\ Exit(IF Prog \in {"h9stats", "h9send"} \/ (Prog # "h9cli" /\ ~Direct)
          THEN "failure" ELSE "terminated")
  /\ faults' = IF Direct THEN faults \cup {"driver"} ELSE faults
  /\ UNCHANGED <<up, next_msg_id, bus>>

-----------------------------------------------------------------------------
(* h9cli. *)

TypeLine(l) ==
  /\ Prog = "h9cli" /\ pc = "run" /\ rounds < MaxLines
  /\ rounds' = rounds + 1 /\ line' = l /\ Goto("parse")
  /\ UNCHANGED <<start, conf, waiting, tcpVars, cache, since, toolVars, worldVars>>

EndOfInput ==
  /\ Prog = "h9cli" /\ pc = "run" /\ Exit("success")
  /\ UNCHANGED <<start, conf, waiting, rounds, tcpVars, cliVars, toolVars, worldVars>>

\* The name the parser resolves next, in the order of the line.
Unresolved ==
  CASE line.node.name # "" -> "nodes"
    [] line.node.name = "" /\ line.reg.name # "" -> "registers"
    [] line.node.name = "" /\ line.reg.name = "" /\ line.bit.name # "" -> "bits"
    [] OTHER -> "none"

\* What is asked for to complete the token before the cursor; the grammar is
\* completed without the daemon, as are registers and bits of an unknown node.
Completing ==
  IF line.cmd # "complete" \/ Unresolved # "none" THEN "none"
  ELSE CASE line.token = "node"   -> "nodes"
         [] line.token = "dev"    -> "devs"
         [] line.token = "method" -> "methods"
         [] line.token \in {"reg", "bit"} /\ line.node.num # 65535
              /\ (line.token = "bit" => line.reg.num # 0) -> "registers"
         [] OTHER                 -> "none"

\* The refresh that the parser or the completion needs first.
Refresh ==
  CASE line.asked -> "none"
    [] ~line.asked /\ Unresolved = "nodes" ->
         IF StaleNode(cache, line.node.name) THEN "nodes" ELSE "none"
    [] ~line.asked /\ Unresolved = "registers" ->
         IF StaleRegister(cache, line.node.num, line.reg.name) THEN "registers" ELSE "none"
    [] ~line.asked /\ Unresolved = "bits" ->
         IF StaleBit(cache, line.node.num, line.reg.num) THEN "registers" ELSE "none"
    [] OTHER -> IF Completing # "none" /\ StaleList(cache, line) THEN Completing ELSE "none"

MethodOf == [nodes |-> "get_nodes_list", registers |-> "get_registers_list",
             devs |-> "get_devs_list", methods |-> "get_dev_description"]

AskDaemon ==
  /\ pc = "parse" /\ Refresh # "none"
  /\ \/ /\ Call([Request(MethodOf[Refresh]) EXCEPT !.node = line.node.num, !.dev = line.dev], Refresh)
        /\ UNCHANGED <<faults, bus>>
     \/ CannotSend /\ UNCHANGED waiting
  /\ UNCHANGED <<start, conf, rounds, peer, sent, msg, recvVars, cliVars, toolVars, world,
                 subscribed, node, air>>

\* The answer goes into the cache.  An error to get_dev_description has no list
\* of methods: reading it throws.
Refreshed(what) ==
  /\ Answered(what)
  /\ CASE msg.kind \in {"closed", "invalid"} ->
            Exit("failure") /\ UNCHANGED <<cache, line, since>>
       [] msg.kind = "error" /\ what = "methods" ->
            Exit("terminated") /\ UNCHANGED <<cache, line, since>>
       [] OTHER ->
            /\ cache' = CASE what = "nodes"     -> refresh_node(cache, msg)
                          [] what = "registers" -> refresh_register(cache, line.node.num, msg)
                          [] what = "devs"      -> refresh_dev(cache, msg)
                          [] what = "methods"   -> refresh_dev_method(cache, line.dev, msg)
            /\ line' = [line EXCEPT !.asked = TRUE]
            /\ since' = IF Reported(msg)
                        THEN since \cup {<<what, line.node.num, msg.world>>} ELSE since
            /\ Goto("parse")
  /\ UNCHANGED <<start, conf, rounds, up, next_msg_id, toolVars, worldVars>>

Resolve ==
  /\ pc = "parse" /\ Refresh = "none" /\ Unresolved # "none"
  /\ line' = CASE Unresolved = "nodes" ->
                    [line EXCEPT !.asked = FALSE,
                       !.node = Ref("", get_node_id_by_name(cache, line.node.name))]
               [] Unresolved = "registers" ->
                    [line EXCEPT !.asked = FALSE,
                       !.reg = Ref("", get_register_number_by_name(cache, line.node.num, line.reg.name))]
               [] Unresolved = "bits" ->
                    [line EXCEPT !.asked = FALSE,
                       !.bit = Ref("", get_bit_number_by_name(cache, line.node.num, line.reg.num,
                                                              line.bit.name))]
  /\ UNCHANGED <<progVars, tcpVars, cache, since, toolVars, worldVars>>

\* The line is parsed: the cache is cleared, or a request is sent, also with the
\* numbers that stand for unknown names; a syntax error and a completion do nothing.
Execute ==
  /\ pc = "parse" /\ Refresh = "none" /\ Unresolved = "none"
  /\ CASE line.cmd = "clear_cache" ->
            /\ cache' = clear(cache) /\ since' = {} /\ Goto("run")
            /\ UNCHANGED <<up, next_msg_id, waiting, faults, bus>>
       [] line.cmd \in {"complete", "syntax error"} ->
            /\ Goto("run") /\ UNCHANGED <<cache, since, up, next_msg_id, waiting, faults, bus>>
       [] OTHER ->
            /\ \/ /\ Call([Request(line.cmd) EXCEPT !.node = line.node.num, !.reg = line.reg.num,
                                                   !.bit = line.bit.num, !.dev = line.dev], "command")
                  /\ UNCHANGED <<faults, bus>>
               \/ CannotSend /\ UNCHANGED waiting
            /\ UNCHANGED <<cache, since>>
  /\ UNCHANGED <<start, conf, rounds, peer, sent, msg, recvVars, line, toolVars, world, subscribed,
                 node, air>>

\* Any answer is printed, a result or an error.
CommandAnswered ==
  /\ Answered("command")
  /\ IF msg.kind \in {"closed", "invalid"} THEN Exit("failure") ELSE Goto("run")
  /\ UNCHANGED <<start, conf, rounds, up, next_msg_id, cliVars, toolVars, worldVars>>

-----------------------------------------------------------------------------
(* h9stats and h9send. *)

\* The version is asked for once, unless the output is JSON.
StatsAsk ==
  /\ Prog = "h9stats" /\ pc = "run" /\ rounds <= MaxRounds
  /\ LET version == rounds = 0 /\ ~start.opt.json /\ ~start.opt.oneshot
         method == IF version THEN "get_version" ELSE "get_stats"
     IN \/ Call(Request(method), method) /\ UNCHANGED <<faults, bus>>
        \/ CannotSend /\ UNCHANGED waiting
  /\ rounds' = rounds + 1
  /\ UNCHANGED <<start, conf, peer, sent, msg, recvVars, cliVars, toolVars, world, subscribed, node,
                 air>>

StatsAnswered(what) ==
  /\ Answered(what)
  /\ CASE msg.kind \in {"closed", "invalid"} -> Exit("failure")
       [] msg.kind = "response" /\ what = "get_stats" /\ start.opt.oneshot -> Exit("success")
       [] OTHER -> Goto("run")
  /\ UNCHANGED <<start, conf, rounds, up, next_msg_id, cliVars, toolVars, worldVars>>

\* h9send sends one frame, or repeats it.
SendsOnce ==
  /\ Prog = "h9send" /\ pc = "run" /\ rounds <= MaxRounds
  /\ LET source == IF start.opt.src # 0 THEN start.opt.src ELSE conf.source_id
     IN \/ /\ SendFrame(Frame("NODE_RESET", source, start.opt.dst, <<>>))
           /\ Goto(IF start.opt.repeat THEN "run" ELSE "sent") /\ UNCHANGED faults
        \/ CannotSend
  /\ rounds' = rounds + 1
  /\ UNCHANGED <<start, conf, waiting, peer, sent, msg, recvVars, cliVars, toolVars, world,
                 subscribed, node, air>>

\* It exits without reading the answers, as does h9fwupload after its last frame:
\* closing a socket with unread data resets the connection, and requests the
\* daemon has not read may be lost.
SendExits ==
  /\ pc = "sent" /\ Exit("success")
  /\ up' \in {up} \cup (IF stream # <<>> THEN {<<>>} ELSE {})
  /\ UNCHANGED <<start, conf, waiting, rounds, peer, sent, msg, next_msg_id, recvVars, cliVars,
                 toolVars, worldVars>>

-----------------------------------------------------------------------------
(* Programs that receive frames: h9sniffer and h9fwupload. *)

\* recv_frame gives a frame: from the driver's socket, or from on_frame.
Arrived == IF Direct THEN air # <<>> ELSE msg.kind = "notification"
Received == IF Direct THEN Head(air) ELSE msg.frame
TakeFrame(prog) ==
  /\ Prog = prog /\ pc = "frames" /\ Arrived
  /\ IF Direct THEN air' = Tail(air) /\ UNCHANGED <<peer, sent, msg, recvVars>>
     ELSE Look /\ UNCHANGED air

\* Other messages are no frame, and an exit if the connection is gone.
NoFrameReceived ==
  /\ pc = "frames" /\ ~Direct /\ msg.kind # "notification" /\ Look
  /\ IF msg.kind \in {"closed", "invalid"} THEN Exit("failure") ELSE Goto("frames")
  /\ UNCHANGED <<start, conf, waiting, rounds, up, next_msg_id, cliVars, toolVars, worldVars>>

\* NodeRegistry::update, before the filters.
RegistryAfter(f) ==
  IF f.type \in {"NODE_TURNED_ON", "NODE_INFO"}
  THEN Put(registry, f.source_id, f.data[1] * 256 + f.data[2]) ELSE registry

\* print_frame: a request is described by the node it goes to, any other frame
\* by its source; an unknown node by the registers all nodes have.
Described(f, types) ==
  LET id == IF f.type \in {"SET_REG", "GET_REG", "SET_BIT", "CLEAR_BIT"}
            THEN f.destination_id ELSE f.source_id
  IN IF Has(types, id) THEN types[id] ELSE 65535

Sniff ==
  /\ TakeFrame("h9sniffer")
  /\ registry' = RegistryAfter(Received)
  /\ shown' = IF /\ start.opt.types = {} \/ Received.type \in start.opt.types
                 /\ start.opt.ids = {} \/ Received.source_id \in start.opt.ids
              THEN [frame |-> Received, type |-> Described(Received, registry')] ELSE shown
  /\ UNCHANGED <<progVars, up, next_msg_id, cliVars, uploader, world, subscribed, node, bus, faults>>

UploadBegins ==
  /\ Prog = "h9fwupload" /\ pc = "run"
  /\ \/ /\ SendFrame(IF start.opt.noupgrademsg THEN PAGE_START(uploader)
                     ELSE Frame("NODE_UPGRADE", 0, start.opt.dst, <<>>))
        /\ Goto("frames") /\ UNCHANGED faults
     \/ CannotSend
  /\ UNCHANGED <<start, conf, waiting, rounds, peer, sent, msg, recvVars, cliVars, toolVars, world,
                 subscribed, node, air>>

Upload ==
  /\ TakeFrame("h9fwupload")
  /\ LET u == upload(uploader, Received)
     IN /\ uploader' = [u EXCEPT !.frame = NoFrame]
        /\ CASE u.crashed -> Exit("crashed") /\ UNCHANGED <<up, next_msg_id, bus, faults>>
             [] ~u.crashed /\ u.frame.type = "none" ->
                  Goto("frames") /\ UNCHANGED <<up, next_msg_id, bus, faults>>
             [] OTHER ->
                  \/ /\ SendFrame(u.frame) /\ UNCHANGED faults
                     /\ Goto(IF u.done THEN "sent" ELSE "frames")
                  \/ CannotSend
  /\ UNCHANGED <<start, conf, waiting, rounds, cliVars, registry, shown, world, subscribed, node>>

-----------------------------------------------------------------------------
(* Around the program. *)

Unknown(r) ==
  \/ r.method = "get_registers_list" /\ r.node \notin DOMAIN Worlds[world].regs
  \/ r.method = "get_dev_description" /\ r.dev \notin DOMAIN Worlds[world].devs
  \/ r.method = "toggle_register_bit"

\* The daemon answers the oldest request.
Serve ==
  /\ peer = "open" /\ up # <<>>
  /\ LET r == Head(up)
     IN /\ Emit([kind |-> IF Unknown(r) THEN "error" ELSE "response", id |-> r.id,
                 world |-> world, frame |-> NoFrame])
        /\ subscribed' = (subscribed \/ r.method = "subscribe")
        /\ bus' = IF r.method = "send_frame" THEN Append(bus, r.frame) ELSE bus
  /\ up' = Tail(up)
  /\ UNCHANGED <<peer, taken, recv_bytes, bytes_to_recv, header_buf, data_buf, msg, next_msg_id,
                 progVars, cliVars, toolVars, world, node, air, faults>>

\* Its nodes and descriptions change.
WorldChanges ==
  /\ Prog = "h9cli" /\ world < Len(Worlds) /\ world' = world + 1
  /\ UNCHANGED <<tcpVars, progVars, cliVars, toolVars, subscribed, node, bus, air, faults>>

\* At most one thing goes wrong, h9sniffer aside.
DaemonStops ==
  /\ peer = "open" /\ pc # "exit" /\ faults = {} /\ peer' = "closed" /\ faults' = faults \cup {"stop"}
  /\ UNCHANGED <<up, sent, msg, next_msg_id, recvVars, progVars, cliVars, toolVars, world,
                 subscribed, node, bus, air>>

\* A frame on the bus reaches the client's driver, or the daemon's subscribers.
FrameOnBus(f) ==
  IF Direct THEN air' = Append(air, f) /\ UNCHANGED <<sent, stream>>
  ELSE /\ UNCHANGED air
       /\ IF subscribed /\ peer = "open"
          THEN Emit([kind |-> "notification", id |-> 0, world |-> 0, frame |-> f])
          ELSE UNCHANGED <<sent, stream>>
FromNode(type) == FrameOnBus(Frame(type, NodeId, 0, <<0, 5>>))
SilentVars == <<peer, up, taken, recv_bytes, bytes_to_recv, header_buf, data_buf, msg, next_msg_id,
                progVars, cliVars, toolVars, world, subscribed>>

NodeStep ==
  /\ bus # <<>> /\ bus' = Tail(bus)
  /\ LET f == Head(bus)
         n == Bootloader(node, f)
     IN IF f.destination_id # NodeId
        THEN UNCHANGED <<node, air, sent, stream>>
        ELSE /\ node' = n.node
             /\ IF n.reply = "none" THEN UNCHANGED <<air, sent, stream>> ELSE FromNode(n.reply)
  /\ UNCHANGED <<SilentVars, faults>>

\* The bootloader gives a page up, or the node restarts into its bootloader.
NodeFails ==
  /\ node.mode = "boot" /\ faults = {} /\ pc # "exit"
  /\ \/ /\ node.page # -1 /\ FromNode("PAGE_FILL_BREAK") /\ faults' = faults \cup {"break"}
     \/ FromNode("BOOTLOADER_TURNED_ON") /\ faults' = faults \cup {"restart"}
  /\ node' = [node EXCEPT !.page = -1, !.fill = <<>>]
  /\ UNCHANGED <<SilentVars, bus>>

OtherNode(f) ==
  /\ pc = "frames" /\ (faults = {} \/ Prog = "h9sniffer") /\ f.type \notin faults /\ FrameOnBus(f) /\ faults' = faults \cup {f.type}
  /\ UNCHANGED <<SilentVars, bus, node>>

-----------------------------------------------------------------------------
Program ==
  \/ ParseCommandLineArg \/ LoadConfiguration \/ ReadIhex \/ Open \/ Receive
  \/ Authenticated \/ Subscribe
  \/ AskDaemon \/ (\E what \in DOMAIN MethodOf : Refreshed(what)) \/ Resolve \/ Execute
  \/ CommandAnswered
  \/ StatsAsk \/ StatsAnswered("get_version") \/ StatsAnswered("get_stats")
  \/ SendsOnce \/ SendExits
  \/ NoFrameReceived \/ Sniff \/ UploadBegins \/ Upload

Next ==
  \/ Program \/ (\E l \in Lines : TypeLine(l)) \/ EndOfInput
  \/ Serve \/ WorldChanges \/ DaemonStops
  \/ NodeStep \/ NodeFails \/ (\E f \in Noise : OtherNode(f))

\* The program runs, the daemon serves and the node works on.
Spec == ClientInit /\ [][Next]_clientVars
FairSpec == Spec /\ WF_clientVars(Program) /\ WF_clientVars(Serve) /\ WF_clientVars(NodeStep)

-----------------------------------------------------------------------------
(* Properties. *)

\* TCPSocket::recv returns the messages of the daemon, whole, each once and in
\* order, however the stream is cut into pieces; and the message a call takes
\* for its answer is the answer to its own request, although nothing but the
\* order pairs them (get_and_parse_response only logs a mismatch of ids).
AnswersTaken ==
  /\ \A i \in DOMAIN taken : taken[i] = i
  /\ waiting.id # 0 /\ msg.kind \in {"response", "error", "notification"}
       => msg.kind # "notification" /\ msg.id = waiting.id

\* What the cache of h9cli resolves, a node name to its id, a register name to
\* its number or a bit name to its number, the daemon has reported for that
\* node since the last "cli clear_cache", whatever has been renamed meanwhile.
CacheSinceClear ==
  /\ \A x \in DOMAIN cache.node_name_to_id :
       \E s \in since : /\ s[1] = "nodes" /\ Has(Worlds[s[3]].nodes, x)
                        /\ Worlds[s[3]].nodes[x] = cache.node_name_to_id[x]
  /\ \A n \in DOMAIN cache.name_to_number : \A x \in DOMAIN cache.name_to_number[n] :
       \E s \in since : /\ s[1] = "registers" /\ s[2] = n
                        /\ \E i \in DOMAIN Worlds[s[3]].regs[n] :
                             /\ Worlds[s[3]].regs[n][i].name = x
                             /\ Worlds[s[3]].regs[n][i].number = cache.name_to_number[n][x]
  /\ \A n \in DOMAIN cache.bits_name_to_number : \A k \in DOMAIN cache.bits_name_to_number[n] :
       \A b \in DOMAIN cache.bits_name_to_number[n][k] :
         \E s \in since : /\ s[1] = "registers" /\ s[2] = n
                          /\ \E i \in DOMAIN Worlds[s[3]].regs[n] :
                               /\ Worlds[s[3]].regs[n][i].number = k
                               /\ cache.bits_name_to_number[n][k][b] + 1
                                    \in DOMAIN Worlds[s[3]].regs[n][i].bits
                               /\ Worlds[s[3]].regs[n][i].bits
                                    [cache.bits_name_to_number[n][k][b] + 1] = b

\* The flash of the node holds the bytes of the file at their addresses and 0xff
\* elsewhere, and every byte of the file.
FlashIsFile ==
  /\ \A p \in DOMAIN node.flash : \A i \in 1..PageSize :
       node.flash[p][i] = ByteOf(start.opt.ihex, p * PageSize + i - 1)
  /\ \A i \in ProgramLines(start.opt.ihex) : \A x \in 1..Len(start.opt.ihex[i].data) :
       (Address(start.opt.ihex, i) + x - 1) \div PageSize \in DOMAIN node.flash
Uploaded == /\ Prog = "h9fwupload" /\ start.args = "ok" /\ status = "success"
            /\ InOrder(start.opt.ihex) /\ "break" \notin faults

\* When h9fwupload says it is done, the flash of the node is the file, if the file
\* is in order of addresses.  Two cases are excepted, and are the subject of the
\* next two properties: a file with extended segment addresses (record type 02),
\* and a node that restarts in the middle.  Nor may the node give a page up.
FirmwareIsFile ==
  Uploaded /\ ~Segmented(start.opt.ihex) /\ "restart" \notin faults => FlashIsFile

\* The same of any file of the format, segment addresses included, as the program
\* takes an "<Intel HEX file>".
SegmentsUploaded == Uploaded /\ "restart" \notin faults => FlashIsFile

\* The same if the node restarts and announces its bootloader again, which the
\* program takes for the beginning of a page (firmware_uploader.cc:43).
RestartUploaded == Uploaded /\ ~Segmented(start.opt.ihex) => FlashIsFile

\* An upload to a node that is in the mode the options say, with an image that
\* has data, comes to an end, unless the node gave a page up or restarted.
UploadEnds ==
  (/\ Prog = "h9fwupload" /\ pc = "run" /\ start.opt.dst = NodeId /\ uploader.fw_size > 0
   /\ start.opt.noupgrademsg <=> node.mode = "boot")
    ~> (pc = "exit" \/ faults \cap {"restart", "break"} # {})
=============================================================================

---------------------------- MODULE Daemon_proof ----------------------------
(***************************************************************************)
(* Proofs about the daemon, for any command line and configuration: the    *)
(* process that opens sockets and starts threads is the one that will      *)
(* serve, and a bus that runs has its endpoints; and, for the daemon as a  *)
(* whole, types and frames survive every conversion on their way from      *)
(* client to node, a register is read back as it was written, and the node *)
(* on the bus is found.                                                    *)
(***************************************************************************)
EXTENDS Daemon, H9Frame_proof

\* The endpoints of the first n sections.
EndpointsOf(n) == {Socket(i) : i \in {j \in 1..n : ~Skipped(cfg.endpoints[j])}}

\* Where main is, by its position: what is done already, and what is not.
PidInv ==
  /\ step \in 1..15
  /\ step <= 8 => endpoints = {}
  /\ step <= 9 => threads = {}
  /\ step <= 5 => pid = "parent"
  /\ step > 5 => pid = (IF InBackground THEN "daemon" ELSE "parent")
  /\ step <= 6 => pid_file = "none"
  /\ step > 6 => pid_file \in {"none", pid}
  /\ step > 7 => ((cfg.setuid /\ root) => uid = "dropped") /\ (cfg.setgid => gid = "dropped")

\* How far configure_bus is.
SectionInv ==
  /\ step \in 1..15
  /\ cfg.endpoints \in Seq(SectionType)
  /\ section \in 0..Len(cfg.endpoints)
  /\ step < 9 => section = 0 /\ endpoints = {}
  /\ step = 9 /\ status = "running" => endpoints = EndpointsOf(section)
  /\ step > 9 => endpoints # {} /\ endpoints = EndpointsOf(Len(cfg.endpoints))
  /\ step <= 10 => "bus" \notin threads

-----------------------------------------------------------------------------
(* The steps of main. *)

LEMMA Positions ==
  ASSUME step \in 1..15
  PROVE  /\ Main[step] = "parse_command_line_arg" => step = 1
         /\ Main[step] = "logger_initial_setup" => step = 2
         /\ Main[step] = "load_configuration" => step = 3
         /\ Main[step] = "logger_setup" => step = 4
         /\ Main[step] = "daemonize" => step = 5
         /\ Main[step] = "save_pid" => step = 6
         /\ Main[step] = "drop_privileges" => step = 7
         /\ Main[step] = "configure_virtual_endpoint" => step = 8
         /\ Main[step] = "configure_bus" => step = 9
         /\ Main[step] = "bus.activate" => step = 10
         /\ Main[step] = "virtual_endpoint.activate" => step = 11
         /\ Main[step] = "NodeMgr" => step = 12
         /\ Main[step] = "configure_devices_mgr" => step = 13
         /\ Main[step] = "discover" => step = 14
<1>1. \/ step = 1 \/ step = 2 \/ step = 3 \/ step = 4 \/ step = 5 \/ step = 6 \/ step = 7
      \/ step = 8 \/ step = 9 \/ step = 10 \/ step = 11 \/ step = 12 \/ step = 13 \/ step = 14
      \/ step = 15
  OBVIOUS
<1> QED BY <1>1 DEF Main

\* All that the steps after the start do to it: they leave it, or end the daemon.
Served ==
  /\ UNCHANGED <<args, cfg, root, step, pid, pid_file, uid, gid, configured, section, endpoints,
                 threads>>
  /\ status' \in {status, "aborted"}

LEMMA ServedSteps ==
  ASSUME [Next]_daemonVars
  PROVE  StartNext \/ DaemonConfigures \/ DaemonDiscovers \/ Served
<1>1. CASE StartNext BY <1>1
<1>2. CASE DaemonConfigures \/ DaemonDiscovers BY <1>2
<1>3. CASE UNCHANGED startVars BY <1>3 DEF Served, startVars
<1>4. CASE Connect BY <1>4 DEF Connect, Served, startVars
<1>5. ASSUME NEW r \in Requests,
             \/ Refuse(r) \/ Reads(r) \/ authenticate(r)
             \/ SendsFrame(r) \/ CallsNode(r)
      PROVE  Served
  <2>1. UNCHANGED startVars
    BY <1>5 DEF Refuse, Reads, authenticate, SendsFrame, CallsNode
  <2> QED BY <2>1 DEF Served, startVars
<1>6. ASSUME NEW r \in Requests, get_node_info(r) PROVE Served
  BY <1>6 DEF get_node_info, Abort, Served
<1>7. ASSUME NEW r \in Requests, dev_method_call(r) PROVE Served
  BY <1>7 DEF dev_method_call, Abort, Served
<1>8. ASSUME NEW l \in Lines, Receive(l) PROVE Served
  BY <1>8 DEF Receive, Abort, Served
<1>9. CASE Timeout \/ Idle \/ UNCHANGED daemonVars
  <2>1. UNCHANGED startVars BY <1>9 DEF Timeout, Idle, daemonVars
  <2> QED BY <2>1 DEF Served, startVars
<1> QED BY <1>1, <1>2, <1>3, <1>4, <1>5, <1>6, <1>7, <1>8, <1>9 DEF Next, Serve

-----------------------------------------------------------------------------
(* The order of the start. *)

LEMMA PidServed == ASSUME PidInv, Served PROVE PidInv'
  BY DEF PidInv, Served, InBackground

LEMMA PidStart ==
  ASSUME PidInv, StartNext \/ ConfigureDevicesMgr \/ Discover PROVE PidInv'
<1> USE Positions DEF At, Continue, Exit, Abort, environment
<1>1. CASE ParseCommandLineArg \/ LoggerInitialSetup \/ LoadConfiguration \/ LoggerSetup
  BY <1>1 DEF PidInv, InBackground, ParseCommandLineArg, LoggerInitialSetup, LoadConfiguration,
     LoggerSetup
<1>2. CASE Daemonize BY <1>2 DEF PidInv, InBackground, Daemonize
<1>3. CASE SavePid BY <1>3 DEF PidInv, InBackground, SavePid
<1>4. CASE DropPrivileges BY <1>4 DEF PidInv, InBackground, DropPrivileges
<1>5. CASE ConfigureVirtualEndpoint BY <1>5 DEF PidInv, InBackground, ConfigureVirtualEndpoint
<1>6. CASE AddDriver BY <1>6 DEF PidInv, InBackground, AddDriver
<1>7. CASE ConfiguredBus BY <1>7 DEF PidInv, InBackground, ConfiguredBus
<1>8. CASE ActivateBus \/ ActivateVirtualEndpoint \/ CreateNodeMgr \/ ConfigureDevicesMgr \/ Discover
  BY <1>8 DEF PidInv, InBackground, ActivateBus, ActivateVirtualEndpoint, CreateNodeMgr,
     ConfigureDevicesMgr, Discover, Start
<1> QED BY <1>1, <1>2, <1>3, <1>4, <1>5, <1>6, <1>7, <1>8 DEF StartNext

\* main of h9d, whatever the command line and the file say: no endpoint is opened and
\* no thread started before daemon() has forked, the pid file names this process and
\* the privileges are dropped; nothing the API does later changes that.
THEOREM StartOrderHolds == Spec => []StartOrder
<1>1. Init => PidInv BY DEF Init, StartInit, PidInv
<1>2. ASSUME PidInv, [Next]_daemonVars PROVE PidInv'
  BY <1>2, ServedSteps, PidServed, PidStart DEF DaemonConfigures, DaemonDiscovers
<1>3. PidInv => StartOrder BY DEF PidInv, StartOrder
<1> QED BY <1>1, <1>2, <1>3, PTL DEF Spec

-----------------------------------------------------------------------------
(* The endpoints. *)

LEMMA SectionServed == ASSUME SectionInv, Served PROVE SectionInv'
  BY DEF SectionInv, Served, EndpointsOf, Socket, Skipped

LEMMA SectionStart ==
  ASSUME SectionInv, StartNext \/ ConfigureDevicesMgr \/ Discover PROVE SectionInv'
<1> USE Positions DEF At, Continue, Exit, Abort, environment
<1>0. Len(cfg.endpoints) \in Nat /\ DOMAIN cfg.endpoints = 1..Len(cfg.endpoints)
  BY LenProperties DEF SectionInv
<1>1. CASE ParseCommandLineArg \/ LoggerInitialSetup \/ LoadConfiguration \/ LoggerSetup
           \/ Daemonize \/ SavePid \/ DropPrivileges
  BY <1>1 DEF SectionInv, ParseCommandLineArg, LoggerInitialSetup, LoadConfiguration,
     LoggerSetup, Daemonize, SavePid, DropPrivileges
<1>2. CASE ConfigureVirtualEndpoint
  <2>1. step = 8 /\ section = 0 /\ endpoints = {}
        /\ UNCHANGED <<cfg, section, endpoints, threads>> /\ step' \in {8, 9}
    BY <1>2 DEF SectionInv, ConfigureVirtualEndpoint
  <2>2. EndpointsOf(section)' = {} BY <2>1 DEF EndpointsOf
  <2> QED BY <2>1, <2>2 DEF SectionInv
<1>3. CASE AddDriver
  <2> DEFINE s == cfg.endpoints[section + 1]
  <2>0. step = 9 /\ status = "running" /\ section < Len(cfg.endpoints) /\ section' = section + 1
        /\ UNCHANGED <<cfg, configured, threads>> /\ step' = step
    BY <1>3 DEF AddDriver, SectionInv
  <2>1. endpoints = EndpointsOf(section) BY <2>0 DEF SectionInv
  <2>2. \A n \in Nat : EndpointsOf(n)' = EndpointsOf(n)
    BY <2>0 DEF EndpointsOf, Socket, Skipped
  <2>3. 1..(section + 1) = 1..section \cup {section + 1} BY <1>0, <2>0 DEF SectionInv
  <2>4. Skipped(s) => EndpointsOf(section + 1) = EndpointsOf(section)
    BY <2>3 DEF EndpointsOf
  <2>5. ~Skipped(s) => EndpointsOf(section + 1) = EndpointsOf(section) \cup {Socket(section + 1)}
    BY <2>3 DEF EndpointsOf
  <2>6. status' = "running" => endpoints' = EndpointsOf(section + 1)
    BY <1>3, <2>1, <2>4, <2>5 DEF AddDriver
  <2> QED BY <1>0, <2>0, <2>2, <2>6 DEF SectionInv
<1>4. CASE ConfiguredBus
  BY <1>0, <1>4 DEF SectionInv, ConfiguredBus, EndpointsOf, Socket, Skipped
<1>5. CASE ActivateBus \/ ActivateVirtualEndpoint \/ CreateNodeMgr \/ ConfigureDevicesMgr \/ Discover
  <2>1. /\ UNCHANGED <<cfg, configured, section, endpoints, status>>
        /\ step \in 10..14 /\ step' = step + 1
    BY <1>5 DEF SectionInv, ActivateBus, ActivateVirtualEndpoint, CreateNodeMgr,
       ConfigureDevicesMgr, Discover, Start
  <2>2. EndpointsOf(Len(cfg.endpoints))' = EndpointsOf(Len(cfg.endpoints))
    BY <2>1 DEF EndpointsOf, Socket, Skipped
  <2> QED BY <2>1, <2>2 DEF SectionInv
<1> QED BY <1>1, <1>2, <1>3, <1>4, <1>5 DEF StartNext

\* configure_bus, for any list of endpoint sections: when the bus runs it has a
\* socket for every section that was not left out, and at least one, so that
\* send_frame has somebody to acknowledge it.
THEOREM BusConfigured == Spec => []BusHasEndpoints
<1>1. Init => SectionInv
  <2> SUFFICES ASSUME Init PROVE SectionInv OBVIOUS
  <2>1. PICK s \in Starts : cfg = s.cfg BY DEF Init, StartInit
  <2>2. cfg \in ConfigType BY <2>1, StartupAssumption DEF StartType
  <2>3. cfg.endpoints \in Seq(SectionType) BY <2>2 DEF ConfigType
  <2>4. Len(cfg.endpoints) \in Nat BY <2>3, LenProperties
  <2> QED BY <2>3, <2>4 DEF Init, StartInit, SectionInv
<1>2. ASSUME SectionInv, [Next]_daemonVars PROVE SectionInv'
  BY <1>2, ServedSteps, SectionServed, SectionStart DEF DaemonConfigures, DaemonDiscovers
<1>3. SectionInv => BusHasEndpoints
  <2> SUFFICES ASSUME SectionInv, "bus" \in threads PROVE BusHasEndpoints BY DEF BusHasEndpoints
  <2>1. step > 9 BY DEF SectionInv
  <2>2. DOMAIN cfg.endpoints = 1..Len(cfg.endpoints) BY LenProperties DEF SectionInv
  <2> QED BY <2>1, <2>2 DEF SectionInv, BusHasEndpoints, EndpointsOf
<1> QED BY <1>1, <1>2, <1>3, PTL DEF Spec

-----------------------------------------------------------------------------
(* Frames as they are made. *)

\* H9Frame(): garbage, but of the right width.
LEMMA BlankFrame ==
  ASSUME NEW x \in Word
  PROVE  Blank(x) \in H9Frames
<1>1. PICK b : b = Low(x, 8)
  OBVIOUS
<1>2. b \in Byte
  <2>1. x \in Nat
    BY Words
  <2> QED BY <1>1, <2>1, Powers, SMT DEF Low, Byte
<1> QED BY <1>1, <1>2 DEF Blank, H9Frames

\* A frame made of g that differs from it in dlc and bytes only.
Refilled(h, g) ==
  /\ h \in H9Frames /\ h.dlc <= MAX_DATA_LENGTH
  /\ h.type = g.type /\ h.source_id = g.source_id /\ h.flags = g.flags
  /\ h.destination_id = g.destination_id /\ h.seqnum = g.seqnum /\ h.group = g.group

\* data(vector) takes at most eight bytes.
LEMMA Filled ==
  ASSUME NEW g \in H9Frames, NEW bytes \in Seq(Byte)
  PROVE  Refilled(WithData(g, bytes), g)
<1>1. PICK n : n = IF Len(bytes) < MAX_DATA_LENGTH THEN Len(bytes) ELSE MAX_DATA_LENGTH
  OBVIOUS
<1>2. n \in 0..8 /\ n <= Len(bytes) /\ n <= MAX_DATA_LENGTH
  <2>1. Len(bytes) \in Nat
    BY LenProperties
  <2>2. PICK len \in Nat : len = Len(bytes)
    BY <2>1
  <2>3. n = IF len < 8 THEN len ELSE 8
    BY <1>1, <2>2 DEF MAX_DATA_LENGTH
  <2>4. n \in 0..8 /\ n <= len /\ n <= 8
    BY <2>3, SMT
  <2> QED BY <2>2, <2>4 DEF MAX_DATA_LENGTH
<1>3. PICK data : data = [i \in 1..MAX_DATA_LENGTH |-> IF i <= n THEN bytes[i] ELSE g.data[i]]
  OBVIOUS
<1>4. data \in [1..MAX_DATA_LENGTH -> Byte]
  <2>1. g.data \in [1..MAX_DATA_LENGTH -> Byte]
    BY DEF H9Frames
  <2>2. ASSUME NEW i \in 1..MAX_DATA_LENGTH, i <= n
        PROVE  bytes[i] \in Byte
    <3>1. i \in 1..Len(bytes)
      BY <1>2, <2>2, SMT DEF MAX_DATA_LENGTH
    <3> QED BY <3>1, ElementOfSeq
  <2>3. ASSUME NEW i \in 1..MAX_DATA_LENGTH, ~(i <= n)
        PROVE  g.data[i] \in Byte
    BY <2>1
  <2> QED BY <1>3, <2>2, <2>3
<1>5. WithData(g, bytes) = [g EXCEPT !.dlc = n, !.data = data]
  BY <1>1, <1>3, Zenon DEF WithData
<1>6. n \in Byte
  BY <1>2, SMT DEF Byte
<1> QED BY <1>2, <1>4, <1>5, <1>6 DEF H9Frames, Refilled

\* The constructors.
LEMMA UnicastMade ==
  ASSUME NEW old \in H9Frames, NEW type \in Byte, NEW flags \in Byte, NEW dst \in Byte,
         NEW bytes \in Seq(Byte)
  PROVE  LET h == Unicast(old, type, flags, dst, bytes)
         IN /\ h \in H9Frames /\ h.dlc <= MAX_DATA_LENGTH /\ h.type = type /\ h.flags = flags
            /\ h.destination_id = dst
<1>1. PICK g : g = [old EXCEPT !.type = type, !.flags = flags, !.destination_id = dst]
  OBVIOUS
<1>2. g \in H9Frames /\ g.type = type /\ g.flags = flags /\ g.destination_id = dst
  BY <1>1 DEF H9Frames
<1>3. PICK h : h = Unicast(old, type, flags, dst, bytes)
  OBVIOUS
<1>4. h = WithData(g, bytes)
  BY <1>1, <1>3 DEF Unicast
<1>5. Refilled(h, g)
  BY <1>2, <1>4, Filled
<1> QED BY <1>2, <1>3, <1>5, Zenon DEF Refilled

LEMMA BroadcastMade ==
  ASSUME NEW old \in H9Frames, NEW type \in Byte, NEW group \in Word, NEW bytes \in Seq(Byte)
  PROVE  LET h == Broadcast(old, type, group, bytes)
         IN h \in H9Frames /\ h.dlc <= MAX_DATA_LENGTH /\ h.type = type /\ h.group = group
<1>1. PICK g : g = [old EXCEPT !.type = type, !.group = group]
  OBVIOUS
<1>2. g \in H9Frames /\ g.type = type /\ g.group = group
  BY <1>1 DEF H9Frames
<1>3. PICK h : h = Broadcast(old, type, group, bytes)
  OBVIOUS
<1>4. h = WithData(g, bytes)
  BY <1>1, <1>3 DEF Broadcast
<1>5. Refilled(h, g)
  BY <1>2, <1>4, Filled
<1> QED BY <1>2, <1>3, <1>5, Zenon DEF Refilled

\* What makes a frame fit, field by field.
LEMMA Fits ==
  ASSUME NEW h \in H9Frames, h.type < 32, h.dlc <= MAX_DATA_LENGTH, is_unicast(h) => h.seqnum < 32
  PROVE  h \in FitFrames
  BY DEF FitFrames

\* Frames that send_frame may be given: the number only matters where it is kept.
Sendable(f, raw) ==
  /\ f \in H9Frames /\ f.type < 32 /\ f.dlc <= MAX_DATA_LENGTH
  /\ is_unicast(f) /\ (raw \/ f.type \notin Numbered) => f.seqnum < 32

\* Source and number put in.
LEMMA StampedFits ==
  ASSUME NEW f, NEW raw \in BOOLEAN, Sendable(f, raw), next_seqnum \in 0..31
  PROVE  Stamped(f, raw) \in FitFrames
<1>1. CASE raw
  BY <1>1, Fits DEF Stamped, Sendable
<1>2. CASE ~raw
  <2>1. PICK n : n = IF f.type \in Numbered THEN next_seqnum ELSE f.seqnum
    OBVIOUS
  <2>2. PICK h : h = [f EXCEPT !.source_id = BusId, !.seqnum = n]
    OBVIOUS
  <2>3. Stamped(f, raw) = h
    BY <1>2, <2>1, <2>2 DEF Stamped, Sendable, H9Frames
  <2>4. n \in Byte
    <3>1. f.seqnum \in Byte
      BY DEF Sendable, H9Frames
    <3> QED BY <2>1, <3>1, SMT DEF Byte
  <2>5. h \in H9Frames /\ h.type = f.type /\ h.dlc = f.dlc /\ h.seqnum = n
    BY <2>2, <2>4, RequestAssumption DEF Sendable, H9Frames
  <2>6. is_unicast(h) => h.seqnum < 32
    <3>1. CASE f.type \in Numbered
      BY <2>1, <2>5, <3>1, SMT
    <3>2. CASE f.type \notin Numbered
      BY <2>1, <2>5, <3>2 DEF Sendable, is_unicast
    <3> QED BY <3>1, <3>2
  <2> QED BY <2>3, <2>5, <2>6, Fits DEF Sendable
<1> QED BY <1>1, <1>2

-----------------------------------------------------------------------------
(* Lines. *)

\* A frame on a line: both ends of it fit and mean the same.
Items == {m \in [sent : FitFrames, got : FitFrames] : Meaning(m.got) = Meaning(m.sent)}

LinesOK == /\ down \in [Lines -> Seq(Items)] /\ up \in [Lines -> Seq(Items)]
           /\ \A l \in Lines : down[l] # <<>> => Open(l)

\* Endpoints have a driver that was accepted.
EndpointsOK == \A i \in RealEndpoints : cfg.endpoints[i].driver \in {"loop", "udp", "SLCAN", "SocketCAN"}

LEMMA OpenDriver ==
  ASSUME EndpointsOK, NEW l \in Lines, Open(l)
  PROVE  Driver(l) \in Drivers
<1>1. CASE l = "virtual"
  BY <1>1 DEF Driver, Drivers, Datagram
<1>2. CASE l = "bus"
  <2>1. RealEndpoints # {}
    BY <1>2 DEF Open
  <2>2. (CHOOSE i \in RealEndpoints : TRUE) \in RealEndpoints
    BY <2>1
  <2> QED BY <1>2, <2>2 DEF EndpointsOK, Driver, Drivers, Datagram
<1> QED BY <1>1, <1>2 DEF Lines

\* A frame that fits, put on a line.
LEMMA LineItem ==
  ASSUME EndpointsOK, NEW l \in Lines, Open(l), NEW f \in FitFrames, NEW x \in Garbage
  PROVE  OnLine(l, f, x) \in Items
<1>1. Blank(x) \in H9Frames
  BY BlankFrame, VirtualAssumption
<1>2. Driver(l) \in Drivers
  BY OpenDriver
<1>3. PICK g : g = Carried(Driver(l), Blank(x), f)
  OBVIOUS
<1>4. g \in FitFrames /\ Meaning(g) = Meaning(f)
  BY <1>1, <1>2, <1>3, FramesCarried
<1>5. OnLine(l, f, x) = [sent |-> f, got |-> g]
  BY <1>3 DEF OnLine
<1> QED BY <1>4, <1>5 DEF Items

\* Bus::send_frame.
LEMMA SendLines ==
  ASSUME EndpointsOK, LinesOK, next_seqnum \in 0..31, NEW f, NEW raw \in BOOLEAN, NEW x \in Garbage,
         Sendable(f, raw), Send(f, raw, x), UNCHANGED <<endpoints, cfg>>
  PROVE  LinesOK' /\ next_seqnum' \in 0..31 /\ seqnum' \in Byte
<1>1. PICK g : g = Stamped(f, raw)
  OBVIOUS
<1>2. g \in FitFrames
  BY <1>1, StampedFits
<1>3. \A l \in Lines : Open(l) => <<OnLine(l, g, x)>> \in Seq(Items)
  BY <1>2, LineItem
<1>4. PICK on : on = [l \in Lines |-> <<OnLine(l, g, x)>>]
  OBVIOUS
<1>5. /\ down' = [l \in Lines |-> IF Open(l) /\ Driver(l) # "loop" THEN down[l] \o on[l] ELSE down[l]]
      /\ up' = [l \in Lines |-> IF Open(l) /\ Driver(l) = "loop" THEN up[l] \o on[l] ELSE up[l]]
      /\ next_seqnum' = IF ~raw /\ f.type \in Numbered THEN (next_seqnum + 1) % 2^SEQNUM_BIT_LENGTH
                        ELSE next_seqnum
      /\ seqnum' = g.seqnum
  BY <1>1, <1>4, Zenon DEF Send
<1>6. \A l \in Lines : Open(l)' <=> Open(l)
  BY DEF Open, RealEndpoints
<1>7. \A l \in Lines : down[l] \in Seq(Items) /\ up[l] \in Seq(Items) /\ (Open(l) => on[l] \in Seq(Items))
  BY <1>3, <1>4 DEF LinesOK
<1>8. \A l \in Lines : Open(l) => down[l] \o on[l] \in Seq(Items) /\ up[l] \o on[l] \in Seq(Items)
  BY <1>7, ConcatProperties
<1>9. LinesOK'
  BY <1>5, <1>6, <1>7, <1>8 DEF LinesOK
<1>10. next_seqnum' \in 0..31
  <2>1. 2^SEQNUM_BIT_LENGTH = 32
    BY Powers DEF SEQNUM_BIT_LENGTH
  <2>2. next_seqnum' \in {(next_seqnum + 1) % 32, next_seqnum}
    BY <1>5, <2>1
  <2> QED BY <2>2, SMT
<1>11. seqnum' \in Byte
  BY <1>2, <1>5 DEF FitFrames, H9Frames
<1> QED BY <1>9, <1>10, <1>11

\* SendUp, by the nodes at the other ends.
LEMMA SentUp ==
  ASSUME EndpointsOK, LinesOK, NEW l \in Lines, Open(l), NEW frames \in Seq(FitFrames),
         NEW x \in Garbage, SendUp(l, frames, x)
  PROVE  up' \in [Lines -> Seq(Items)]
<1>1. PICK on : on = [i \in DOMAIN frames |-> OnLine(l, frames[i], x)]
  OBVIOUS
<1>2. on \in Seq(Items)
  <2>1. Len(frames) \in Nat /\ DOMAIN frames = 1..Len(frames)
    BY LenProperties
  <2>2. \A i \in 1..Len(frames) : frames[i] \in FitFrames
    BY ElementOfSeq
  <2>3. \A i \in 1..Len(frames) : OnLine(l, frames[i], x) \in Items
    BY <2>2, LineItem
  <2>4. on \in [1..Len(frames) -> Items]
    BY <1>1, <2>1, <2>3
  <2>5. on \in UNION {[1..n -> Items] : n \in Nat}
    BY <2>1, <2>4
  <2> QED BY <2>5, SeqDef
<1>3. up[l] \o on \in Seq(Items)
  BY <1>2, ConcatProperties DEF LinesOK
<1>4. up' = [up EXCEPT ![l] = up[l] \o on]
  BY <1>1, Zenon DEF SendUp, LinesOK
<1> QED BY <1>3, <1>4 DEF LinesOK

-----------------------------------------------------------------------------
(* Registers and the bytes that are written into them. *)

RegsOK(regs) == DOMAIN regs \subseteq Byte /\ \A r \in DOMAIN regs : regs[r] \in DescType
TableOK(ts) == \A t \in DOMAIN ts : RegsOK(ts[t])

\* The low byte of any number.
LEMMA LowByte ==
  ASSUME NEW v \in Int
  PROVE  Low(v, 8) \in Byte
  BY Powers, SMT DEF Low, Byte

\* load_file takes the registers 10 to 255 of a file.
LEMMA LoadedTable ==
  ASSUME NEW f \in Files
  PROVE  TableOK(load_file(f))
<1>1. CASE f = Unreadable
  BY <1>1 DEF load_file, TableOK
<1>2. CASE f # Unreadable
  <2>1. load_file(f) = [t \in DOMAIN f |-> [r \in {q \in DOMAIN f[t] : q >= 10 /\ q <= 255} |-> f[t][r]]]
    BY <1>2 DEF load_file
  <2>2. \A t \in DOMAIN f : \A r \in DOMAIN f[t] : f[t][r] \in DescType
    BY <1>2, ContentsAssumption
  <2>3. ASSUME NEW t \in DOMAIN f
        PROVE  RegsOK([r \in {q \in DOMAIN f[t] : q >= 10 /\ q <= 255} |-> f[t][r]])
    <3>1. PICK regs : regs = [r \in {q \in DOMAIN f[t] : q >= 10 /\ q <= 255} |-> f[t][r]]
      OBVIOUS
    <3>2. DOMAIN regs \subseteq Byte
      <4>1. DOMAIN f[t] \subseteq Nat
        BY <1>2, ContentsAssumption
      <4>2. DOMAIN regs = {q \in DOMAIN f[t] : q >= 10 /\ q <= 255}
        BY <3>1
      <4>3. \A q \in Nat : q >= 10 /\ q <= 255 => q \in Byte
        BY SMT DEF Byte
      <4> QED BY <4>1, <4>2, <4>3
    <3> QED BY <2>2, <3>1, <3>2 DEF RegsOK
  <2> QED BY <2>1, <2>3 DEF TableOK
<1> QED BY <1>1, <1>2

\* The registers of a node.
LEMMA LoadedDescription ==
  ASSUME NEW ts, TableOK(ts), NEW t
  PROVE  RegsOK(load_description(ts, t))
<1>1. PICK described : described = get_node_register_by_type(ts, t)
  OBVIOUS
<1>2. RegsOK(described)
  BY <1>1 DEF get_node_register_by_type, TableOK, RegsOK
<1>3. RegsOK(std_register)
  <2>1. DOMAIN std_register = 1..5
    BY DEF std_register
  <2>2. \A r \in 1..5 : std_register[r] \in DescType
    BY SMT DEF std_register, RegisterDsc, DescType
  <2>3. 1..5 \subseteq Byte
    BY SMT DEF Byte
  <2> QED BY <2>1, <2>2, <2>3 DEF RegsOK
<1>4. load_description(ts, t) =
        [r \in DOMAIN std_register \cup DOMAIN described |->
           IF r \in DOMAIN described THEN described[r] ELSE std_register[r]]
  BY <1>1, Zenon DEF load_description
<1> QED BY <1>2, <1>3, <1>4 DEF RegsOK

\* Powers that shifts and masks divide by.
LEMMA MaskPositive ==
  ASSUME NEW k \in 1..31
  PROVE  2^k \in Int /\ 2^k > 0
<1>1. /\ 2^1 > 0 /\ 2^2 > 0 /\ 2^3 > 0 /\ 2^4 > 0 /\ 2^5 > 0 /\ 2^6 > 0 /\ 2^7 > 0 /\ 2^8 > 0
      /\ 2^9 > 0 /\ 2^10 > 0 /\ 2^11 > 0 /\ 2^12 > 0 /\ 2^13 > 0 /\ 2^14 > 0 /\ 2^15 > 0 /\ 2^16 > 0
      /\ 2^17 > 0 /\ 2^18 > 0 /\ 2^19 > 0 /\ 2^20 > 0 /\ 2^21 > 0 /\ 2^22 > 0 /\ 2^23 > 0 /\ 2^24 > 0
      /\ 2^25 > 0 /\ 2^26 > 0 /\ 2^27 > 0 /\ 2^28 > 0 /\ 2^29 > 0 /\ 2^30 > 0 /\ 2^31 > 0
  BY SMT
<1>2. \/ k = 1 \/ k = 2 \/ k = 3 \/ k = 4 \/ k = 5 \/ k = 6 \/ k = 7 \/ k = 8 \/ k = 9 \/ k = 10
      \/ k = 11 \/ k = 12 \/ k = 13 \/ k = 14 \/ k = 15 \/ k = 16 \/ k = 17 \/ k = 18 \/ k = 19
      \/ k = 20 \/ k = 21 \/ k = 22 \/ k = 23 \/ k = 24 \/ k = 25 \/ k = 26 \/ k = 27 \/ k = 28
      \/ k = 29 \/ k = 30 \/ k = 31
  BY SMT
<1>3. 2^k > 0
  BY <1>1, <1>2, Zenon
<1> QED BY <1>3, SMT

\* htons, htonl give bytes, of any number.
LEMMA BigEndianBytes ==
  ASSUME NEW v \in Int, NEW n \in {1, 2, 4}
  PROVE  BigEndian(v, n) \in Seq(Byte)
<1>1. ASSUME NEW i \in 1..n PROVE Low(Shr(v, 8 * (n - i)), 8) \in Byte
  <2>1. 8 * (n - i) \in {0, 8, 16, 24}
    BY SMT
  <2>2. PICK k : k = 8 * (n - i)
    OBVIOUS
  <2>3. CASE k = 0
    <3>1. Shr(v, 0) = v \div 1
      BY SMT DEF Shr
    <3>2. Shr(v, k) \in Int
      BY <2>3, <3>1, SMT
    <3> QED BY <2>2, <3>2, LowByte
  <2>4. CASE k \in {8, 16, 24}
    <3>0. k \in 1..31
      BY <2>4, SMT
    <3>1. 2^k \in Int /\ 2^k > 0
      BY <3>0, MaskPositive, Zenon
    <3>2. Shr(v, k) \in Int
      BY <3>1, SMT DEF Shr
    <3> QED BY <2>2, <3>2, LowByte
  <2> QED BY <2>1, <2>2, <2>3, <2>4
<1>2. BigEndian(v, n) \in [1..n -> Byte]
  BY <1>1 DEF BigEndian
<1>3. BigEndian(v, n) \in UNION {[1..m -> Byte] : m \in Nat}
  BY <1>2, SMT
<1> QED BY <1>3, SeqDef

\* A JSON value: a number, or made of bytes.
ValueOK(v) == IF v.json = "integer" THEN v.value[1] \in Int ELSE v.value \in Seq(Byte)

\* Bytes of a frame.
LEMMA DataPart ==
  ASSUME NEW data \in [1..8 -> 0..255], NEW m \in {1, 2}, NEW n \in 0..8
  PROVE  SubSeq(data, m, n) \in Seq(Byte)
<1>1. PICK k : k = IF m <= n THEN n - m + 1 ELSE 0
  OBVIOUS
<1>2. k \in Nat /\ \A i \in 1..k : m + i - 1 \in 1..8
  BY <1>1, SMT
<1>3. SubSeq(data, m, n) = [i \in 1..k |-> data[m + i - 1]]
  BY <1>1, SMT
<1>4. [i \in 1..k |-> data[m + i - 1]] \in [1..k -> Byte]
  BY <1>2 DEF Byte
<1>5. SubSeq(data, m, n) \in UNION {[1..l -> Byte] : l \in Nat}
  BY <1>2, <1>3, <1>4
<1> QED BY <1>5, SeqDef

LEMMA UpToBytes ==
  ASSUME NEW s \in Seq(Byte), NEW n \in Nat
  PROVE  UpTo(s, n) \in Seq(Byte)
<1>1. Len(s) \in Nat
  BY LenProperties
<1>2. PICK m : m = IF Len(s) < n THEN Len(s) ELSE n
  OBVIOUS
<1>3. m \in 0..Len(s)
  BY <1>1, <1>2, SMT
<1>4. UpTo(s, n) = SubSeq(s, 1, m)
  BY <1>2, Zenon DEF UpTo
<1>5. \A i \in 1..m : i \in 1..Len(s) /\ s[i] \in Byte
  <2>1. \A i \in 1..m : i \in 1..Len(s)
    BY <1>1, <1>3, SMT
  <2> QED BY <2>1, ElementOfSeq
<1>6. SubSeq(s, 1, m) \in Seq(Byte)
  <2>1. SubSeq(s, 1, m) = [i \in 1..m |-> s[i]]
    BY <1>1, <1>3, SMT
  <2>2. m \in Nat /\ [i \in 1..m |-> s[i]] \in [1..m -> Byte]
    BY <1>1, <1>3, <1>5
  <2>3. SubSeq(s, 1, m) \in UNION {[1..k -> Byte] : k \in Nat}
    BY <2>1, <2>2
  <2> QED BY <2>3, SeqDef
<1> QED BY <1>4, <1>6

\* What set_register hands over are bytes.
LEMMA SetBytesAre ==
  ASSUME NEW d \in DescType, NEW v, ValueOK(v), Conversion(d, v) # "none", NEW b \in SetBytes(d, v)
  PROVE  b \in Seq(Byte)
<1>1. d.size \in 1..56
  BY DEF DescType
<1>2. CASE Conversion(d, v) = "integer"
  <2>1. v.json = "integer"
    BY <1>2 DEF Conversion
  <2>2. PICK n : n = v.value[1]
    OBVIOUS
  <2>3. n \in Int
    BY <2>1, <2>2 DEF ValueOK
  <2>4. PICK m \in Masked(d, n) : b = BigEndian(m, Width(d))
    BY <1>2, <2>2 DEF SetBytes
  <2>5. m \in Int
    <3>1. CASE d.size < 32
      <4>1. d.size \in 1..31
        BY <1>1, <3>1, SMT
      <4>2. 2^d.size \in Int /\ 2^d.size > 0
        BY <4>1, MaskPositive
      <4>3. m = n % 2^d.size
        BY <2>4, <3>1 DEF Masked, Low
      <4> QED BY <2>3, <4>2, <4>3, SMT
    <3>2. CASE ~(d.size < 32)
      BY <2>3, <2>4, <3>2 DEF Masked
    <3> QED BY <3>1, <3>2
  <2>6. Width(d) \in {1, 2, 4}
    BY DEF Width
  <2> QED BY <2>4, <2>5, <2>6, BigEndianBytes
<1>3. CASE Conversion(d, v) = "string"
  <2>1. v.value \in Seq(Byte)
    <3>1. v.json = "string"
      BY <1>3 DEF Conversion
    <3> QED BY <3>1 DEF ValueOK
  <2>2. d.size \div 8 \in Nat
    BY <1>1, SMT
  <2>3. b = UpTo(v.value, d.size \div 8)
    BY <1>3 DEF SetBytes
  <2> QED BY <2>1, <2>2, <2>3, UpToBytes
<1>4. CASE Conversion(d, v) \notin {"integer", "string"}
  <2>1. v.json # "integer"
    BY <1>4 DEF Conversion
  <2>2. b = v.value
    BY <1>4 DEF SetBytes
  <2> QED BY <2>1, <2>2 DEF ValueOK
<1> QED BY <1>2, <1>3, <1>4

\* The nodes that are known.
NodesOK ==
  /\ DOMAIN nodes \subseteq Byte
  /\ \A i \in DOMAIN nodes :
       /\ nodes[i] = [init |-> nodes[i].init, type |-> nodes[i].type, regs |-> nodes[i].regs]
       /\ nodes[i].init \in BOOLEAN /\ nodes[i].type \in Word /\ RegsOK(nodes[i].regs)

\* A request to a node, with its numbers.
LEMMA NodeFrameMade ==
  ASSUME NEW r, r.id \in Byte, NEW type \in {SET_REG, GET_REG, SET_BIT, CLEAR_BIT, NODE_RESET},
         NEW bytes \in Seq(Byte), NEW x \in Garbage
  PROVE  Sendable(NodeFrame(r, type, bytes, x), FALSE)
<1>1. Blank(x) \in H9Frames
  BY BlankFrame, VirtualAssumption
<1>2. type \in Byte /\ type \in Numbered /\ type < 32 /\ 0 \in Byte
  BY SMT DEF SET_REG, GET_REG, SET_BIT, CLEAR_BIT, NODE_RESET, NODE_UPGRADE, Byte, Numbered
<1>3. PICK h : h = Unicast(Blank(x), type, 0, r.id, bytes)
  OBVIOUS
<1>4. h \in H9Frames /\ h.dlc <= MAX_DATA_LENGTH /\ h.type = type
  BY <1>1, <1>2, <1>3, UnicastMade
<1>5. NodeFrame(r, type, bytes, x) = h
  BY <1>3 DEF NodeFrame
<1> QED BY <1>2, <1>4, <1>5 DEF Sendable

\* Node's requests can be sent: a register that was found has a number within a byte.
LEMMA NodeFrames ==
  ASSUME NodesOK, NEW r, r.bit \in Byte, ValueOK(r.value), r.method \in NodeMethods \cup {"dev_method_call"},
         NodeRefuses(r) = "none", NEW x \in Garbage, NEW f \in Frames(r, x)
  PROVE  Sendable(f, FALSE)
<1>1. r.id \in DOMAIN nodes /\ r.id \in Byte
  BY DEF NodeRefuses, NodesOK
<1>2. PICK regs : regs = nodes[r.id].regs
  OBVIOUS
<1>3. RegsOK(regs)
  BY <1>1, <1>2 DEF NodesOK
<1>4. CASE r.method \in {"set_register_value", "dev_method_call"}
  <2>1. SetRefused(regs, r.reg, r.value) = "none"
    BY <1>1, <1>2, <1>4 DEF NodeRefuses
  <2>2. r.reg \in DOMAIN regs /\ Conversion(regs[r.reg], r.value) # "none"
    BY <2>1 DEF SetRefused
  <2>3. PICK b \in SetBytes(regs[r.reg], r.value) : f = NodeFrame(r, SET_REG, <<r.reg>> \o b, x)
    BY <1>2, <1>4 DEF Frames
  <2>4. r.reg \in Byte /\ regs[r.reg] \in DescType
    BY <1>3, <2>2 DEF RegsOK
  <2>5. b \in Seq(Byte)
    BY <2>2, <2>4, SetBytesAre
  <2>6. <<r.reg>> \o b \in Seq(Byte)
    BY <2>4, <2>5, ConcatProperties
  <2> QED BY <1>1, <2>3, <2>6, NodeFrameMade
<1>5. CASE r.method = "get_register_value"
  <2>1. GetRefused(regs, r.reg) = "none"
    BY <1>1, <1>2, <1>5 DEF NodeRefuses
  <2>2. r.reg \in Byte
    BY <1>3, <2>1 DEF GetRefused, RegsOK
  <2>3. f = NodeFrame(r, GET_REG, <<r.reg>>, x)
    BY <1>5 DEF Frames
  <2>4. <<r.reg>> \in Seq(Byte)
    BY <2>2
  <2> QED BY <1>1, <2>3, <2>4, NodeFrameMade
<1>6. CASE r.method \in {"set_register_bit", "clear_register_bit"}
  <2>1. BitRefused(regs, r.reg) = "none"
    BY <1>1, <1>2, <1>6 DEF NodeRefuses
  <2>2. r.reg \in Byte
    BY <1>3, <2>1 DEF BitRefused, RegsOK
  <2>3. f \in {NodeFrame(r, SET_BIT, <<r.reg, r.bit>>, x), NodeFrame(r, CLEAR_BIT, <<r.reg, r.bit>>, x)}
    BY <1>6 DEF Frames
  <2>4. <<r.reg, r.bit>> \in Seq(Byte)
    BY <2>2
  <2> QED BY <1>1, <2>3, <2>4, NodeFrameMade
<1>7. CASE r.method = "node_reset"
  <2>1. f = NodeFrame(r, NODE_RESET, <<>>, x)
    BY <1>7 DEF Frames
  <2>2. <<>> \in Seq(Byte)
    OBVIOUS
  <2> QED BY <1>1, <2>1, <2>2, NodeFrameMade
<1> QED BY <1>4, <1>5, <1>6, <1>7 DEF NodeMethods

LEMMA ZeroWord == 0 \in Word
<1>1. 2^16 - 1 \in Nat
  BY Powers, SMT
<1> QED BY <1>1, SMT DEF Word

-----------------------------------------------------------------------------
(* The virtual node. *)

\* Ids have nine bits.
LEMMA Ids ==
  ASSUME NEW k \in 0..511
  PROVE  k \in Int /\ (k < 256 => k \in Byte)
  BY SMT DEF Byte

VNodes == [alive : BOOLEAN, id : 0..511, new_id : 0..511, reg : Seq(Byte)]
VOutcomes == [node : VNodes, sent : Seq(FitFrames)]

\* One frame, and none.
LEMMA Sent ==
  /\ \A f \in FitFrames : <<f>> \in Seq(FitFrames)
  /\ <<>> \in Seq(FitFrames)
  OBVIOUS

\* The frames of a fitting frame's fields.
LEMMA FitBytes ==
  ASSUME NEW f \in FitFrames
  PROVE  /\ f \in H9Frames /\ f.source_id \in Byte /\ f.seqnum \in Byte /\ f.dlc \in 0..8
         /\ \A i \in 1..8 : f.data[i] \in Byte
         /\ f.data \in [1..8 -> 0..255]
<1>1. f \in H9Frames /\ f.dlc \in 0..8
  BY Fitting, Zenon
<1>2. /\ f.source_id \in 0..255 /\ f.seqnum \in 0..255 /\ f.data \in [1..8 -> 0..255]
  BY <1>1, Fields, Zenon
<1> QED BY <1>1, <1>2, Zenon DEF Byte

\* A frame that is filled, numbered and addressed.
LEMMA Answered ==
  ASSUME NEW g \in H9Frames, g.type \in {REG_VALUE, COMMAND_ERROR}, NEW bytes \in Seq(Byte),
         NEW n \in 0..31, NEW src \in Byte, NEW dst \in Byte
  PROVE  [WithData(g, bytes) EXCEPT !.seqnum = n, !.source_id = src, !.destination_id = dst] \in FitFrames
<1>1. PICK h : h = WithData(g, bytes)
  OBVIOUS
<1>2. h \in H9Frames /\ h.dlc <= MAX_DATA_LENGTH /\ h.type = g.type
  BY <1>1, Filled DEF Refilled
<1>3. PICK k : k = [h EXCEPT !.seqnum = n, !.source_id = src, !.destination_id = dst]
  OBVIOUS
<1>4. n \in Byte /\ n < 32
  BY SMT DEF Byte
<1>5. k \in H9Frames /\ k.dlc = h.dlc /\ k.type = h.type /\ k.seqnum = n
  BY <1>2, <1>3, <1>4 DEF H9Frames
<1>6. k.type < 32
  BY <1>2, <1>5, SMT DEF REG_VALUE, COMMAND_ERROR
<1>7. k.dlc <= MAX_DATA_LENGTH /\ (is_unicast(k) => k.seqnum < 32)
  BY <1>2, <1>4, <1>5
<1>8. k \in FitFrames
  BY <1>5, <1>6, <1>7, Fits
<1> QED BY <1>1, <1>3, <1>8

LEMMA Replied ==
  ASSUME NEW n \in VNodes, NEW f \in FitFrames, is_unicast(f), NEW old \in H9Frames,
         NEW type \in {REG_VALUE, COMMAND_ERROR}, NEW bytes \in Seq(Byte)
  PROVE  Reply(old, n, f, type, bytes) \in FitFrames
<1>1. f.seqnum \in 0..31 /\ f.source_id \in Byte
  BY Fitting, FitBytes, Zenon
<1>2. Low(n.id, 8) \in Byte
  <2>0. n.id \in 0..511
    BY Zenon DEF VNodes
  <2>1. n.id \in Int
    BY <2>0, Ids, Zenon
  <2> QED BY <2>1, LowByte
<1>3. type \in Byte
  BY SMT DEF Byte, REG_VALUE, COMMAND_ERROR
<1>4. PICK g : g = [old EXCEPT !.type = type]
  OBVIOUS
<1>5. g \in H9Frames /\ g.type = type
  BY <1>3, <1>4 DEF H9Frames
<1>6. [WithData(g, bytes) EXCEPT !.seqnum = f.seqnum, !.source_id = Low(n.id, 8),
                                 !.destination_id = f.source_id] \in FitFrames
  BY <1>1, <1>2, <1>5, Answered
<1> QED BY <1>4, <1>6, Zenon DEF Reply

LEMMA VersionBytes ==
  /\ VERSION \in Seq(Byte) /\ SubSeq(VERSION, 1, 4) \in Seq(Byte) /\ NodeInfo \in Seq(Byte)
<1>1. VERSION \in Seq(Byte) /\ Len(VERSION) = 6
  BY SMT DEF VERSION, Byte
<1>2. SubSeq(VERSION, 1, 4) \in Seq(Byte)
  <2>1. \A i \in 1..4 : VERSION[i] \in Byte
    BY SMT DEF VERSION, Byte
  <2> QED BY <2>1, SubSeqProperties
<1>3. BigEndian(VirtualType, 2) \in Seq(Byte)
  <2>1. VirtualType \in Int
    BY VirtualAssumption, Words
  <2> QED BY <2>1, BigEndianBytes
<1>4. <<0, 0>> \in Seq(Byte)
  BY SMT DEF Byte
<1> QED BY <1>1, <1>2, <1>3, <1>4, ConcatProperties DEF NodeInfo

LEMMA TurnedOnFits ==
  ASSUME NEW old \in H9Frames, NEW id \in 0..511
  PROVE  TurnedOn(old, id) \in FitFrames
<1>1. PICK h : h = Broadcast(old, NODE_TURNED_ON, VirtualType, NodeInfo)
  OBVIOUS
<1>2. NODE_TURNED_ON \in Byte
  BY SMT DEF NODE_TURNED_ON, Byte
<1>3. h \in H9Frames /\ h.dlc <= MAX_DATA_LENGTH /\ h.type = NODE_TURNED_ON
  <2>1. VirtualType \in Word /\ NodeInfo \in Seq(Byte)
    BY VirtualAssumption, VersionBytes, Zenon
  <2> QED BY <1>1, <1>2, <2>1, BroadcastMade
<1>4. Low(id, 8) \in Byte
  <2>1. id \in Int
    BY SMT
  <2> QED BY <2>1, LowByte
<1>5. PICK k : k = [h EXCEPT !.source_id = Low(id, 8)]
  OBVIOUS
<1>6. k \in H9Frames /\ k.dlc = h.dlc /\ k.type = h.type
  BY <1>3, <1>4, <1>5 DEF H9Frames
<1>7. k.type < 32 /\ ~is_unicast(k)
  BY <1>3, <1>6, SMT DEF NODE_TURNED_ON, is_unicast, DISCOVER
<1>8. k \in FitFrames
  BY <1>3, <1>6, <1>7, Fits
<1> QED BY <1>1, <1>5, <1>8, Zenon DEF TurnedOn

\* The setters of the h9 module raise what does not fit.
LEMMA PyFrameFits ==
  ASSUME NEW type \in {REG_VALUE, COMMAND_ERROR}, NEW n \in 0..31, NEW dst \in Byte, NEW src \in 0..511,
         NEW bytes \in Seq(Byte), NEW s \in PyFrame(type, n, dst, src, bytes)
  PROVE  s \in Seq(FitFrames)
<1>1. src < 256 /\ s = <<WithData([Blank(0) EXCEPT !.type = type, !.seqnum = n, !.destination_id = dst,
                                                  !.source_id = src], bytes)>>
  BY DEF PyFrame
<1>2. src \in Byte /\ n \in Byte /\ n < 32 /\ type \in Byte /\ type < 32
  <2>1. src \in Byte
    BY <1>1, Ids, Zenon
  <2>2. n \in Byte /\ n < 32
    BY SMT DEF Byte
  <2>3. type \in Byte /\ type < 32
    BY SMT DEF Byte, REG_VALUE, COMMAND_ERROR
  <2> QED BY <2>1, <2>2, <2>3
<1>3. Blank(0) \in H9Frames
  BY ZeroWord, BlankFrame
<1>4. PICK g : g = [Blank(0) EXCEPT !.type = type, !.seqnum = n, !.destination_id = dst, !.source_id = src]
  OBVIOUS
<1>5. g \in H9Frames /\ g.type = type /\ g.seqnum = n
  BY <1>2, <1>3, <1>4 DEF H9Frames
<1>6. PICK h : h = WithData(g, bytes)
  OBVIOUS
<1>7. h \in H9Frames /\ h.dlc <= MAX_DATA_LENGTH /\ h.type = type /\ h.seqnum = n
  BY <1>5, <1>6, Filled, Zenon DEF Refilled
<1>8. h \in FitFrames
  BY <1>2, <1>7, Fits
<1>9. s = <<h>>
  BY <1>1, <1>4, <1>6, Zenon
<1> QED BY <1>8, <1>9, Sent

\* What the Python module does.
LEMMA PyOutcome ==
  ASSUME NEW n \in VNodes, NEW f \in FitFrames, is_unicast(f), NEW o \in CallPyOnFrame(n, f)
  PROVE  o \in VOutcomes
<1>1. [node |-> n, sent |-> <<>>] \in VOutcomes
  BY Sent DEF VOutcomes
<1>2. PICK reg : reg = IF f.type = SET_REG /\ f.data[1] = PY_REG THEN SubSeq(f.data, 2, f.dlc) ELSE n.reg
  OBVIOUS
<1>3. reg \in Seq(Byte)
  <2>1. SubSeq(f.data, 2, f.dlc) \in Seq(Byte)
    BY FitBytes, DataPart
  <2>2. n.reg \in Seq(Byte)
    BY DEF VNodes
  <2> QED BY <1>2, <2>1, <2>2
<1>4. PICK replies : replies = IF f.type \notin {GET_REG, SET_REG} THEN {}
                 ELSE IF f.data[1] # PY_REG
                 THEN PyFrame(COMMAND_ERROR, f.seqnum, f.source_id, n.id, <<INVALID_REGISTER>>)
                 ELSE PyFrame(REG_VALUE, f.seqnum, f.source_id, n.id, <<PY_REG>> \o reg)
  OBVIOUS
<1>5. ASSUME NEW s \in replies PROVE s \in Seq(FitFrames)
  <2>1. f.seqnum \in 0..31 /\ f.source_id \in Byte /\ n.id \in 0..511
    <3>1. n.id \in 0..511
      BY Zenon DEF VNodes
    <3>2. f.seqnum \in 0..31
      BY Fitting, Zenon
    <3>3. f.source_id \in Byte
      BY FitBytes, Zenon
    <3> QED BY <3>1, <3>2, <3>3
  <2>2. <<INVALID_REGISTER>> \in Seq(Byte) /\ <<PY_REG>> \in Seq(Byte)
    BY SMT DEF INVALID_REGISTER, PY_REG, Byte
  <2>3. <<PY_REG>> \o reg \in Seq(Byte)
    BY <1>3, <2>2, ConcatProperties
  <2>4. \/ s \in PyFrame(COMMAND_ERROR, f.seqnum, f.source_id, n.id, <<INVALID_REGISTER>>)
        \/ s \in PyFrame(REG_VALUE, f.seqnum, f.source_id, n.id, <<PY_REG>> \o reg)
    BY <1>4
  <2> QED BY <2>1, <2>2, <2>3, <2>4, PyFrameFits
<1>6. [n EXCEPT !.reg = reg] \in VNodes
  BY <1>3 DEF VNodes
<1>7. o = [node |-> n, sent |-> <<>>] \/ \E s \in replies : o = [node |-> [n EXCEPT !.reg = reg], sent |-> s]
  BY <1>2, <1>4, Zenon DEF CallPyOnFrame, PyOnFrame
<1>8. \A s \in Seq(FitFrames) : [node |-> [n EXCEPT !.reg = reg], sent |-> s] \in VOutcomes
  BY <1>6 DEF VOutcomes
<1> QED BY <1>1, <1>5, <1>7, <1>8, Zenon

\* A standard register is answered with bytes.
LEMMA GetStdFits ==
  ASSUME NEW n \in VNodes, NEW f \in FitFrames, is_unicast(f), NEW old \in H9Frames
  PROVE  GetStdRegister(old, n, f) \in FitFrames
<1>1. PICK r : r = f.data[1]
  OBVIOUS
<1>2. CASE r \in 1..5
  <2>1. StdRegister(old, n, r) \in Seq(Byte)
    <3>1. CASE r = 1
      <4>1. VirtualType \in Int
        BY VirtualAssumption, Words
      <4> QED BY <3>1, <4>1, BigEndianBytes DEF StdRegister
    <3>2. CASE r = 2
      BY <3>2, VersionBytes DEF StdRegister
    <3>3. CASE r = 3
      <4>1. PyModule \in Seq(Byte)
        <5>1. 1..255 \subseteq Byte
          BY SMT DEF Byte
        <5>2. PyModule \in Seq(1..255)
          BY VirtualAssumption, Zenon
        <5>3. Len(PyModule) \in Nat /\ PyModule \in [1..Len(PyModule) -> 1..255]
          BY <5>2, LenProperties
        <5>4. PyModule \in [1..Len(PyModule) -> Byte]
          BY <5>1, <5>3
        <5>5. PyModule \in UNION {[1..k -> Byte] : k \in Nat}
          BY <5>3, <5>4
        <5> QED BY <5>5, SeqDef
      <4>2. StdRegister(old, n, r) = UpTo(PyModule, 6)
        BY <3>3 DEF StdRegister, UpTo
      <4> QED BY <4>1, <4>2, UpToBytes
    <3>4. CASE r = 4
      <4>1. n.new_id \in 0..511
        BY Zenon DEF VNodes
      <4>2. n.new_id \in Int
        BY <4>1, SMT
      <4> QED BY <3>4, <4>2, BigEndianBytes DEF StdRegister
    <3>5. CASE r = 5
      BY <3>5, SMT DEF StdRegister, Byte
    <3> QED BY <1>2, <3>1, <3>2, <3>3, <3>4, <3>5
  <2>2. PICK b : b = IF r = 3 THEN old.data[1] ELSE r
    OBVIOUS
  <2>3. <<b>> \in Seq(Byte)
    <3>1. old.data[1] \in Byte
      BY DEF H9Frames, MAX_DATA_LENGTH
    <3>2. r \in Byte
      BY <1>2, SMT DEF Byte
    <3> QED BY <2>2, <3>1, <3>2
  <2>4. <<b>> \o StdRegister(old, n, r) \in Seq(Byte)
    BY <2>1, <2>3, ConcatProperties
  <2>5. GetStdRegister(old, n, f) = Reply(old, n, f, REG_VALUE, <<b>> \o StdRegister(old, n, r))
    BY <1>1, <1>2, <2>2, Zenon DEF GetStdRegister
  <2> QED BY <2>4, <2>5, Replied
<1>3. CASE r \notin 1..5
  <2>1. GetStdRegister(old, n, f) = Reply(old, n, f, COMMAND_ERROR, <<INVALID_REGISTER>>)
    BY <1>1, <1>3, Zenon DEF GetStdRegister
  <2>2. <<INVALID_REGISTER>> \in Seq(Byte)
    BY SMT DEF INVALID_REGISTER, Byte
  <2> QED BY <2>1, <2>2, Replied
<1> QED BY <1>2, <1>3

LEMMA SetStdFits ==
  ASSUME NEW n \in VNodes, NEW f \in FitFrames, is_unicast(f), NEW old \in H9Frames
  PROVE  SetStdRegister(old, n, f) \in VOutcomes
<1>1. CASE f.data[1] = 4 /\ f.dlc = 3
  <2>1. PICK id : id = Low(f.data[2], 1) * 256 + f.data[3]
    OBVIOUS
  <2>2. f.data[2] \in 0..255 /\ f.data[3] \in 0..255
    <3>1. 2 \in 1..8 /\ 3 \in 1..8
      BY SMT
    <3>2. f.data[2] \in Byte /\ f.data[3] \in Byte
      BY <3>1, FitBytes, ZenonT(60)
    <3> QED BY <3>2, Zenon DEF Byte
  <2>3. id \in 0..511
    <3>1. PICK a \in 0..255 : a = f.data[2]
      BY <2>2, Zenon
    <3>2. PICK c \in 0..255 : c = f.data[3]
      BY <2>2, Zenon
    <3>3. id = (a % 2^1) * 256 + c
      BY <2>1, <3>1, <3>2, Zenon DEF Low
    <3> QED BY <3>3, SMTT(30)
  <2>4. [n EXCEPT !.new_id = id] \in VNodes
    BY <2>3 DEF VNodes
  <2>5. SubSeq(f.data, 1, 3) \in Seq(Byte)
    BY FitBytes, DataPart
  <2>6. Reply(old, n, f, REG_VALUE, SubSeq(f.data, 1, 3)) \in FitFrames
    BY <2>5, Replied
  <2>7. SetStdRegister(old, n, f) = [node |-> [n EXCEPT !.new_id = id],
                                     sent |-> <<Reply(old, n, f, REG_VALUE, SubSeq(f.data, 1, 3))>>]
    BY <1>1, <2>1, Zenon DEF SetStdRegister
  <2> QED BY <2>4, <2>6, <2>7, Sent DEF VOutcomes
<1>2. CASE ~(f.data[1] = 4 /\ f.dlc = 3)
  <2>1. <<INVALID_REGISTER>> \in Seq(Byte)
    BY SMT DEF INVALID_REGISTER, Byte
  <2>2. Reply(old, n, f, COMMAND_ERROR, <<INVALID_REGISTER>>) \in FitFrames
    BY <2>1, Replied
  <2>3. SetStdRegister(old, n, f) = [node |-> n,
                                     sent |-> <<Reply(old, n, f, COMMAND_ERROR, <<INVALID_REGISTER>>)>>]
    BY <1>2, Zenon DEF SetStdRegister
  <2> QED BY <2>2, <2>3, Sent DEF VOutcomes
<1> QED BY <1>1, <1>2

\* VirtualPyNode::on_frame: whatever fits is answered with what fits.
LEMMA OnFrameFits ==
  ASSUME NEW n \in VNodes, NEW f \in FitFrames, NEW old \in H9Frames, NEW o \in on_frame(n, f, old)
  PROVE  o \in VOutcomes
<1>1. ASSUME NEW g \in FitFrames PROVE [node |-> n, sent |-> <<g>>] \in VOutcomes
  BY Sent DEF VOutcomes
<1>2. [node |-> n, sent |-> <<>>] \in VOutcomes
  BY Sent DEF VOutcomes
<1>3. f.type \in {SET_REG, GET_REG, SET_BIT, CLEAR_BIT, NODE_UPGRADE} => is_unicast(f)
  BY SMT DEF SET_REG, GET_REG, SET_BIT, CLEAR_BIT, NODE_UPGRADE, is_unicast, DISCOVER
<1>4. CASE o = [node |-> Created(n.new_id, <<0>>), sent |-> <<TurnedOn(old, n.new_id)>>]
  <2>1. n.new_id \in 0..511
    BY Zenon DEF VNodes
  <2>2. <<0>> \in Seq(Byte)
    BY SMT DEF Byte
  <2>3. Created(n.new_id, <<0>>) \in VNodes
    BY <2>1, <2>2 DEF Created, VNodes
  <2>4. TurnedOn(old, n.new_id) \in FitFrames
    BY <2>1, TurnedOnFits
  <2> QED BY <1>4, <2>3, <2>4, Sent DEF VOutcomes
<1>5. <<BOOTLOADER_UNSUPPORTED>> \in Seq(Byte)
  BY SMT DEF BOOTLOADER_UNSUPPORTED, Byte
<1>6. is_unicast(f) =>
        /\ Reply(old, n, f, COMMAND_ERROR, <<BOOTLOADER_UNSUPPORTED>>) \in FitFrames
        /\ GetStdRegister(old, n, f) \in FitFrames /\ SetStdRegister(old, n, f) \in VOutcomes
        /\ (o \in CallPyOnFrame(n, f) => o \in VOutcomes)
  BY <1>5, Replied, GetStdFits, SetStdFits, PyOutcome
<1>7. \/ o = [node |-> n, sent |-> <<f>>]
      \/ o = [node |-> Created(n.new_id, <<0>>), sent |-> <<TurnedOn(old, n.new_id)>>]
      \/ /\ f.type \in {SET_REG, GET_REG, SET_BIT, CLEAR_BIT, NODE_UPGRADE}
         /\ \/ o \in CallPyOnFrame(n, f)
            \/ o = SetStdRegister(old, n, f)
            \/ o = [node |-> n, sent |-> <<GetStdRegister(old, n, f)>>]
            \/ o = [node |-> n, sent |-> <<Reply(old, n, f, COMMAND_ERROR, <<BOOTLOADER_UNSUPPORTED>>)>>]
      \/ o = [node |-> n, sent |-> <<>>]
  BY DEF on_frame
<1> QED BY <1>1, <1>2, <1>3, <1>4, <1>6, <1>7, Zenon

-----------------------------------------------------------------------------
(* The node on the real bus. *)

\* The registers hold bytes, as many as at the start.
Contents == {p \in [DOMAIN PeerRegs -> Seq(Byte)] : \A r \in DOMAIN PeerRegs : Len(p[r]) = Len(PeerRegs[r])}
POutcomes == [regs : Contents, sent : Seq(FitFrames)]

LEMMA PeerInfoFits ==
  ASSUME NEW type \in {NODE_INFO, NODE_TURNED_ON}
  PROVE  PeerInfo(type) \in FitFrames
<1>1. PeerType \in Word /\ PeerId \in Byte
  BY RequestAssumption
<1>2. PICK bytes : bytes = BigEndian(PeerType, 2) \o <<0, 1, 0, 2, 65, 0>>
  OBVIOUS
<1>3. bytes \in Seq(Byte)
  <2>1. PeerType \in Int
    BY <1>1, Words
  <2>2. BigEndian(PeerType, 2) \in Seq(Byte)
    BY <2>1, BigEndianBytes
  <2>3. <<0, 1, 0, 2, 65, 0>> \in Seq(Byte)
    BY SMT DEF Byte
  <2> QED BY <1>2, <2>2, <2>3, ConcatProperties
<1>4. PICK h : h = Broadcast(Blank(0), type, PeerType, bytes)
  OBVIOUS
<1>5. type \in Byte
  BY SMT DEF NODE_INFO, NODE_TURNED_ON, Byte
<1>6. Blank(0) \in H9Frames
  BY ZeroWord, BlankFrame
<1>7. h \in H9Frames /\ h.dlc <= MAX_DATA_LENGTH /\ h.type = type
  BY <1>1, <1>3, <1>4, <1>5, <1>6, BroadcastMade
<1>8. PICK k : k = [h EXCEPT !.source_id = PeerId]
  OBVIOUS
<1>9. k \in H9Frames /\ k.dlc = h.dlc /\ k.type = h.type
  BY <1>1, <1>7, <1>8 DEF H9Frames
<1>10. k.type < 32 /\ ~is_unicast(k)
  BY <1>7, <1>9, SMT DEF NODE_INFO, NODE_TURNED_ON, is_unicast, DISCOVER
<1>11. k \in FitFrames
  BY <1>7, <1>9, <1>10, Fits
<1> QED BY <1>2, <1>4, <1>8, <1>11, Zenon DEF PeerInfo

LEMMA PeerReplyFits ==
  ASSUME NEW f \in FitFrames, is_unicast(f), NEW type \in {REG_VALUE, COMMAND_ERROR}, NEW bytes \in Seq(Byte)
  PROVE  PeerReply(f, type, bytes) \in FitFrames
<1>1. f.seqnum \in 0..31
  BY Fitting, Zenon
<1>2. f.source_id \in Byte
  BY FitBytes, Zenon
<1>3. type \in Byte /\ type < 32 /\ 0 \in Byte
  BY SMT DEF REG_VALUE, COMMAND_ERROR, Byte
<1>4. Blank(0) \in H9Frames
  BY ZeroWord, BlankFrame
<1>5. PICK h : h = Unicast(Blank(0), type, 0, f.source_id, bytes)
  OBVIOUS
<1>6. h \in H9Frames /\ h.dlc <= MAX_DATA_LENGTH /\ h.type = type
  BY <1>2, <1>3, <1>4, <1>5, UnicastMade
<1>7. PICK k : k = [h EXCEPT !.seqnum = f.seqnum, !.source_id = PeerId]
  OBVIOUS
<1>8. f.seqnum \in Byte /\ f.seqnum < 32 /\ PeerId \in Byte
  <2>1. PICK n \in 0..31 : n = f.seqnum
    BY <1>1
  <2>2. n \in Byte /\ n < 32
    BY SMT DEF Byte
  <2> QED BY <2>1, <2>2, RequestAssumption, Zenon
<1>9. k \in H9Frames /\ k.dlc = h.dlc /\ k.type = h.type /\ k.seqnum = f.seqnum
  BY <1>6, <1>7, <1>8 DEF H9Frames
<1>10. k \in FitFrames
  BY <1>3, <1>6, <1>8, <1>9, Fits
<1> QED BY <1>5, <1>7, <1>10, Zenon DEF PeerReply

\* A byte with one bit of it set or cleared.
LEMMA BitOfByte ==
  ASSUME NEW b \in 0..255, NEW n \in 0..7
  PROVE  /\ (b \div 2^n) % 2 # 1 => b + 2^n \in 0..255
         /\ (b \div 2^n) % 2 = 1 => b - 2^n \in 0..255
<1>1. /\ 2^0 = 1 /\ 2^1 = 2 /\ 2^2 = 4 /\ 2^3 = 8 /\ 2^4 = 16 /\ 2^5 = 32 /\ 2^6 = 64 /\ 2^7 = 128
  BY SMT
<1>2. \/ n = 0 \/ n = 1 \/ n = 2 \/ n = 3 \/ n = 4 \/ n = 5 \/ n = 6 \/ n = 7
  BY SMT
<1>3. ASSUME NEW w \in {1, 2, 4, 8, 16, 32, 64, 128}
      PROVE  /\ (b \div w) % 2 # 1 => b + w \in 0..255
             /\ (b \div w) % 2 = 1 => b - w \in 0..255
  <2>1. CASE w = 1 BY <2>1, SMT
  <2>2. CASE w = 2 BY <2>2, SMT
  <2>3. CASE w = 4 BY <2>3, SMT
  <2>4. CASE w = 8 BY <2>4, SMT
  <2>5. CASE w = 16 BY <2>5, SMT
  <2>6. CASE w = 32 BY <2>6, SMT
  <2>7. CASE w = 64 BY <2>7, SMT
  <2>8. CASE w = 128 BY <2>8, SMT
  <2> QED BY <2>1, <2>2, <2>3, <2>4, <2>5, <2>6, <2>7, <2>8
<1>4. {2^0, 2^1, 2^2, 2^3, 2^4, 2^5, 2^6, 2^7} = {1, 2, 4, 8, 16, 32, 64, 128}
  BY SMT
<1>5. 2^n \in {2^0, 2^1, 2^2, 2^3, 2^4, 2^5, 2^6, 2^7}
  BY <1>2, Zenon
<1>6. PICK w \in {1, 2, 4, 8, 16, 32, 64, 128} : w = 2^n
  BY <1>4, <1>5, Zenon
<1>7. /\ (b \div w) % 2 # 1 => b + w \in 0..255
      /\ (b \div w) % 2 = 1 => b - w \in 0..255
  BY <1>3
<1> QED BY <1>6, <1>7, Zenon

\* A byte put into a sequence of them, wherever.
LEMMA BytePut ==
  ASSUME NEW s \in Seq(Byte), NEW i, NEW b, i \in DOMAIN s => b \in Byte
  PROVE  [s EXCEPT ![i] = b] \in Seq(Byte) /\ Len([s EXCEPT ![i] = b]) = Len(s)
<1>1. PICK t : t = [s EXCEPT ![i] = b]
  OBVIOUS
<1>2. Len(s) \in Nat /\ DOMAIN s = 1..Len(s) /\ s \in [1..Len(s) -> Byte]
  BY LenProperties
<1>3. t \in [1..Len(s) -> Byte]
  BY <1>1, <1>2
<1>4. t \in UNION {[1..k -> Byte] : k \in Nat}
  BY <1>2, <1>3
<1>5. t \in Seq(Byte)
  BY <1>4, SeqDef
<1>6. DOMAIN t = 1..Len(s)
  BY <1>3
<1>7. Len(t) = Len(s)
  BY <1>2, <1>5, <1>6, LenProperties
<1> QED BY <1>1, <1>5, <1>7

LEMMA WithBitBytes ==
  ASSUME NEW f \in FitFrames, NEW bytes \in Seq(Byte)
  PROVE  WithBit(f, bytes) \in Seq(Byte) /\ Len(WithBit(f, bytes)) = Len(bytes)
<1>1. PICK i, weight : /\ i = 1 + ((Len(bytes) * 8 - 1 - f.data[2]) \div 8)
                       /\ weight = 2^(f.data[2] % 8)
  OBVIOUS
<1>2. \/ WithBit(f, bytes) = bytes
      \/ /\ (bytes[i] \div weight) % 2 # 1
         /\ WithBit(f, bytes) = [bytes EXCEPT ![i] = bytes[i] + weight]
      \/ /\ (bytes[i] \div weight) % 2 = 1
         /\ WithBit(f, bytes) = [bytes EXCEPT ![i] = bytes[i] - weight]
  BY <1>1, Zenon DEF WithBit
<1>3. f.data[2] % 8 \in 0..7
  <2>1. f.data[2] \in Byte
    BY FitBytes
  <2>2. \A b \in Byte : b % 8 \in 0..7
    BY SMT DEF Byte
  <2> QED BY <2>1, <2>2, Zenon
<1>4. ASSUME i \in DOMAIN bytes
      PROVE  /\ (bytes[i] \div weight) % 2 # 1 => bytes[i] + weight \in Byte
             /\ (bytes[i] \div weight) % 2 = 1 => bytes[i] - weight \in Byte
  <2>1. bytes[i] \in Byte
    BY <1>4, LenProperties, ElementOfSeq
  <2> QED BY <1>1, <1>3, <2>1, BitOfByte, Zenon DEF Byte
<1> QED BY <1>2, <1>4, BytePut

\* The bytes a node takes for a register that holds a string.
LEMMA PaddedBytes ==
  ASSUME NEW r \in DOMAIN PeerRegs, NEW bytes \in Seq(Byte)
  PROVE  Padded(r, bytes) \in Seq(Byte) /\ Len(Padded(r, bytes)) = Len(PeerRegs[r])
<1>1. PICK n, t : n = Len(PeerRegs[r]) /\ t = Padded(r, bytes)
  OBVIOUS
<1>2. n \in Nat /\ DOMAIN PeerRegs[r] = 1..n
  BY <1>1, ContentsAssumption, LenProperties
<1>3. \A i \in 1..n : i <= Len(bytes) => bytes[i] \in Byte
  <2>1. \A i \in 1..n : i <= Len(bytes) => i \in 1..Len(bytes)
    BY <1>2, LenProperties
  <2> QED BY <2>1, ElementOfSeq
<1>4. 0 \in Byte
  BY SMT DEF Byte
<1>5. t \in [1..n -> Byte]
  BY <1>1, <1>2, <1>3, <1>4 DEF Padded
<1>6. t \in UNION {[1..k -> Byte] : k \in Nat}
  BY <1>2, <1>5
<1>7. t \in Seq(Byte)
  BY <1>6, SeqDef
<1>8. DOMAIN t = 1..n
  BY <1>5
<1>9. Len(t) = n
  BY <1>2, <1>7, <1>8, LenProperties
<1> QED BY <1>1, <1>7, <1>9

\* A register is given other bytes, and its answer carries them.
LEMMA PeerNow ==
  ASSUME peer \in Contents, NEW f \in FitFrames, is_unicast(f), NEW r \in DOMAIN PeerRegs,
         NEW bytes \in Seq(Byte), Len(bytes) = Len(PeerRegs[r])
  PROVE  [regs |-> [peer EXCEPT ![r] = bytes], sent |-> <<PeerReply(f, REG_VALUE, <<r>> \o bytes)>>]
           \in POutcomes
<1>1. [peer EXCEPT ![r] = bytes] \in Contents
  BY DEF Contents
<1>2. <<r>> \o bytes \in Seq(Byte)
  <2>1. r \in Byte
    BY RequestAssumption
  <2>2. <<r>> \in Seq(Byte)
    BY <2>1
  <2> QED BY <2>2, ConcatProperties
<1>3. PeerReply(f, REG_VALUE, <<r>> \o bytes) \in FitFrames
  BY <1>2, PeerReplyFits
<1> QED BY <1>1, <1>3, Sent DEF POutcomes

LEMMA PeerSame ==
  ASSUME peer \in Contents, NEW g \in FitFrames
  PROVE  [regs |-> peer, sent |-> <<g>>] \in POutcomes
  BY Sent DEF POutcomes

\* The peer answers what fits with what fits.
LEMMA PeerFits ==
  ASSUME peer \in Contents, NEW f \in FitFrames
  PROVE  PeerOutcome(f) \in POutcomes
<1>1. PICK r, value : r = f.data[1] /\ value = SubSeq(f.data, 2, f.dlc)
  OBVIOUS
<1>2. value \in Seq(Byte)
  BY <1>1, FitBytes, DataPart
<1>3. DOMAIN peer = DOMAIN PeerRegs /\ PeerRegs \in Contents
  <2>1. DOMAIN peer = DOMAIN PeerRegs
    BY DEF Contents
  <2> QED BY <2>1, ContentsAssumption DEF Contents
<1>4. ASSUME is_unicast(f)
      PROVE  /\ PeerReply(f, COMMAND_ERROR, <<INVALID_REGISTER>>) \in FitFrames
             /\ PeerReply(f, COMMAND_ERROR, <<REGISTER_SIZE_MISMATCH>>) \in FitFrames
  <2>1. <<INVALID_REGISTER>> \in Seq(Byte) /\ <<REGISTER_SIZE_MISMATCH>> \in Seq(Byte)
    BY SMT DEF INVALID_REGISTER, REGISTER_SIZE_MISMATCH, Byte
  <2> QED BY <1>4, <2>1, PeerReplyFits
<1>5. /\ PeerInfo(NODE_INFO) \in FitFrames /\ PeerInfo(NODE_TURNED_ON) \in FitFrames
  BY PeerInfoFits
<1> DEFINE Now(bytes) == [regs |-> [peer EXCEPT ![r] = bytes], sent |-> <<PeerReply(f, REG_VALUE, <<r>> \o bytes)>>]
           Same1(frame) == [regs |-> peer, sent |-> <<frame>>]
<1>6. \/ PeerOutcome(f) = Same1(PeerInfo(NODE_INFO))
      \/ PeerOutcome(f) = [regs |-> PeerRegs, sent |-> <<PeerInfo(NODE_TURNED_ON)>>]
      \/ is_unicast(f) /\ PeerOutcome(f) = Same1(PeerReply(f, COMMAND_ERROR, <<INVALID_REGISTER>>))
      \/ is_unicast(f) /\ PeerOutcome(f) = Same1(PeerReply(f, COMMAND_ERROR, <<REGISTER_SIZE_MISMATCH>>))
      \/ /\ is_unicast(f) /\ r \in DOMAIN peer
         /\ \/ PeerOutcome(f) = Now(peer[r])
            \/ PeerOutcome(f) = Now(Padded(r, value))
            \/ PeerOutcome(f) = Now(value) /\ Len(value) = Len(peer[r])
            \/ PeerOutcome(f) = Now(WithBit(f, peer[r]))
      \/ PeerOutcome(f) = [regs |-> peer, sent |-> <<>>]
  <2> DEFINE mine == is_unicast(f) /\ f.destination_id = PeerId
             known == r \in DOMAIN peer
  <2>2. PeerOutcome(f) =
      CASE f.type = DISCOVER                         -> Same1(PeerInfo(NODE_INFO))
        [] mine /\ f.type = NODE_RESET               -> [regs |-> PeerRegs, sent |-> <<PeerInfo(NODE_TURNED_ON)>>]
        [] mine /\ f.type # NODE_RESET /\ ~known     -> Same1(PeerReply(f, COMMAND_ERROR, <<INVALID_REGISTER>>))
        [] mine /\ known /\ f.type = GET_REG         -> Now(peer[r])
        [] mine /\ known /\ f.type = SET_REG ->
             IF r \in PeerStrings /\ Len(value) < Len(peer[r]) THEN Now(Padded(r, value))
             ELSE IF Len(value) = Len(peer[r]) THEN Now(value)
             ELSE Same1(PeerReply(f, COMMAND_ERROR, <<REGISTER_SIZE_MISMATCH>>))
        [] mine /\ known /\ f.type \in {SET_BIT, CLEAR_BIT} -> Now(WithBit(f, peer[r]))
        [] OTHER                                     -> [regs |-> peer, sent |-> <<>>]
    BY <1>1 DEF PeerOutcome
  <2> HIDE DEF Now, Same1
  <2> QED BY <2>2
<1>7. ASSUME NEW bytes \in Seq(Byte), is_unicast(f), r \in DOMAIN PeerRegs, Len(bytes) = Len(PeerRegs[r])
      PROVE  Now(bytes) \in POutcomes
  BY <1>7, PeerNow
<1> HIDE DEF Now
<1>8. ASSUME r \in DOMAIN PeerRegs
      PROVE  /\ peer[r] \in Seq(Byte) /\ Len(peer[r]) = Len(PeerRegs[r])
             /\ WithBit(f, peer[r]) \in Seq(Byte) /\ Len(WithBit(f, peer[r])) = Len(PeerRegs[r])
             /\ Padded(r, value) \in Seq(Byte) /\ Len(Padded(r, value)) = Len(PeerRegs[r])
  <2>1. peer[r] \in Seq(Byte) /\ Len(peer[r]) = Len(PeerRegs[r])
    BY <1>8 DEF Contents
  <2>2. WithBit(f, peer[r]) \in Seq(Byte) /\ Len(WithBit(f, peer[r])) = Len(peer[r])
    BY <2>1, WithBitBytes
  <2>3. Padded(r, value) \in Seq(Byte) /\ Len(Padded(r, value)) = Len(PeerRegs[r])
    BY <1>2, <1>8, PaddedBytes
  <2> QED BY <2>1, <2>2, <2>3
<1>9. /\ [regs |-> PeerRegs, sent |-> <<PeerInfo(NODE_TURNED_ON)>>] \in POutcomes
      /\ [regs |-> peer, sent |-> <<>>] \in POutcomes
  BY <1>3, <1>5, Sent DEF POutcomes
<1> QED BY <1>2, <1>3, <1>4, <1>5, <1>6, <1>7, <1>8, <1>9, PeerSame, Zenon

-----------------------------------------------------------------------------
(* Nodes and devices told of a frame. *)

\* Two bytes of a frame, the type of a node.
LEMMA TypeWord ==
  ASSUME NEW f \in FitFrames
  PROVE  f.data[1] * 256 + f.data[2] \in Word
<1>1. f.data[1] \in Byte /\ f.data[2] \in Byte
  BY FitBytes
<1>2. \A a, b \in Byte : a * 256 + b \in 0..(2^16 - 1)
  BY Powers, SMT DEF Byte
<1> QED BY <1>1, <1>2, Zenon DEF Word

LEMMA NodesUpdated ==
  ASSUME NodesOK, TableOK(types), NEW f \in FitFrames, nodes' = UpdateNodes(f)
  PROVE  NodesOK'
<1>1. PICK id, t : id = f.source_id /\ t = f.data[1] * 256 + f.data[2]
  OBVIOUS
<1>2. id \in Byte /\ t \in Word
  BY <1>1, FitBytes, TypeWord
<1>3. PICK old : old = IF id \in DOMAIN nodes THEN nodes[id] ELSE NewNode
  OBVIOUS
<1>4. /\ old = [init |-> old.init, type |-> old.type, regs |-> old.regs]
      /\ old.init \in BOOLEAN /\ old.type \in Word /\ RegsOK(old.regs)
  <2>1. CASE id \in DOMAIN nodes
    BY <1>3, <2>1 DEF NodesOK
  <2>2. CASE id \notin DOMAIN nodes
    BY <1>3, <2>2, ZeroWord DEF NewNode, RegsOK
  <2> QED BY <2>1, <2>2
<1>5. PICK new : new = IF f.type \in {NODE_INFO, NODE_TURNED_ON} THEN NodeInit(old, t) ELSE old
  OBVIOUS
<1>6. RegsOK(load_description(types, t))
  BY LoadedDescription
<1>7. /\ new = [init |-> new.init, type |-> new.type, regs |-> new.regs]
      /\ new.init \in BOOLEAN /\ new.type \in Word /\ RegsOK(new.regs)
  BY <1>2, <1>4, <1>5, <1>6 DEF NodeInit
<1>8. nodes' = [i \in DOMAIN nodes \cup {id} |-> IF i = id THEN new ELSE nodes[i]]
  BY <1>1, <1>3, <1>5, Zenon DEF UpdateNodes
<1> QED BY <1>2, <1>7, <1>8 DEF NodesOK

DevOK == dev \in [switch_node_id : {PeerId, NoNodeId}, selected : Byte]

\* A value that is an integer is a number.
LEMMA IntegerRead ==
  ASSUME NEW regs, NEW f \in FitFrames, RegValueFromFrame(regs, f).json = "integer"
  PROVE  RegValueFromFrame(regs, f).value[1] \in Int
<1>1. PICK d, bytes : d = regs[f.data[1]] /\ bytes = SubSeq(f.data, 2, f.dlc)
  OBVIOUS
<1>2. /\ Len(bytes) = Width(d)
      /\ RegValueFromFrame(regs, f) = Integer(Number(UpTo(bytes, Width(d))))
  <2>1. RegValueFromFrame(regs, f) \in
          {Error("MALFORMED_FRAME"), Error("REGISTER_IS_NOT_EXIST"), Error("FRAME_SIZE_MISMATCH"),
           Json("string", CString(bytes)), Json("array", bytes),
           Exactly(bytes, Width(d), Integer(Number(UpTo(bytes, Width(d)))))}
    BY <1>1, Zenon DEF RegValueFromFrame
  <2>2. RegValueFromFrame(regs, f) = Exactly(bytes, Width(d), Integer(Number(UpTo(bytes, Width(d)))))
    BY <2>1 DEF Error, Json
  <2> QED BY <2>2 DEF Exactly, Error, Json
<1>3. bytes \in Seq(Byte)
  BY <1>1, FitBytes, DataPart
<1>4. Width(d) \in {1, 2, 4}
  BY DEF Width
<1>5. PICK s : s = UpTo(bytes, Width(d))
  OBVIOUS
<1>6. s \in Seq(Byte) /\ Len(s) = Width(d)
  <2>1. s = SubSeq(bytes, 1, Width(d))
    BY <1>2, <1>5, <1>4 DEF UpTo
  <2>2. \A i \in 1..Width(d) : bytes[i] \in Byte
    BY <1>2, <1>3, ElementOfSeq
  <2> QED BY <1>4, <2>1, <2>2, SubSeqProperties
<1>7. \A i \in 1..Width(d) : s[i] \in Int
  <2>1. \A i \in 1..Width(d) : s[i] \in Byte
    BY <1>6, ElementOfSeq
  <2>2. Byte \subseteq Int
    BY SMT DEF Byte
  <2> QED BY <2>1, <2>2
<1>8. Number(s) \in Int
  <2>1. CASE Width(d) = 1
    BY <1>6, <1>7, <2>1, SMT DEF Number
  <2>2. CASE Width(d) = 2
    BY <1>6, <1>7, <2>2, SMT DEF Number
  <2>3. CASE Width(d) = 4
    BY <1>6, <1>7, <2>3, SMT DEF Number
  <2> QED BY <1>4, <2>1, <2>2, <2>3
<1> QED BY <1>2, <1>5, <1>8 DEF Integer, Json

LEMMA DevUpdated ==
  ASSUME DevOK, NEW f \in FitFrames, dev' = UpdateDev(f)
  PROVE  DevOK'
<1>1. PICK v : v = RegValueFromFrame(UpdateNodes(f)[PeerId].regs, f)
  OBVIOUS
<1>2. \/ dev' = dev \/ dev' = [dev EXCEPT !.switch_node_id = PeerId]
      \/ v.json = "integer" /\ dev' = [dev EXCEPT !.selected = Low(v.value[1], 8)]
  BY <1>1, Zenon DEF UpdateDev
<1>3. v.json = "integer" => Low(v.value[1], 8) \in Byte
  BY <1>1, IntegerRead, LowByte
<1> QED BY <1>2, <1>3 DEF DevOK

-----------------------------------------------------------------------------
(* The start. *)

StartOK == StartTypeOK /\ EndpointsOK

\* What the start is: read off its type.
LEMMA Started ==
  ASSUME StartTypeOK
  PROVE  /\ step \in 1..15 /\ cfg.endpoints \in Seq(SectionType)
         /\ section \in 0..Len(cfg.endpoints) /\ Len(cfg.endpoints) \in Nat
<1>1. [args |-> args, cfg |-> cfg, root |-> root] \in StartType
  BY StartupAssumption DEF StartTypeOK
<1>2. cfg.endpoints \in Seq(SectionType)
  BY <1>1 DEF StartType, ConfigType
<1> QED BY <1>2, LenProperties DEF StartTypeOK, Main

\* A section that is taken has a driver that the bus knows.
LEMMA Accepted ==
  ASSUME StartOK, AddDriver
  PROVE  StartOK' /\ endpoints \subseteq endpoints'
<1>1. /\ step \in 1..15 /\ cfg.endpoints \in Seq(SectionType)
      /\ section \in 0..Len(cfg.endpoints) /\ Len(cfg.endpoints) \in Nat
  BY Started DEF StartOK
<1>2. PICK n : n = section + 1
  OBVIOUS
<1>3. n \in 1..Len(cfg.endpoints) /\ section' = n
  BY <1>1, <1>2, SMT DEF AddDriver
<1>4. cfg.endpoints[n] \in SectionType
  BY <1>1, <1>3, ElementOfSeq
<1>5. /\ UNCHANGED <<args, cfg, root, step, pid, pid_file, uid, gid, configured, threads>>
      /\ status' \in {status, "exited", "aborted"}
      /\ \/ endpoints' = endpoints
         \/ ~Refused(cfg.endpoints[n]) /\ endpoints' = endpoints \cup {Socket(n)}
  BY <1>2 DEF AddDriver, environment, Exit, Abort
<1>6. Socket(n) \in 0..Len(cfg.endpoints)
  BY <1>1, <1>3, SMT DEF Socket
<1>7. ~Refused(cfg.endpoints[n]) /\ Socket(n) # 0 =>
        Socket(n) = n /\ cfg.endpoints[n].driver \in {"loop", "udp", "SLCAN", "SocketCAN"}
  BY <1>4 DEF Refused, Socket, SectionType
<1>8. endpoints' \subseteq 0..Len(cfg.endpoints) /\ endpoints \subseteq endpoints'
  BY <1>5, <1>6 DEF StartOK, StartTypeOK
<1>9. StartTypeOK'
  BY <1>3, <1>5, <1>8 DEF StartOK, StartTypeOK
<1>10. EndpointsOK'
  BY <1>5, <1>7 DEF StartOK, EndpointsOK, RealEndpoints
<1> QED BY <1>8, <1>9, <1>10 DEF StartOK

\* What every other step of main may do.
MainStep ==
  /\ UNCHANGED <<args, cfg, root, section, endpoints>> /\ step' \in {step, step + 1}
  /\ step' = step + 1 => step # 15
  /\ status' \in {status, "exited", "aborted"} /\ (configured' = configured \/ configured' \in BOOLEAN)
  /\ pid' \in {pid, "daemon"} /\ pid_file' \in {pid_file, pid, "none"}
  /\ uid' \in {uid, "dropped"} /\ gid' \in {gid, "dropped"}
  /\ threads' \subseteq threads \cup {"bus", "virtual_endpoint", "update", "workers"}

LEMMA MainSteps ==
  ASSUME StartOK, StartNext \/ ConfigureDevicesMgr \/ Discover
  PROVE  StartOK' /\ endpoints \subseteq endpoints'
<1>1. /\ step \in 1..15 /\ section \in 0..Len(cfg.endpoints)
  BY Started DEF StartOK
<1>2. CASE AddDriver
  BY <1>2, Accepted
<1>3. ASSUME ~AddDriver PROVE MainStep
  <2> USE <1>1, Positions DEF At, Continue, Exit, Abort, environment
  <2>1. CASE ParseCommandLineArg BY <2>1 DEF MainStep, ParseCommandLineArg
  <2>8. CASE LoggerInitialSetup BY <2>8 DEF MainStep, LoggerInitialSetup
  <2>9. CASE LoadConfiguration BY <2>9 DEF MainStep, LoadConfiguration
  <2>10. CASE LoggerSetup BY <2>10 DEF MainStep, LoggerSetup
  <2>2. CASE Daemonize BY <2>2 DEF MainStep, Daemonize
  <2>3. CASE SavePid BY <2>3 DEF MainStep, SavePid
  <2>4. CASE DropPrivileges BY <2>4 DEF MainStep, DropPrivileges
  <2>5. CASE ConfigureVirtualEndpoint
    <3>1. configured' \in BOOLEAN
      BY <2>5, Zenon DEF ConfigureVirtualEndpoint
    <3> QED BY <2>5, <3>1 DEF MainStep, ConfigureVirtualEndpoint
  <2>6. CASE ConfiguredBus BY <2>6 DEF MainStep, ConfiguredBus
  <2>7. ASSUME NEW call, NEW new \in SUBSET {"bus", "virtual_endpoint", "update", "workers"},
               Start(call, new), call # "server.run"
        PROVE  MainStep
    <3>1. step # 15
      BY <2>7 DEF Start, Main
    <3> QED BY <2>7, <3>1 DEF MainStep, Start
  <2>11. CASE ActivateBus \/ ActivateVirtualEndpoint \/ CreateNodeMgr \/ ConfigureDevicesMgr \/ Discover
    BY <2>7, <2>11 DEF ActivateBus, ActivateVirtualEndpoint, CreateNodeMgr, ConfigureDevicesMgr, Discover
  <2> QED BY <1>3, <2>1, <2>2, <2>3, <2>4, <2>5, <2>6, <2>8, <2>9, <2>10, <2>11, Zenon DEF StartNext
<1>4. ASSUME MainStep PROVE StartTypeOK'
  <2>1. step' \in 1..15 /\ Len(Main) = 15
    BY <1>1, <1>4 DEF Main, MainStep
  <2>2. /\ status' \in {"running", "exited", "aborted"} /\ configured' \in BOOLEAN
        /\ pid' \in {"parent", "daemon"} /\ pid_file' \in {"none", "parent", "daemon"}
        /\ uid' \in {"initial", "dropped"} /\ gid' \in {"initial", "dropped"}
        /\ threads' \subseteq {"bus", "virtual_endpoint", "update", "workers"}
    BY <1>4 DEF StartOK, StartTypeOK, MainStep
  <2> QED BY <1>4, <2>1, <2>2 DEF StartOK, StartTypeOK, MainStep
<1>5. ASSUME MainStep PROVE EndpointsOK' /\ endpoints' = endpoints
  BY <1>5 DEF StartOK, EndpointsOK, RealEndpoints, MainStep
<1> QED BY <1>2, <1>3, <1>4, <1>5 DEF StartOK

LEMMA ServedStart ==
  ASSUME StartOK, Served
  PROVE  StartOK' /\ endpoints' = endpoints /\ cfg' = cfg
<1>1. StartTypeOK'
  BY DEF StartOK, StartTypeOK, Served
<1> QED BY <1>1 DEF StartOK, EndpointsOK, RealEndpoints, Served

-----------------------------------------------------------------------------
(* The invariant, and what an action does to each part of it. *)

NetOK == /\ vnode \in VNodes /\ peer \in Contents /\ LinesOK
         /\ next_seqnum \in 0..31 /\ seqnum \in Byte
KnownOK == NodesOK /\ TableOK(types) /\ file \in Files /\ DevOK
ClientOK == pc \in {"idle", "waiting"} /\ authenticated \in BOOLEAN
DaemonInv == StartOK /\ NetOK /\ KnownOK /\ ClientOK

LEMMA NetKept ==
  ASSUME NetOK, UNCHANGED <<vnode, peer, down, up, next_seqnum, seqnum>>, endpoints \subseteq endpoints'
  PROVE  NetOK'
<1>1. \A l \in Lines : Open(l) => Open(l)'
  BY DEF Open, RealEndpoints
<1> QED BY <1>1 DEF NetOK, LinesOK

LEMMA KnownKept ==
  ASSUME KnownOK, UNCHANGED <<nodes, types, file, dev>>
  PROVE  KnownOK'
  BY DEF KnownOK, NodesOK, DevOK

LEMMA NetSend ==
  ASSUME StartOK, NetOK, UNCHANGED <<vnode, peer, endpoints, cfg>>, NEW f, NEW raw \in BOOLEAN,
         NEW x \in Garbage, Sendable(f, raw), Send(f, raw, x)
  PROVE  NetOK'
<1>1. LinesOK' /\ next_seqnum' \in 0..31 /\ seqnum' \in Byte
  BY SendLines DEF StartOK, NetOK
<1> QED BY <1>1 DEF NetOK

LEMMA DiscoverSendable ==
  ASSUME NEW x \in Garbage
  PROVE  Sendable(discover(x), FALSE)
<1>1. Blank(x) \in H9Frames
  BY BlankFrame, VirtualAssumption
<1>2. DISCOVER \in Byte /\ BROADCAST_ALL_GROUP \in Word /\ <<>> \in Seq(Byte)
  <2>1. DISCOVER \in Byte
    BY SMT DEF DISCOVER, Byte
  <2>2. BROADCAST_ALL_GROUP \in Word
    BY Powers, SMT DEF BROADCAST_ALL_GROUP, Word
  <2> QED BY <2>1, <2>2
<1>3. PICK h : h = Broadcast(Blank(x), DISCOVER, BROADCAST_ALL_GROUP, <<>>)
  OBVIOUS
<1>4. h \in H9Frames /\ h.dlc <= MAX_DATA_LENGTH /\ h.type = DISCOVER
  <2>1. PICK group \in Word, bytes \in Seq(Byte), type \in Byte :
          group = BROADCAST_ALL_GROUP /\ bytes = <<>> /\ type = DISCOVER
    BY <1>2, Zenon
  <2>2. h = Broadcast(Blank(x), type, group, bytes)
    BY <1>3, <2>1, Zenon
  <2>3. h \in H9Frames /\ h.dlc <= MAX_DATA_LENGTH /\ h.type = type
    BY <1>1, <2>2, BroadcastMade
  <2> QED BY <2>1, <2>3
<1>5. h.type < 32 /\ ~is_unicast(h)
  BY <1>4, SMT DEF DISCOVER, is_unicast
<1> QED BY <1>3, <1>4, <1>5 DEF discover, Sendable

\* send_frame: the client's frame as JSON, into an object that was not set.
LEMMA ClientSendable ==
  ASSUME NEW f \in FitFrames, NEW x \in Garbage, NEW raw \in BOOLEAN
  PROVE  Sendable(from_json(Blank(x), to_json(f)), raw)
<1>1. Blank(x) \in H9Frames
  BY BlankFrame, VirtualAssumption
<1>2. PICK g : g = Carried("h9d", Blank(x), f)
  OBVIOUS
<1>3. g \in FitFrames
  BY <1>1, <1>2, FramesCarried DEF Drivers
<1>4. g = from_json(Blank(x), to_json(f))
  BY <1>2 DEF Carried, h9d_recv, h9d_send, Datagram
<1>5. g \in H9Frames /\ g.type < 32 /\ g.dlc <= MAX_DATA_LENGTH /\ (is_unicast(g) => g.seqnum < 32)
  BY <1>3 DEF FitFrames
<1> QED BY <1>4, <1>5, Zenon DEF Sendable

LEMMA NetCall ==
  ASSUME StartOK, NetOK, KnownOK, NEW r, r.bit \in Byte, ValueOK(r.value),
         r.method \in NodeMethods \cup {"dev_method_call"},
         UNCHANGED <<vnode, peer, endpoints, cfg>>, CallNode(r)
  PROVE  NetOK'
<1>1. CASE NodeRefuses(r) # "none"
  <2>1. UNCHANGED <<down, up, next_seqnum, seqnum>>
    BY <1>1 DEF CallNode
  <2> QED BY <2>1, NetKept
<1>2. CASE NodeRefuses(r) = "none"
  <2>1. PICK x \in Garbage : \E f \in Frames(r, x) : Send(f, FALSE, x)
    BY <1>2 DEF CallNode
  <2>2. PICK f \in Frames(r, x) : Send(f, FALSE, x)
    BY <2>1
  <2>3. Sendable(f, FALSE)
    BY <1>2, NodeFrames DEF KnownOK
  <2> QED BY <2>2, <2>3, NetSend
<1> QED BY <1>1, <1>2

\* What CallNode leaves of the client.
LEMMA ClientCall ==
  ASSUME ClientOK, NEW r, CallNode(r), UNCHANGED authenticated
  PROVE  ClientOK'
  BY DEF ClientOK, CallNode, Respond, Await

\* Requests have the fields they should.
LEMMA RequestFields ==
  ASSUME NEW r \in Requests
  PROVE  r.bit \in Byte /\ r.raw \in BOOLEAN /\ ValueOK(r.value)
  BY ContentsAssumption DEF ValueOK

\* The frame at the head of a line.
LEMMA LineHead ==
  ASSUME LinesOK, NEW l \in Lines, NEW q \in {down[l], up[l]}, q # <<>>
  PROVE  Head(q).got \in FitFrames /\ Tail(q) \in Seq(Items)
<1>1. q \in Seq(Items)
  BY DEF LinesOK
<1>2. Head(q) \in Items /\ Tail(q) \in Seq(Items)
  BY <1>1, HeadTailProperties
<1> QED BY <1>2 DEF Items

-----------------------------------------------------------------------------
(* The steps of the daemon. *)

LEMMA StartStep ==
  ASSUME DaemonInv, [Next]_daemonVars
  PROVE  StartOK' /\ endpoints \subseteq endpoints'
<1>1. StartNext \/ ConfigureDevicesMgr \/ Discover \/ Served
  BY ServedSteps DEF DaemonConfigures, DaemonDiscovers
<1> QED BY <1>1, MainSteps, ServedStart DEF DaemonInv

\* Steps of main.
LEMMA MainInv ==
  ASSUME DaemonInv, endpoints \subseteq endpoints', StartNext, UNCHANGED requestVars
  PROVE  NetOK' /\ KnownOK' /\ ClientOK'
<1>1. /\ UNCHANGED <<vnode, peer, down, up, next_seqnum, seqnum>> /\ UNCHANGED <<nodes, types, file, dev>>
      /\ UNCHANGED <<pc, authenticated>>
  BY DEF requestVars
<1>2. ClientOK'
  BY <1>1 DEF DaemonInv, ClientOK
<1> QED BY <1>1, <1>2, NetKept, KnownKept DEF DaemonInv

LEMMA ConfiguresInv ==
  ASSUME DaemonInv, endpoints \subseteq endpoints', DaemonConfigures
  PROVE  NetOK' /\ KnownOK' /\ ClientOK'
<1>1. /\ UNCHANGED <<vnode, peer, down, up, next_seqnum, seqnum>> /\ UNCHANGED <<nodes, file, dev>>
      /\ UNCHANGED <<pc, authenticated>> /\ types' = load_file(file)
  BY DEF DaemonConfigures
<1>2. TableOK(types')
  BY <1>1, LoadedTable DEF DaemonInv, KnownOK
<1>3. KnownOK'
  BY <1>1, <1>2 DEF DaemonInv, KnownOK, NodesOK, DevOK
<1>4. ClientOK'
  BY <1>1 DEF DaemonInv, ClientOK
<1> QED BY <1>1, <1>3, <1>4, NetKept DEF DaemonInv

LEMMA DiscoversInv ==
  ASSUME DaemonInv, DaemonDiscovers
  PROVE  NetOK' /\ KnownOK' /\ ClientOK'
<1>1. /\ UNCHANGED <<vnode, peer, endpoints, cfg>> /\ UNCHANGED <<nodes, types, file, dev>>
      /\ UNCHANGED <<pc, authenticated>>
  BY DEF DaemonDiscovers, Discover, Start, environment
<1>2. PICK x \in Garbage : Send(discover(x), FALSE, x)
  BY DEF DaemonDiscovers
<1>3. NetOK'
  BY <1>1, <1>2, DiscoverSendable, NetSend DEF DaemonInv
<1>4. ClientOK'
  BY <1>1 DEF DaemonInv, ClientOK
<1> QED BY <1>1, <1>3, <1>4, KnownKept DEF DaemonInv

\* Steps that leave lines and nodes.
LEMMA AnswersInv ==
  ASSUME DaemonInv, NEW r,
         \/ Connect \/ Refuse(r) \/ Reads(r) \/ authenticate(r) \/ get_node_info(r)
         \/ Timeout \/ Idle \/ UNCHANGED daemonVars
  PROVE  NetOK' /\ KnownOK' /\ ClientOK'
<1>1. /\ UNCHANGED <<vnode, peer, down, up, next_seqnum, seqnum>> /\ UNCHANGED <<nodes, types, file, dev>>
      /\ endpoints' = endpoints
  BY DEF Connect, Refuse, Reads, authenticate, get_node_info, Timeout, Idle, daemonVars, requestVars, startVars
<1>2. pc' \in {pc, "idle"}
  BY DEF Connect, Refuse, Reads, authenticate, get_node_info, Timeout, Idle, daemonVars, requestVars, Respond
<1>3. authenticated' = authenticated \/ authenticated' \in BOOLEAN
  BY DEF Connect, Refuse, Reads, authenticate, get_node_info, Timeout, Idle, daemonVars, requestVars
<1>4. ClientOK'
  BY <1>2, <1>3 DEF DaemonInv, ClientOK
<1> QED BY <1>1, <1>4, NetKept, KnownKept DEF DaemonInv

LEMMA SendsInv ==
  ASSUME DaemonInv, FitRequests, NEW r \in Requests, SendsFrame(r)
  PROVE  NetOK' /\ KnownOK' /\ ClientOK'
<1>1. /\ UNCHANGED <<vnode, peer, endpoints, cfg>> /\ UNCHANGED <<nodes, types, file, dev>>
      /\ pc' = "idle" /\ authenticated' = authenticated
  BY DEF SendsFrame, Respond, startVars
<1>2. PICK x \in Garbage : \/ Send(discover(x), FALSE, x)
                           \/ Send(from_json(Blank(x), to_json(r.frame)), r.raw, x)
  BY DEF SendsFrame
<1>3. Sendable(discover(x), FALSE) /\ Sendable(from_json(Blank(x), to_json(r.frame)), r.raw)
  BY DiscoverSendable, ClientSendable, RequestFields DEF FitRequests
<1>4. NetOK'
  BY <1>1, <1>2, <1>3, RequestFields, NetSend DEF DaemonInv
<1>5. ClientOK'
  BY <1>1 DEF DaemonInv, ClientOK
<1> QED BY <1>1, <1>4, <1>5, KnownKept DEF DaemonInv

LEMMA CallsInv ==
  ASSUME DaemonInv, NEW r \in Requests, CallsNode(r)
  PROVE  NetOK' /\ KnownOK' /\ ClientOK'
<1>1. /\ UNCHANGED <<vnode, peer, endpoints, cfg>> /\ UNCHANGED <<nodes, types, file, dev>>
      /\ authenticated' = authenticated /\ CallNode(r) /\ r.method \in NodeMethods
  BY DEF CallsNode, Called, startVars
<1>2. NetOK'
  BY <1>1, RequestFields, NetCall DEF DaemonInv
<1>3. ClientOK'
  BY <1>1, ClientCall DEF DaemonInv
<1> QED BY <1>1, <1>2, <1>3, KnownKept DEF DaemonInv

LEMMA DevCallInv ==
  ASSUME DaemonInv, NEW r \in Requests, dev_method_call(r)
  PROVE  NetOK' /\ KnownOK' /\ ClientOK'
<1>1. /\ UNCHANGED <<vnode, peer, endpoints, cfg>> /\ UNCHANGED <<nodes, types, file, dev>>
      /\ authenticated' = authenticated /\ r.method = "dev_method_call"
  BY DEF dev_method_call, Called
<1>2. PICK q : q = [r EXCEPT !.id = dev.switch_node_id, !.reg = ANTENNA_SELECT_REG]
  OBVIOUS
<1>3. q.bit = r.bit /\ q.value = r.value /\ q.method = r.method
  <2>1. DOMAIN r = DOMAIN NoRequest
    BY ContentsAssumption
  <2>2. {"bit", "value", "method"} \subseteq DOMAIN r
    BY <2>1 DEF NoRequest
  <2> QED BY <1>2, <2>2
<1>4. CallNode(q) \/ (UNCHANGED <<down, up, next_seqnum, seqnum>> /\ pc' \in {pc, "idle"})
  BY <1>2 DEF dev_method_call, Respond
<1>5. CASE CallNode(q)
  <2>1. q.bit \in Byte /\ ValueOK(q.value) /\ q.method = "dev_method_call"
    BY <1>1, <1>3, RequestFields
  <2>2. NetOK'
    BY <1>1, <1>5, <2>1, NetCall DEF DaemonInv
  <2>3. ClientOK'
    BY <1>1, <1>5, ClientCall DEF DaemonInv
  <2> QED BY <1>1, <2>2, <2>3, KnownKept DEF DaemonInv
<1>6. CASE UNCHANGED <<down, up, next_seqnum, seqnum>> /\ pc' \in {pc, "idle"}
  <2>1. ClientOK'
    BY <1>1, <1>6 DEF DaemonInv, ClientOK
  <2> QED BY <1>1, <1>6, <2>1, NetKept, KnownKept DEF DaemonInv
<1> QED BY <1>4, <1>5, <1>6

\* The nodes at the other ends of the lines.
LEMMA CreateInv ==
  ASSUME DaemonInv, CreateVirtualNode, UNCHANGED startVars
  PROVE  NetOK' /\ KnownOK' /\ ClientOK'
<1>1. /\ UNCHANGED <<nodes, types, file, dev>> /\ UNCHANGED <<pc, authenticated>>
      /\ UNCHANGED <<peer, down, next_seqnum, seqnum, endpoints, cfg>> /\ vnode' = Created(VirtualId, <<0>>)
  BY DEF CreateVirtualNode, startVars
<1>2. VirtualId \in 0..511
  BY VirtualAssumption, SMT
<1>3. vnode' \in VNodes
  <2>1. <<0>> \in Seq(Byte)
    BY SMT DEF Byte
  <2> QED BY <1>1, <1>2, <2>1 DEF Created, VNodes
<1>4. up' \in [Lines -> Seq(Items)]
  <2>1. PICK x \in Garbage :
          IF Open("virtual") THEN SendUp("virtual", <<TurnedOn(Blank(x), VirtualId)>>, x) ELSE UNCHANGED up
    BY DEF CreateVirtualNode
  <2>2. Blank(x) \in H9Frames
    BY BlankFrame, VirtualAssumption
  <2>3. <<TurnedOn(Blank(x), VirtualId)>> \in Seq(FitFrames)
    BY <1>2, <2>2, TurnedOnFits, Sent
  <2>4. CASE Open("virtual")
    <3>1. "virtual" \in Lines
      BY DEF Lines
    <3> QED BY <2>1, <2>3, <2>4, <3>1, SentUp DEF DaemonInv, StartOK, NetOK
  <2>5. CASE ~Open("virtual")
    BY <2>1, <2>5 DEF DaemonInv, NetOK, LinesOK
  <2> QED BY <2>4, <2>5
<1>5. NetOK'
  BY <1>1, <1>3, <1>4 DEF DaemonInv, NetOK, LinesOK, Open, RealEndpoints
<1>6. ClientOK'
  BY <1>1 DEF DaemonInv, ClientOK
<1> QED BY <1>1, <1>5, <1>6, KnownKept DEF DaemonInv

\* A frame is taken from a line and answered.
LEMMA LineAnswered ==
  ASSUME EndpointsOK, LinesOK, NEW l \in Lines, down[l] # <<>>, down' = [down EXCEPT ![l] = Tail(@)],
         NEW frames \in Seq(FitFrames), NEW x \in Garbage, SendUp(l, frames, x), endpoints' = endpoints
  PROVE  LinesOK'
<1>1. Open(l) /\ Tail(down[l]) \in Seq(Items)
  BY LineHead DEF LinesOK
<1>2. up' \in [Lines -> Seq(Items)]
  BY <1>1, SentUp
<1>3. \A k \in Lines : Open(k)' <=> Open(k)
  BY DEF Open, RealEndpoints
<1> QED BY <1>1, <1>2, <1>3 DEF LinesOK

LEMMA VirtualInv ==
  ASSUME DaemonInv, VirtualNodeStep, UNCHANGED startVars
  PROVE  NetOK' /\ KnownOK' /\ ClientOK'
<1>1. /\ UNCHANGED <<nodes, types, file, dev>> /\ UNCHANGED <<pc, authenticated>>
      /\ UNCHANGED <<peer, next_seqnum, seqnum, endpoints, cfg>>
      /\ down["virtual"] # <<>> /\ down' = [down EXCEPT !["virtual"] = Tail(@)]
  BY DEF VirtualNodeStep, startVars
<1>2. PICK x \in Garbage : \E o \in on_frame(vnode, Head(down["virtual"]).got, Blank(x)) :
        vnode' = o.node /\ SendUp("virtual", o.sent, x)
  BY DEF VirtualNodeStep
<1>3. PICK f : f = Head(down["virtual"]).got
  OBVIOUS
<1>4. "virtual" \in Lines
  BY DEF Lines
<1>5. LinesOK /\ vnode \in VNodes /\ EndpointsOK
  BY DEF DaemonInv, StartOK, NetOK
<1>6. f \in FitFrames
  BY <1>1, <1>3, <1>4, <1>5, LineHead
<1>7. PICK o \in on_frame(vnode, f, Blank(x)) : vnode' = o.node /\ SendUp("virtual", o.sent, x)
  BY <1>2, <1>3, Zenon
<1>8. Blank(x) \in H9Frames
  BY BlankFrame, VirtualAssumption
<1>9. o \in VOutcomes
  BY <1>5, <1>6, <1>8, OnFrameFits
<1>10. o.node \in VNodes /\ o.sent \in Seq(FitFrames)
  BY <1>9 DEF VOutcomes
<1>11. LinesOK'
  BY <1>1, <1>4, <1>5, <1>7, <1>10, LineAnswered
<1>12. NetOK'
  BY <1>1, <1>7, <1>10, <1>11 DEF DaemonInv, NetOK
<1>13. ClientOK'
  BY <1>1 DEF DaemonInv, ClientOK
<1> QED BY <1>1, <1>12, <1>13, KnownKept DEF DaemonInv

LEMMA PeerInv ==
  ASSUME DaemonInv, PeerStep, UNCHANGED startVars
  PROVE  NetOK' /\ KnownOK' /\ ClientOK'
<1>1. /\ UNCHANGED <<nodes, types, file, dev>> /\ UNCHANGED <<pc, authenticated>>
      /\ UNCHANGED <<vnode, next_seqnum, seqnum, endpoints, cfg>>
      /\ down["bus"] # <<>> /\ down' = [down EXCEPT !["bus"] = Tail(@)]
  BY DEF PeerStep, startVars
<1>2. PICK o : o = PeerOutcome(Head(down["bus"]).got)
  OBVIOUS
<1>3. PICK x \in Garbage : peer' = o.regs /\ SendUp("bus", o.sent, x)
  BY <1>2 DEF PeerStep
<1>4. "bus" \in Lines
  BY DEF Lines
<1>5. LinesOK /\ peer \in Contents /\ EndpointsOK
  BY DEF DaemonInv, StartOK, NetOK
<1>6. Head(down["bus"]).got \in FitFrames
  BY <1>1, <1>4, <1>5, LineHead
<1>7. o \in POutcomes
  BY <1>2, <1>5, <1>6, PeerFits
<1>8. o.regs \in Contents /\ o.sent \in Seq(FitFrames)
  BY <1>7 DEF POutcomes
<1>9. LinesOK'
  BY <1>1, <1>3, <1>4, <1>5, <1>8, LineAnswered
<1>10. NetOK'
  BY <1>1, <1>3, <1>8, <1>9 DEF DaemonInv, NetOK
<1>11. ClientOK'
  BY <1>1 DEF DaemonInv, ClientOK
<1> QED BY <1>1, <1>10, <1>11, KnownKept DEF DaemonInv

\* The bus thread: a frame is taken from a line, and the observers are told.
LEMMA ReceiveInv ==
  ASSUME DaemonInv, NEW l \in Lines, Receive(l)
  PROVE  NetOK' /\ KnownOK' /\ ClientOK'
<1>1. /\ UNCHANGED <<vnode, peer, down, next_seqnum, seqnum>> /\ UNCHANGED <<types, file>>
      /\ UNCHANGED <<authenticated, endpoints>> /\ up[l] # <<>> /\ up' = [up EXCEPT ![l] = Tail(@)]
  BY DEF Receive
<1>2. PICK f : f = Head(up[l]).got
  OBVIOUS
<1>3. f \in FitFrames /\ Tail(up[l]) \in Seq(Items)
  BY <1>1, <1>2, LineHead DEF DaemonInv, NetOK
<1>4. LinesOK'
  BY <1>1, <1>3 DEF DaemonInv, NetOK, LinesOK, Open, RealEndpoints
<1>5. NetOK'
  BY <1>1, <1>4 DEF DaemonInv, NetOK
<1>6. /\ UNCHANGED <<nodes, dev>> \/ (nodes' = UpdateNodes(f) /\ dev' = UpdateDev(f))
      /\ pc' \in {pc, "idle"}
  BY <1>2 DEF Receive, Respond
<1>7. NodesOK'
  <2>1. CASE nodes' = UpdateNodes(f)
    BY <1>3, <2>1, NodesUpdated DEF DaemonInv, KnownOK
  <2>2. CASE nodes' = nodes
    BY <2>2 DEF DaemonInv, KnownOK, NodesOK
  <2> QED BY <1>6, <2>1, <2>2
<1>8. DevOK'
  <2>1. CASE dev' = UpdateDev(f)
    BY <1>3, <2>1, DevUpdated DEF DaemonInv, KnownOK
  <2>2. CASE dev' = dev
    BY <2>2 DEF DaemonInv, KnownOK, DevOK
  <2> QED BY <1>6, <2>1, <2>2
<1>9. KnownOK'
  BY <1>1, <1>7, <1>8 DEF DaemonInv, KnownOK
<1>10. ClientOK'
  BY <1>1, <1>6 DEF DaemonInv, ClientOK
<1> QED BY <1>5, <1>9, <1>10

LEMMA DaemonStep ==
  ASSUME FitRequests, DaemonInv, [Next]_daemonVars
  PROVE  DaemonInv'
<1>1. StartOK' /\ endpoints \subseteq endpoints'
  BY StartStep
<1>2. SUFFICES NetOK' /\ KnownOK' /\ ClientOK'
  BY <1>1 DEF DaemonInv
<1>3. ASSUME NEW r \in Requests,
             \/ Refuse(r) \/ Reads(r) \/ authenticate(r) \/ get_node_info(r)
             \/ SendsFrame(r) \/ CallsNode(r) \/ dev_method_call(r)
      PROVE  NetOK' /\ KnownOK' /\ ClientOK'
  BY <1>3, AnswersInv, SendsInv, CallsInv, DevCallInv
<1>4. CASE Connect \/ Timeout \/ Idle \/ UNCHANGED daemonVars
  <2>1. PICK r : r = 0
    OBVIOUS
  <2> QED BY <1>4, AnswersInv, Zenon
<1>5. CASE StartNext /\ UNCHANGED requestVars
  BY <1>1, <1>5, MainInv, Zenon
<1>6. CASE DaemonConfigures
  BY <1>1, <1>6, ConfiguresInv, Zenon
<1>7. CASE DaemonDiscovers
  BY <1>7, DiscoversInv, Zenon
<1>8. ASSUME UNCHANGED startVars, CreateVirtualNode \/ VirtualNodeStep \/ PeerStep
      PROVE  NetOK' /\ KnownOK' /\ ClientOK'
  <2>1. CASE CreateVirtualNode BY <1>8, <2>1, CreateInv, Zenon
  <2>2. CASE VirtualNodeStep BY <1>8, <2>2, VirtualInv, Zenon
  <2>3. CASE PeerStep BY <1>8, <2>3, PeerInv, Zenon
  <2> QED BY <1>8, <2>1, <2>2, <2>3
<1>9. ASSUME NEW l \in Lines, Receive(l) PROVE NetOK' /\ KnownOK' /\ ClientOK'
  BY <1>9, ReceiveInv
<1>10. CASE Serve
  BY <1>3, <1>10, Zenon DEF Serve
<1>11. CASE \E l \in Lines : Receive(l)
  BY <1>9, <1>11, Zenon
<1> QED BY <1>4, <1>5, <1>6, <1>7, <1>8, <1>10, <1>11, Zenon DEF Next

LEMMA DaemonStart ==
  ASSUME Init
  PROVE  DaemonInv
<1>1. StartOK
  <2>1. PICK s \in Starts : args = s.args /\ cfg = s.cfg /\ root = s.root
    BY DEF Init, StartInit
  <2>2. s \in StartType
    BY StartupAssumption
  <2>3. s = [args |-> args, cfg |-> cfg, root |-> root]
    BY <2>1, <2>2 DEF StartType
  <2>4. cfg.endpoints \in Seq(SectionType)
    BY <2>2, <2>3 DEF StartType, ConfigType
  <2>5. Len(cfg.endpoints) \in Nat /\ Len(Main) = 15
    BY <2>4, LenProperties DEF Main
  <2>6. StartTypeOK
    <3>1. [args |-> args, cfg |-> cfg, root |-> root] \in Starts
      BY <2>3
    <3>2. step \in 1..Len(Main) /\ section \in 0..Len(cfg.endpoints)
      BY <2>5, SMT DEF Init, StartInit
    <3>3. /\ status = "running" /\ pid = "parent" /\ pid_file = "none" /\ uid = "initial"
          /\ gid = "initial" /\ configured = FALSE /\ endpoints = {} /\ threads = {}
      BY DEF Init, StartInit
    <3> QED BY <3>1, <3>2, <3>3, Zenon DEF StartTypeOK
  <2> QED BY <2>6 DEF Init, StartInit, StartOK, EndpointsOK, RealEndpoints
<1>2. NetOK
  <2>1. vnode \in VNodes
    <3>1. <<0>> \in Seq(Byte) /\ 0 \in 0..511
      BY SMT DEF Byte
    <3> QED BY <3>1 DEF Init, RequestInit, NoVirtualNode, VNodes
  <2>2. peer \in Contents
    BY ContentsAssumption DEF Init, RequestInit, Contents
  <2>3. LinesOK
    BY DEF Init, RequestInit, LinesOK, Lines
  <2>4. next_seqnum \in 0..31 /\ seqnum \in Byte
    BY SMT DEF Init, RequestInit, Byte
  <2> QED BY <2>1, <2>2, <2>3, <2>4 DEF NetOK
<1>3. KnownOK
  <2>1. 0 \in Byte
    BY SMT DEF Byte
  <2> QED BY <2>1 DEF Init, RequestInit, KnownOK, NodesOK, TableOK, DevOK
<1>4. ClientOK
  BY DEF Init, RequestInit, ClientOK
<1> QED BY <1>1, <1>2, <1>3, <1>4 DEF DaemonInv

LEMMA DaemonTypes ==
  ASSUME DaemonInv
  PROVE  TypeOK
<1>1. \A l \in Lines : /\ \A i \in DOMAIN down[l] : down[l][i].got \in H9Frames
                       /\ \A i \in DOMAIN up[l] : up[l][i].got \in H9Frames
  <2>1. ASSUME NEW q \in Seq(Items), NEW i \in DOMAIN q PROVE q[i].got \in H9Frames
    <3>1. q[i] \in Items
      BY <2>1, LenProperties, ElementOfSeq
    <3> QED BY <3>1 DEF Items, FitFrames
  <2> QED BY <2>1 DEF DaemonInv, NetOK, LinesOK
<1>2. \A r \in DOMAIN peer : peer[r] \in Seq(Byte) /\ Len(peer[r]) = Len(PeerRegs[r])
  BY DEF DaemonInv, NetOK, Contents
<1>3. vnode.id \in 0..511 /\ vnode.new_id \in 0..511
  BY DEF DaemonInv, NetOK, VNodes
<1>4. dev.switch_node_id \in {PeerId, NoNodeId} /\ dev.selected \in Byte
  BY DEF DaemonInv, KnownOK, DevOK
<1>5. /\ DOMAIN nodes \subseteq Byte
      /\ \A i \in DOMAIN nodes : /\ nodes[i].init \in BOOLEAN /\ nodes[i].type \in Word
                                /\ \A r \in DOMAIN nodes[i].regs : nodes[i].regs[r] \in DescType
  BY DEF DaemonInv, KnownOK, NodesOK, RegsOK
<1>6. StartTypeOK /\ next_seqnum \in 0..31 /\ seqnum \in Byte
      /\ pc \in {"idle", "waiting"} /\ authenticated \in BOOLEAN
  BY DEF DaemonInv, StartOK, NetOK, ClientOK
<1> QED BY <1>1, <1>2, <1>3, <1>4, <1>5, <1>6, Zenon DEF TypeOK

LEMMA DaemonFrames ==
  ASSUME DaemonInv
  PROVE  FrameSurvives
<1>1. SUFFICES ASSUME NEW l \in Lines, NEW items \in {down[l], up[l]} \ {<<>>}
               PROVE  LET item == items[Len(items)]
                      IN /\ Meaning(item.got) = Meaning(item.sent)
                         /\ \A d \in Formats : Meaning(Carried(d, item.got, item.sent)) = Meaning(item.sent)
  BY DEF FrameSurvives
<1>2. items \in Seq(Items)
  BY DEF DaemonInv, NetOK, LinesOK
<1>3. PICK item : item = items[Len(items)]
  OBVIOUS
<1>4. item \in Items
  <2>1. Len(items) \in 1..Len(items)
    BY <1>2, LenProperties, EmptySeq
  <2> QED BY <1>2, <1>3, <2>1, ElementOfSeq
<1>5. item.got \in FitFrames /\ item.sent \in FitFrames /\ Meaning(item.got) = Meaning(item.sent)
  BY <1>4 DEF Items
<1>6. item.got \in H9Frames
  BY <1>5 DEF FitFrames
<1>7. \A d \in Formats : d \in Drivers
  BY DEF Formats, Drivers, Datagram
<1>8. \A d \in Formats : Meaning(Carried(d, item.got, item.sent)) = Meaning(item.sent)
  BY <1>5, <1>6, <1>7, FramesCarried
<1> QED BY <1>3, <1>5, <1>8, Zenon

\* The whole daemon, for any start, requests, description files and registers of the
\* nodes: through every conversion between JSON, frame, driver format and register, by
\* the API, the bus and the nodes, fields of a frame stay within their bytes, a node's
\* registers keep their sizes, and the tables hold only what was described.
THEOREM DaemonTyped ==
  ASSUME FitRequests
  PROVE  Spec => []TypeOK
<1>1. Init => DaemonInv BY DaemonStart
<1>2. DaemonInv /\ [Next]_daemonVars => DaemonInv' BY DaemonStep
<1>3. DaemonInv => TypeOK BY DaemonTypes
<1> QED BY <1>1, <1>2, <1>3, PTL DEF Spec

\* Bus::send_frame, the driver at the other end and all that answers to it, whichever
\* bytes the objects held before (H9Frame() initialises nothing): if what clients put on
\* the bus fits, every frame any node or the daemon makes does, and the other end of
\* each line reads what was sent, as it would through any other driver.
THEOREM FramesSurvive ==
  ASSUME FitRequests
  PROVE  Spec => []FrameSurvives
<1>1. Init => DaemonInv BY DaemonStart
<1>2. DaemonInv /\ [Next]_daemonVars => DaemonInv' BY DaemonStep
<1>3. DaemonInv => FrameSurvives BY DaemonFrames
<1> QED BY <1>1, <1>2, <1>3, PTL DEF Spec

-----------------------------------------------------------------------------
(* The node on the real bus is found. *)

Announces(f) == f.type \in {NODE_INFO, NODE_TURNED_ON}
FromPeer(f) == f.source_id = PeerId /\ (Announces(f) => f.data[1] * 256 + f.data[2] = PeerType)
PeerKnown == PeerId \in DOMAIN nodes /\ nodes[PeerId].init /\ nodes[PeerId].type = PeerType

\* A real bus and nothing else.
BusOnly == RealEndpoints # {} /\ 0 \notin endpoints /\ Driver("bus") # "loop"

\* Nothing is on the bus before DISCOVER; from then on either the node is known, or
\* the request or an announcement is on its way to be handled.
BeforeDiscover == step <= 14 => down["bus"] = <<>> /\ up["bus"] = <<>>
AfterDiscover ==
  step = 15 /\ status = "running" /\ BusOnly =>
    /\ \A i \in DOMAIN up["bus"] : FromPeer(up["bus"][i].got)
    /\ \/ PeerKnown
       \/ \E i \in DOMAIN down["bus"] : down["bus"][i].got.type = DISCOVER
       \/ \E i \in DOMAIN up["bus"] : Announces(up["bus"][i].got)
DiscoverInv == BeforeDiscover /\ AfterDiscover /\ (step > 12 => NodeMgrAttached)

\* Where the steps of main stand.
LEMMA MainPositions ==
  ASSUME step \in 1..15
  PROVE  /\ StartNext => /\ step <= 12 /\ step' \in {step, step + 1}
                         /\ step' > 12 => NodeMgrAttached'
         /\ ConfigureDevicesMgr => step = 13 /\ step' = 14 /\ threads \subseteq threads'
         /\ Discover => step = 14 /\ step' = 15 /\ UNCHANGED <<endpoints, cfg, threads>>
<1> USE Positions DEF At, Continue, Exit, Abort, environment
<1> DEFINE P == /\ step <= 12 /\ step' \in {step, step + 1}
                /\ step' > 12 => NodeMgrAttached'
<1>2. Daemonize => P BY DEF Daemonize
<1>3. SavePid => P BY DEF SavePid
<1>4. DropPrivileges => P BY DEF DropPrivileges
<1>5. ConfigureVirtualEndpoint => P BY DEF ConfigureVirtualEndpoint
<1>6. AddDriver => P BY DEF AddDriver
<1>7. ConfiguredBus => P BY DEF ConfiguredBus
<1>8. ActivateBus \/ ActivateVirtualEndpoint => P
  BY DEF ActivateBus, ActivateVirtualEndpoint, Start
<1>9. CreateNodeMgr => P
  BY DEF CreateNodeMgr, Start, NodeMgrAttached
<1>10. ParseCommandLineArg \/ LoggerInitialSetup \/ LoadConfiguration \/ LoggerSetup => P
  BY DEF ParseCommandLineArg, LoggerInitialSetup, LoadConfiguration, LoggerSetup
<1>11. ConfigureDevicesMgr => step = 13 /\ step' = 14 /\ threads \subseteq threads'
  BY DEF ConfigureDevicesMgr, Start
<1>12. Discover => step = 14 /\ step' = 15 /\ UNCHANGED <<endpoints, cfg, threads>>
  BY DEF Discover, Start
<1> HIDE DEF P
<1>13. StartNext => P
  BY <1>2, <1>3, <1>4, <1>5, <1>6, <1>7, <1>8, <1>9, <1>10, Zenon DEF StartNext
<1> QED BY <1>11, <1>12, <1>13, Zenon DEF P

\* What both ends of a line agree on.
LEMMA ItemFields ==
  ASSUME NEW m \in Items
  PROVE  /\ m.got.type = m.sent.type /\ m.got.source_id = m.sent.source_id
         /\ m.sent.dlc >= 2 => m.got.data[1] = m.sent.data[1] /\ m.got.data[2] = m.sent.data[2]
<1>1. PICK f, g : f = m.sent /\ g = m.got
  OBVIOUS
<1>2. f \in FitFrames /\ g \in FitFrames /\ Meaning(g) = Meaning(f)
  BY <1>1 DEF Items
<1>3. ASSUME NEW h
      PROVE  /\ Meaning(h).type = h.type /\ Meaning(h).source_id = h.source_id
             /\ Meaning(h).dlc = h.dlc /\ Meaning(h).data = SubSeq(h.data, 1, h.dlc)
  BY DEF Meaning, to_json
<1>4. /\ g.type = f.type /\ g.source_id = f.source_id /\ g.dlc = f.dlc
      /\ SubSeq(g.data, 1, g.dlc) = SubSeq(f.data, 1, f.dlc)
  BY <1>2, <1>3, Zenon
<1>5. ASSUME NEW h \in FitFrames, h.dlc >= 2
      PROVE  SubSeq(h.data, 1, h.dlc)[1] = h.data[1] /\ SubSeq(h.data, 1, h.dlc)[2] = h.data[2]
  <2>1. h.dlc \in 0..8
    BY FitBytes, Zenon
  <2> QED BY <1>5, <2>1, SMT
<1>6. ASSUME f.dlc >= 2 PROVE g.data[1] = f.data[1] /\ g.data[2] = f.data[2]
  <2>1. g.dlc >= 2
    BY <1>4, <1>6, Zenon
  <2>2. SubSeq(f.data, 1, f.dlc)[1] = f.data[1] /\ SubSeq(f.data, 1, f.dlc)[2] = f.data[2]
    BY <1>2, <1>5, <1>6, Zenon
  <2>3. SubSeq(g.data, 1, g.dlc)[1] = g.data[1] /\ SubSeq(g.data, 1, g.dlc)[2] = g.data[2]
    BY <1>2, <1>5, <2>1, Zenon
  <2> QED BY <1>4, <2>2, <2>3, Zenon
<1> QED BY <1>1, <1>4, <1>6, Zenon

\* What the real node announces, at both ends of the line.
LEMMA PeerInfoSays ==
  ASSUME NEW type \in {NODE_INFO, NODE_TURNED_ON}
  PROVE  LET k == PeerInfo(type)
         IN /\ k.type = type /\ k.source_id = PeerId /\ k.dlc >= 2
            /\ k.data[1] * 256 + k.data[2] = PeerType
<1>1. PICK bytes : bytes = BigEndian(PeerType, 2) \o <<0, 1, 0, 2, 65, 0>>
  OBVIOUS
<1>2. PeerType \in Nat /\ PeerType % 256 = PeerType % 2^8 /\ PeerType \div 256 \in 0..255
      /\ PeerType = (PeerType \div 256) * 256 + (PeerType % 256)
  BY Words, Powers, RequestAssumption
<1>3. /\ BigEndian(PeerType, 2) \in Seq(Int) /\ Len(BigEndian(PeerType, 2)) = 2
      /\ BigEndian(PeerType, 2)[1] = PeerType \div 256
      /\ BigEndian(PeerType, 2)[2] = PeerType % 256
  <2>1. PICK be : be = [i \in 1..2 |-> Low(Shr(PeerType, 8 * (2 - i)), 8)]
    OBVIOUS
  <2>2. be = BigEndian(PeerType, 2)
    BY <2>1 DEF BigEndian
  <2>3. be[1] = Low(Shr(PeerType, 8), 8) /\ be[2] = Low(Shr(PeerType, 0), 8)
    BY <2>1
  <2>4. Shr(PeerType, 8) = PeerType \div 256 /\ Shr(PeerType, 0) = PeerType
    BY <1>2, Powers, SMT DEF Shr
  <2>5. be[1] = PeerType \div 256 /\ be[2] = PeerType % 256
    BY <1>2, <2>3, <2>4, Powers, SMT DEF Low
  <2>6. be \in Seq(Int) /\ Len(be) = 2
    <3>1. DOMAIN be = 1..2 /\ \A i \in 1..2 : be[i] \in Int
      BY <1>2, <2>1, <2>5, SMT
    <3>2. be \in [1..2 -> Int]
      BY <2>1, <3>1
    <3>3. be \in UNION {[1..n -> Int] : n \in Nat}
      BY <3>2
    <3>4. be \in Seq(Int)
      BY <3>3, SeqDef
    <3> QED BY <3>1, <3>4, LenProperties
  <2> QED BY <2>2, <2>5, <2>6
<1>4. Len(bytes) = 8 /\ bytes[1] = PeerType \div 256 /\ bytes[2] = PeerType % 256
  <2>1. PICK be : be = BigEndian(PeerType, 2)
    OBVIOUS
  <2>2. be \in Seq(Int) /\ Len(be) = 2 /\ bytes = be \o <<0, 1, 0, 2, 65, 0>>
    BY <1>1, <1>3, <2>1
  <2>3. Len(bytes) = 8 /\ bytes[1] = be[1] /\ bytes[2] = be[2]
    <3>1. PICK rest : rest = <<0, 1, 0, 2, 65, 0>>
      OBVIOUS
    <3>2. rest \in Seq(Int) /\ Len(rest) = 6
      BY <3>1
    <3>3. bytes = be \o rest
      BY <2>2, <3>1, Zenon
    <3>4. /\ Len(bytes) = Len(be) + Len(rest)
          /\ \A i \in 1..(Len(be) + Len(rest)) : bytes[i] = IF i <= Len(be) THEN be[i] ELSE rest[i - Len(be)]
      <4>1. be \in Seq(Int) /\ rest \in Seq(Int)
        BY <2>2, <3>2
      <4> QED BY <3>3, <4>1, ConcatProperties, Zenon
    <3> QED BY <2>2, <3>2, <3>4, SMT
  <2> QED BY <1>3, <2>1, <2>3
<1>5. PICK h : h = Broadcast(Blank(0), type, PeerType, bytes)
  OBVIOUS
<1>6. h.type = type /\ h.dlc = 8 /\ h.data[1] = bytes[1] /\ h.data[2] = bytes[2]
  BY <1>4, <1>5 DEF Broadcast, WithData, MAX_DATA_LENGTH, Blank
<1>7. PICK k : k = [h EXCEPT !.source_id = PeerId]
  OBVIOUS
<1>8. k.type = h.type /\ k.source_id = PeerId /\ k.dlc = h.dlc /\ k.data = h.data
  BY <1>5, <1>7 DEF Broadcast, WithData, Blank
<1>9. k = PeerInfo(type)
  BY <1>1, <1>5, <1>7, Zenon DEF PeerInfo
<1>10. k.data[1] * 256 + k.data[2] = PeerType
  BY <1>2, <1>4, <1>6, <1>8
<1> QED BY <1>6, <1>8, <1>9, <1>10

LEMMA PeerReplySays ==
  ASSUME NEW f, NEW type \in {REG_VALUE, COMMAND_ERROR}, NEW bytes
  PROVE  LET k == PeerReply(f, type, bytes)
         IN k.source_id = PeerId /\ k.type = type /\ k.seqnum = f.seqnum
<1>1. PICK h : h = Unicast(Blank(0), type, 0, f.source_id, bytes)
  OBVIOUS
<1>2. PICK k : k = [h EXCEPT !.seqnum = f.seqnum, !.source_id = PeerId]
  OBVIOUS
<1>3. k.source_id = PeerId /\ k.type = type /\ k.seqnum = f.seqnum
  BY <1>1, <1>2 DEF Unicast, WithData, Blank
<1> QED BY <1>1, <1>2, <1>3, Zenon DEF PeerReply

\* A frame that has the fields of one of these, when it is read.
LEMMA PeerItem ==
  ASSUME NEW m \in Items,
         \/ \E type \in {NODE_INFO, NODE_TURNED_ON} : m.sent = PeerInfo(type)
         \/ \E f, bytes : \E type \in {REG_VALUE, COMMAND_ERROR} : m.sent = PeerReply(f, type, bytes)
  PROVE  FromPeer(m.got)
<1>1. ASSUME NEW type \in {NODE_INFO, NODE_TURNED_ON}, m.sent = PeerInfo(type) PROVE FromPeer(m.got)
  <2>1. /\ m.sent.source_id = PeerId /\ m.sent.dlc >= 2
        /\ m.sent.data[1] * 256 + m.sent.data[2] = PeerType
    BY <1>1, PeerInfoSays, Zenon
  <2> QED BY <2>1, ItemFields, Zenon DEF FromPeer
<1>2. ASSUME NEW f, NEW bytes, NEW type \in {REG_VALUE, COMMAND_ERROR}, m.sent = PeerReply(f, type, bytes)
      PROVE  FromPeer(m.got)
  <2>1. m.sent.source_id = PeerId /\ m.sent.type = type
    <3>1. PICK k : k = PeerReply(f, type, bytes)
      OBVIOUS
    <3>2. k.source_id = PeerId /\ k.type = type
      BY <3>1, PeerReplySays
    <3> QED BY <1>2, <3>1, <3>2
  <2>2. m.got.source_id = PeerId /\ m.got.type = type
    BY <2>1, ItemFields, Zenon
  <2>3. ~Announces(m.got)
    BY <2>2, SMT DEF Announces, NODE_INFO, NODE_TURNED_ON, REG_VALUE, COMMAND_ERROR
  <2> QED BY <2>2, <2>3 DEF FromPeer
<1> QED BY <1>1, <1>2, Zenon

\* Places in a line that loses its head, and in one that is longer.
LEMMA TailPlaces ==
  ASSUME NEW S, NEW q \in Seq(S), q # <<>>
  PROVE  /\ \A j \in DOMAIN Tail(q) : \E i \in DOMAIN q : Tail(q)[j] = q[i]
         /\ \A i \in DOMAIN q : q[i] = Head(q) \/ \E j \in DOMAIN Tail(q) : Tail(q)[j] = q[i]
<1>1. /\ Len(q) \in Nat /\ Len(q) >= 1 /\ DOMAIN q = 1..Len(q) /\ Head(q) = q[1]
      /\ Tail(q) \in Seq(S) /\ Len(Tail(q)) = Len(q) - 1
      /\ \A i \in 1..(Len(q) - 1) : Tail(q)[i] = q[i + 1]
  BY LenProperties, HeadTailProperties, EmptySeq, SMT
<1>2. DOMAIN Tail(q) = 1..(Len(q) - 1)
  BY <1>1, LenProperties
<1>3. PICK n \in Nat : n = Len(q)
  BY <1>1
<1>4. ASSUME NEW j \in 1..(n - 1) PROVE j + 1 \in 1..n /\ Tail(q)[j] = q[j + 1]
  BY <1>1, <1>3, SMT
<1>5. ASSUME NEW i \in 1..n, i # 1 PROVE i - 1 \in 1..(n - 1) /\ Tail(q)[i - 1] = q[i]
  BY <1>1, <1>3, <1>5, SMT
<1> QED BY <1>1, <1>2, <1>3, <1>4, <1>5

Joined(z, q, t) ==
  /\ \A i \in DOMAIN q : \E k \in DOMAIN z : z[k] = q[i]
  /\ \A j \in DOMAIN t : \E k \in DOMAIN z : z[k] = t[j]
  /\ \A k \in DOMAIN z : (\E i \in DOMAIN q : z[k] = q[i]) \/ (\E j \in DOMAIN t : z[k] = t[j])

LEMMA ConcatPlaces ==
  ASSUME NEW S, NEW q \in Seq(S), NEW t \in Seq(S)
  PROVE  Joined(q \o t, q, t)
<1>1. PICK z : z = q \o t
  OBVIOUS
<1>2. z \in Seq(S) /\ Len(z) = Len(q) + Len(t)
      /\ \A i \in 1..(Len(q) + Len(t)) : z[i] = IF i <= Len(q) THEN q[i] ELSE t[i - Len(q)]
  BY <1>1, ConcatProperties, Zenon
<1>3. DOMAIN q = 1..Len(q) /\ DOMAIN t = 1..Len(t) /\ DOMAIN z = 1..(Len(q) + Len(t))
      /\ Len(q) \in Nat /\ Len(t) \in Nat
  BY <1>2, LenProperties
<1>4. PICK n \in Nat, m \in Nat : n = Len(q) /\ m = Len(t)
  BY <1>3
<1>5. DOMAIN q = 1..n /\ DOMAIN t = 1..m /\ DOMAIN z = 1..(n + m)
      /\ \A i \in 1..(n + m) : z[i] = IF i <= n THEN q[i] ELSE t[i - n]
  BY <1>2, <1>3, <1>4, Zenon
<1>6. ASSUME NEW i \in 1..n PROVE i \in 1..(n + m) /\ z[i] = q[i]
  BY <1>5, SMT
<1>7. ASSUME NEW j \in 1..m PROVE n + j \in 1..(n + m) /\ z[n + j] = t[j]
  BY <1>5, SMT
<1>8. ASSUME NEW k \in 1..(n + m)
      PROVE  (k \in 1..n /\ z[k] = q[k]) \/ (k - n \in 1..m /\ z[k] = t[k - n])
  BY <1>5, SMT
<1>9. Joined(z, q, t)
  BY <1>5, <1>6, <1>7, <1>8, Zenon DEF Joined
<1> QED BY <1>1, <1>9, Zenon

\* The answers of the real node.
LEMMA PeerSends ==
  ASSUME NEW f
  PROVE  /\ f.type = DISCOVER => PeerOutcome(f).sent = <<PeerInfo(NODE_INFO)>>
         /\ \/ PeerOutcome(f).sent = <<>>
            \/ \E type \in {NODE_INFO, NODE_TURNED_ON} : PeerOutcome(f).sent = <<PeerInfo(type)>>
            \/ \E g, bytes : \E type \in {REG_VALUE, COMMAND_ERROR} : PeerOutcome(f).sent = <<PeerReply(g, type, bytes)>>
<1> DEFINE mine == is_unicast(f) /\ f.destination_id = PeerId
           r == f.data[1]
           known == r \in DOMAIN peer
           value == SubSeq(f.data, 2, f.dlc)
           Same1(frame) == [regs |-> peer, sent |-> <<frame>>]
           Now(bytes) == [regs |-> [peer EXCEPT ![r] = bytes], sent |-> <<PeerReply(f, REG_VALUE, <<r>> \o bytes)>>]
<1>1. PeerOutcome(f) =
      CASE f.type = DISCOVER                         -> Same1(PeerInfo(NODE_INFO))
        [] mine /\ f.type = NODE_RESET               -> [regs |-> PeerRegs, sent |-> <<PeerInfo(NODE_TURNED_ON)>>]
        [] mine /\ f.type # NODE_RESET /\ ~known     -> Same1(PeerReply(f, COMMAND_ERROR, <<INVALID_REGISTER>>))
        [] mine /\ known /\ f.type = GET_REG         -> Now(peer[r])
        [] mine /\ known /\ f.type = SET_REG ->
             IF r \in PeerStrings /\ Len(value) < Len(peer[r]) THEN Now(Padded(r, value))
             ELSE IF Len(value) = Len(peer[r]) THEN Now(value)
             ELSE Same1(PeerReply(f, COMMAND_ERROR, <<REGISTER_SIZE_MISMATCH>>))
        [] mine /\ known /\ f.type \in {SET_BIT, CLEAR_BIT} -> Now(WithBit(f, peer[r]))
        [] OTHER                                     -> [regs |-> peer, sent |-> <<>>]
  BY DEF PeerOutcome
<1>2. /\ \A g : Same1(g).sent = <<g>>
      /\ \A bytes : Now(bytes).sent = <<PeerReply(f, REG_VALUE, <<r>> \o bytes)>>
  OBVIOUS
<1>3. ~(f.type = DISCOVER /\ mine)
  BY SMT DEF is_unicast, DISCOVER
<1> HIDE DEF Same1, Now
<1>4. \/ PeerOutcome(f) = Same1(PeerInfo(NODE_INFO))
      \/ PeerOutcome(f) = [regs |-> PeerRegs, sent |-> <<PeerInfo(NODE_TURNED_ON)>>]
      \/ \E bytes : PeerOutcome(f) = Same1(PeerReply(f, COMMAND_ERROR, bytes))
      \/ \E bytes : PeerOutcome(f) = Now(bytes)
      \/ PeerOutcome(f) = [regs |-> peer, sent |-> <<>>]
  BY <1>1
<1>5. f.type = DISCOVER => PeerOutcome(f) = Same1(PeerInfo(NODE_INFO))
  BY <1>1, <1>3
<1>6. ASSUME NEW bytes, PeerOutcome(f) = Same1(PeerReply(f, COMMAND_ERROR, bytes))
      PROVE  PeerOutcome(f).sent = <<PeerReply(f, COMMAND_ERROR, bytes)>>
  BY <1>2, <1>6, Zenon
<1>7. ASSUME NEW bytes, PeerOutcome(f) = Now(bytes)
      PROVE  PeerOutcome(f).sent = <<PeerReply(f, REG_VALUE, <<r>> \o bytes)>>
  BY <1>2, <1>7, Zenon
<1>8. PeerOutcome(f) = Same1(PeerInfo(NODE_INFO)) => PeerOutcome(f).sent = <<PeerInfo(NODE_INFO)>>
  BY <1>2, Zenon
<1>9. /\ PeerOutcome(f) = [regs |-> PeerRegs, sent |-> <<PeerInfo(NODE_TURNED_ON)>>]
           => PeerOutcome(f).sent = <<PeerInfo(NODE_TURNED_ON)>>
      /\ PeerOutcome(f) = [regs |-> peer, sent |-> <<>>] => PeerOutcome(f).sent = <<>>
  OBVIOUS
<1> QED BY <1>4, <1>5, <1>6, <1>7, <1>8, <1>9, Zenon

-----------------------------------------------------------------------------
(* Steps, and the search for the node. *)

\* Steps that leave the bus and do not forget the node.
LEMMA BusLeft ==
  ASSUME DiscoverInv, Served, down'["bus"] = down["bus"], up'["bus"] = up["bus"],
         BusOnly /\ PeerKnown => PeerKnown'
  PROVE  DiscoverInv'
<1>1. UNCHANGED <<step, endpoints, cfg, threads>> /\ (status' = "running" => status = "running")
  BY DEF Served
<1>2. BusOnly' <=> BusOnly
  BY <1>1 DEF BusOnly, RealEndpoints, Driver
<1>3. BeforeDiscover'
  BY <1>1 DEF DiscoverInv, BeforeDiscover
<1>4. AfterDiscover'
  BY <1>1, <1>2 DEF DiscoverInv, AfterDiscover
<1> QED BY <1>1, <1>3, <1>4 DEF DiscoverInv, NodeMgrAttached

\* send_frame of the API.
LEMMA BusSent ==
  ASSUME DiscoverInv, LinesOK, LinesOK', Served, step = 15, nodes' = nodes, NEW f, NEW raw, NEW x, Send(f, raw, x)
  PROVE  DiscoverInv'
<1>1. UNCHANGED <<step, endpoints, cfg, threads>> /\ (status' = "running" => status = "running")
  BY DEF Served
<1>2. BusOnly' <=> BusOnly
  BY <1>1 DEF BusOnly, RealEndpoints, Driver
<1>3. PeerKnown' <=> PeerKnown
  BY DEF PeerKnown
<1>4. ASSUME BusOnly
      PROVE  /\ up'["bus"] = up["bus"]
             /\ \A i \in DOMAIN down["bus"] : \E k \in DOMAIN down'["bus"] : down'["bus"][k] = down["bus"][i]
  <2>1. PICK m : m = OnLine("bus", Stamped(f, raw), x)
    OBVIOUS
  <2>2. "bus" \in Lines /\ Open("bus") /\ Driver("bus") # "loop"
    BY <1>4 DEF BusOnly, Lines, Open
  <2>3. up'["bus"] = up["bus"] /\ down'["bus"] = down["bus"] \o <<m>>
    BY <2>1, <2>2, Zenon DEF Send
  <2>4. down["bus"] \in Seq(Items) /\ down'["bus"] \in Seq(Items)
    BY <2>2 DEF LinesOK
  <2>5. PICK q, z : q = down["bus"] /\ z = down'["bus"]
    OBVIOUS
  <2>6. q \in Seq(Items \cup {m}) /\ <<m>> \in Seq(Items \cup {m}) /\ z = q \o <<m>>
    <3>1. q \in Seq(Items \cup {m})
      <4>1. Len(q) \in Nat /\ q \in [1..Len(q) -> Items]
        BY <2>4, <2>5, LenProperties
      <4>2. q \in [1..Len(q) -> Items \cup {m}]
        BY <4>1
      <4>3. q \in UNION {[1..n -> Items \cup {m}] : n \in Nat}
        BY <4>1, <4>2
      <4> QED BY <4>3, SeqDef
    <3> QED BY <2>3, <2>5, <3>1
  <2>7. \A i \in DOMAIN q : \E k \in DOMAIN z : z[k] = q[i]
    <3>1. PICK S, t : S = Items \cup {m} /\ t = <<m>>
      OBVIOUS
    <3>2. q \in Seq(S) /\ t \in Seq(S) /\ z = q \o t
      BY <2>6, <3>1, Zenon
    <3>3. Joined(z, q, t)
      BY <3>2, ConcatPlaces
    <3> QED BY <3>3, Zenon DEF Joined
  <2> QED BY <2>3, <2>5, <2>7, Zenon
<1>5. BeforeDiscover'
  BY <1>1, SMT DEF BeforeDiscover
<1>6. AfterDiscover'
  <2>1. SUFFICES ASSUME status' = "running", BusOnly
                 PROVE  /\ \A i \in DOMAIN up'["bus"] : FromPeer(up'["bus"][i].got)
                        /\ \/ PeerKnown'
                           \/ \E i \in DOMAIN down'["bus"] : down'["bus"][i].got.type = DISCOVER
                           \/ \E i \in DOMAIN up'["bus"] : Announces(up'["bus"][i].got)
    BY <1>2, Zenon DEF AfterDiscover, FromPeer, Announces
  <2>2. /\ \A i \in DOMAIN up["bus"] : FromPeer(up["bus"][i].got)
        /\ \/ PeerKnown
           \/ \E i \in DOMAIN down["bus"] : down["bus"][i].got.type = DISCOVER
           \/ \E i \in DOMAIN up["bus"] : Announces(up["bus"][i].got)
    BY <1>1, <2>1, Zenon DEF DiscoverInv, AfterDiscover
  <2>3. PICK q, z : q = down["bus"] /\ z = down'["bus"]
    OBVIOUS
  <2>4. \A i \in DOMAIN q : \E k \in DOMAIN z : z[k] = q[i]
    BY <1>4, <2>1, <2>3, Zenon
  <2>5. (\E i \in DOMAIN q : q[i].got.type = DISCOVER) => \E k \in DOMAIN z : z[k].got.type = DISCOVER
    BY <2>4, Zenon
  <2> QED BY <1>3, <1>4, <2>1, <2>2, <2>3, <2>5, Zenon
<1> QED BY <1>1, <1>5, <1>6 DEF DiscoverInv, NodeMgrAttached

\* main sends DISCOVER.
LEMMA BusDiscovered ==
  ASSUME DaemonInv, DiscoverInv, DaemonDiscovers
  PROVE  DiscoverInv'
<1>1. step = 14 /\ step' = 15 /\ UNCHANGED <<endpoints, cfg, threads>>
  BY Started, MainPositions DEF DaemonInv, StartOK, DaemonDiscovers
<1>2. PICK x \in Garbage : Send(discover(x), FALSE, x)
  BY DEF DaemonDiscovers
<1>3. down["bus"] = <<>> /\ up["bus"] = <<>> /\ NodeMgrAttached
  BY <1>1, SMT DEF DiscoverInv, BeforeDiscover
<1>4. BusOnly' <=> BusOnly
  BY <1>1 DEF BusOnly, RealEndpoints, Driver
<1>5. ASSUME BusOnly
      PROVE  /\ up'["bus"] = <<>>
             /\ \E i \in DOMAIN down'["bus"] : down'["bus"][i].got.type = DISCOVER
  <2>1. PICK f : f = discover(x)
    OBVIOUS
  <2>2. Sendable(f, FALSE) /\ f.type = DISCOVER
    <3>1. f.type = DISCOVER
      BY <2>1 DEF discover, Broadcast, WithData, Blank
    <3> QED BY <2>1, <3>1, DiscoverSendable, Zenon
  <2>3. PICK g : g = Stamped(f, FALSE)
    OBVIOUS
  <2>4. g \in FitFrames /\ g.type = DISCOVER
    <3>1. g \in FitFrames
      BY <2>2, <2>3, StampedFits DEF DaemonInv, NetOK
    <3>2. g.type = f.type
      BY <2>2, <2>3 DEF Stamped, Sendable, H9Frames
    <3> QED BY <2>2, <3>1, <3>2
  <2>5. "bus" \in Lines /\ Open("bus") /\ Driver("bus") # "loop"
    BY <1>5 DEF BusOnly, Lines, Open
  <2>6. PICK m : m = OnLine("bus", g, x)
    OBVIOUS
  <2>7. m \in Items /\ m.sent = g
    <3>1. m \in Items
      BY <2>4, <2>5, <2>6, LineItem DEF DaemonInv, StartOK
    <3> QED BY <2>6, <3>1 DEF OnLine
  <2>8. m.got.type = DISCOVER
    BY <2>4, <2>7, ItemFields, Zenon
  <2>9. up'["bus"] = up["bus"] /\ down'["bus"] = down["bus"] \o <<m>>
    BY <1>2, <2>1, <2>3, <2>5, <2>6, Zenon DEF Send
  <2>10. down'["bus"] = <<m>>
    BY <1>3, <2>9
  <2> QED BY <1>3, <2>8, <2>9, <2>10
<1>6. AfterDiscover'
  BY <1>4, <1>5 DEF AfterDiscover
<1>7. BeforeDiscover'
  BY <1>1, SMT DEF BeforeDiscover
<1> QED BY <1>1, <1>3, <1>6, <1>7 DEF DiscoverInv, NodeMgrAttached

\* The real node answers what is at the head of the line.
LEMMA BusAnswered ==
  ASSUME DaemonInv, DiscoverInv, PeerStep, UNCHANGED startVars
  PROVE  DiscoverInv'
<1>1. /\ UNCHANGED <<step, status, endpoints, cfg, threads>> /\ nodes' = nodes
      /\ down["bus"] # <<>> /\ down' = [down EXCEPT !["bus"] = Tail(@)]
  BY DEF PeerStep, startVars
<1>2. BusOnly' <=> BusOnly
  BY <1>1 DEF BusOnly, RealEndpoints, Driver
<1>3. PeerKnown' <=> PeerKnown
  BY <1>1 DEF PeerKnown
<1>4. LinesOK /\ EndpointsOK /\ peer \in Contents /\ "bus" \in Lines
  BY DEF DaemonInv, StartOK, NetOK, Lines
<1>5. PICK q, f : q = down["bus"] /\ f = Head(q).got
  OBVIOUS
<1>6. q \in Seq(Items) /\ q # <<>> /\ f \in FitFrames /\ down'["bus"] = Tail(q)
  <2>1. q \in Seq(Items) /\ q # <<>> /\ down'["bus"] = Tail(q)
    BY <1>1, <1>4, <1>5 DEF LinesOK
  <2> QED BY <1>4, <1>5, <2>1, LineHead
<1>7. PICK x \in Garbage : SendUp("bus", PeerOutcome(f).sent, x)
  BY <1>5, Zenon DEF PeerStep
<1>8. PICK frames : frames = PeerOutcome(f).sent
  OBVIOUS
<1>9. frames \in Seq(FitFrames)
  BY <1>4, <1>6, <1>8, PeerFits DEF POutcomes
<1>10. PICK on : on = [i \in DOMAIN frames |-> OnLine("bus", frames[i], x)]
  OBVIOUS
<1>11. up'["bus"] = up["bus"] \o on
  BY <1>4, <1>7, <1>8, <1>10 DEF SendUp, LinesOK
<1>12. \A i \in DOMAIN frames : on[i] \in Items /\ on[i].sent = frames[i]
  <2>1. Open("bus")
    BY <1>1, <1>4 DEF LinesOK
  <2>2. \A i \in DOMAIN frames : frames[i] \in FitFrames
    BY <1>9, LenProperties, ElementOfSeq
  <2>3. \A i \in DOMAIN frames : on[i] = OnLine("bus", frames[i], x)
    BY <1>10
  <2>4. \A i \in DOMAIN frames : on[i] \in Items
    BY <1>4, <2>1, <2>2, <2>3, LineItem
  <2>5. \A g : OnLine("bus", g, x).sent = g
    BY DEF OnLine
  <2> QED BY <2>3, <2>4, <2>5, Zenon
<1>13. on \in Seq(Items) /\ DOMAIN on = DOMAIN frames
  <2>1. DOMAIN frames = 1..Len(frames) /\ Len(frames) \in Nat
    BY <1>9, LenProperties
  <2>2. on \in [1..Len(frames) -> Items]
    BY <1>10, <1>12, <2>1
  <2>3. on \in UNION {[1..n -> Items] : n \in Nat}
    BY <2>1, <2>2
  <2> QED BY <1>10, <2>3, SeqDef
<1>14. \A i \in DOMAIN on : FromPeer(on[i].got)
  <2>1. SUFFICES ASSUME NEW i \in DOMAIN on PROVE FromPeer(on[i].got)
    OBVIOUS
  <2>2. PICK m : m = on[i]
    OBVIOUS
  <2>3. m \in Items /\ m.sent = frames[i]
    BY <1>12, <1>13, <2>2
  <2>4. \/ \E type \in {NODE_INFO, NODE_TURNED_ON} : frames = <<PeerInfo(type)>>
        \/ \E g, bytes : \E type \in {REG_VALUE, COMMAND_ERROR} : frames = <<PeerReply(g, type, bytes)>>
    <3>1. frames # <<>>
      BY <1>13
    <3> QED BY <1>8, <3>1, PeerSends, Zenon
  <2>5. \A y : frames = <<y>> => frames[i] = y
    BY <1>13
  <2>6. \/ \E type \in {NODE_INFO, NODE_TURNED_ON} : m.sent = PeerInfo(type)
        \/ \E g, bytes : \E type \in {REG_VALUE, COMMAND_ERROR} : m.sent = PeerReply(g, type, bytes)
    BY <2>3, <2>4, <2>5, Zenon
  <2> QED BY <2>2, <2>3, <2>6, PeerItem, Zenon
<1>15. ASSUME f.type = DISCOVER PROVE \E i \in DOMAIN on : Announces(on[i].got)
  <2>1. frames = <<PeerInfo(NODE_INFO)>>
    BY <1>8, <1>15, PeerSends, Zenon
  <2>2. 1 \in DOMAIN on /\ frames[1] = PeerInfo(NODE_INFO)
    BY <1>13, <2>1
  <2>3. PICK m : m = on[1]
    OBVIOUS
  <2>4. m \in Items /\ m.sent = PeerInfo(NODE_INFO)
    BY <1>12, <1>13, <2>2, <2>3
  <2>5. m.sent.type = NODE_INFO
    BY <2>4, PeerInfoSays, Zenon
  <2>6. m.got.type = NODE_INFO
    BY <2>4, <2>5, ItemFields, Zenon
  <2> QED BY <2>2, <2>3, <2>6, Zenon DEF Announces
<1>16. PICK u, z : u = up["bus"] /\ z = up'["bus"]
  OBVIOUS
<1>17. Joined(z, u, on)
  <2>1. u \in Seq(Items) /\ z = u \o on
    BY <1>4, <1>11, <1>16 DEF LinesOK
  <2> QED BY <1>13, <2>1, ConcatPlaces
<1>18. /\ \A i \in DOMAIN u : \E k \in DOMAIN z : z[k] = u[i]
       /\ \A j \in DOMAIN on : \E k \in DOMAIN z : z[k] = on[j]
       /\ \A k \in DOMAIN z : (\E i \in DOMAIN u : z[k] = u[i]) \/ (\E j \in DOMAIN on : z[k] = on[j])
  BY <1>17, Zenon DEF Joined
<1>19. \A i \in DOMAIN q : q[i] = Head(q) \/ \E j \in DOMAIN Tail(q) : Tail(q)[j] = q[i]
  BY <1>6, TailPlaces, Zenon
<1>20. AfterDiscover'
  <2>1. SUFFICES ASSUME step = 15, status = "running", BusOnly
                 PROVE  /\ \A i \in DOMAIN z : FromPeer(z[i].got)
                        /\ \/ PeerKnown
                           \/ \E i \in DOMAIN Tail(q) : Tail(q)[i].got.type = DISCOVER
                           \/ \E i \in DOMAIN z : Announces(z[i].got)
    BY <1>1, <1>2, <1>3, <1>6, <1>16, Zenon DEF AfterDiscover, FromPeer, Announces
  <2>2. /\ \A i \in DOMAIN u : FromPeer(u[i].got)
        /\ \/ PeerKnown
           \/ \E i \in DOMAIN q : q[i].got.type = DISCOVER
           \/ \E i \in DOMAIN u : Announces(u[i].got)
    BY <1>5, <1>16, <2>1, Zenon DEF DiscoverInv, AfterDiscover
  <2>3. \A i \in DOMAIN z : FromPeer(z[i].got)
    BY <1>14, <1>18, <2>2, Zenon
  <2>4. CASE \E i \in DOMAIN u : Announces(u[i].got)
    BY <1>18, <2>3, <2>4, Zenon
  <2>5. CASE \E i \in DOMAIN q : q[i].got.type = DISCOVER
    <3>1. PICK i \in DOMAIN q : q[i].got.type = DISCOVER
      BY <2>5
    <3>2. CASE q[i] = Head(q)
      <4>1. f.type = DISCOVER
        BY <1>5, <3>1, <3>2, Zenon
      <4>2. PICK j \in DOMAIN on : Announces(on[j].got)
        BY <1>15, <4>1, Zenon
      <4>3. PICK k \in DOMAIN z : z[k] = on[j]
        BY <1>18, Zenon
      <4> QED BY <2>3, <4>2, <4>3, Zenon
    <3>3. ASSUME NEW j \in DOMAIN Tail(q), Tail(q)[j] = q[i]
          PROVE  \E k \in DOMAIN Tail(q) : Tail(q)[k].got.type = DISCOVER
      BY <3>1, <3>3, Zenon
    <3> QED BY <1>19, <2>3, <3>2, <3>3, Zenon
  <2> QED BY <2>2, <2>3, <2>4, <2>5, Zenon
<1>21. BeforeDiscover'
  BY <1>1 DEF DiscoverInv, BeforeDiscover
<1> QED BY <1>1, <1>20, <1>21 DEF DiscoverInv, NodeMgrAttached

\* The update thread is told of a frame of the real node.
LEMMA PeerUpdated ==
  ASSUME NodesOK, NEW f, FromPeer(f), nodes' = UpdateNodes(f), Announces(f) \/ PeerKnown
  PROVE  PeerKnown'
<1>1. PICK id, t : id = f.source_id /\ t = f.data[1] * 256 + f.data[2]
  OBVIOUS
<1>2. PICK old : old = IF id \in DOMAIN nodes THEN nodes[id] ELSE NewNode
  OBVIOUS
<1>3. PICK new : new = IF f.type \in {NODE_INFO, NODE_TURNED_ON} THEN NodeInit(old, t) ELSE old
  OBVIOUS
<1>4. nodes' = [i \in DOMAIN nodes \cup {id} |-> IF i = id THEN new ELSE nodes[i]]
  BY <1>1, <1>2, <1>3, Zenon DEF UpdateNodes
<1>5. id = PeerId /\ (Announces(f) => t = PeerType)
  BY <1>1 DEF FromPeer
<1>6. old = [init |-> old.init, type |-> old.type, regs |-> old.regs]
  BY <1>2 DEF NodesOK, NewNode
<1>7. CASE Announces(f)
  <2>1. new = NodeInit(old, PeerType)
    BY <1>3, <1>5, <1>7 DEF Announces
  <2>2. new.init /\ new.type = PeerType
    BY <1>6, <2>1 DEF NodeInit
  <2> QED BY <1>4, <1>5, <2>2 DEF PeerKnown
<1>8. CASE ~Announces(f)
  <2>1. new = old /\ old = nodes[PeerId] /\ PeerKnown
    BY <1>2, <1>3, <1>5, <1>8 DEF Announces, PeerKnown
  <2> QED BY <1>4, <1>5, <2>1 DEF PeerKnown
<1> QED BY <1>7, <1>8

LEMMA BusReceived ==
  ASSUME DaemonInv, DiscoverInv, NEW l \in Lines, Receive(l)
  PROVE  DiscoverInv'
<1>1. Served
  BY DEF Receive, Abort, Served
<1>2. UNCHANGED <<step, endpoints, cfg, threads>> /\ (status' = "running" => status = "running")
  BY <1>1 DEF Served
<1>3. BusOnly' <=> BusOnly
  BY <1>2 DEF BusOnly, RealEndpoints, Driver
<1>4. LinesOK /\ NodesOK /\ step \in 1..15
  BY Started DEF DaemonInv, StartOK, NetOK, KnownOK
<1>5. down' = down /\ Open(l) /\ up[l] # <<>> /\ up' = [up EXCEPT ![l] = Tail(@)]
  BY DEF Receive
<1>6. CASE l = "virtual"
  <2>1. up'["bus"] = up["bus"] /\ ~BusOnly
    BY <1>4, <1>5, <1>6 DEF Open, BusOnly, LinesOK
  <2> QED BY <1>1, <1>5, <2>1, BusLeft, Zenon
<1>7. CASE l = "bus"
  <2>1. step = 15 /\ NodeMgrAttached
    BY <1>4, <1>5, <1>7, SMT DEF DiscoverInv, BeforeDiscover
  <2>2. PICK q : q = up["bus"]
    OBVIOUS
  <2>3. q \in Seq(Items) /\ q # <<>> /\ up'["bus"] = Tail(q)
    BY <1>4, <1>5, <1>7, <2>2 DEF LinesOK, Lines
  <2>4. PICK f : f = Head(q).got
    OBVIOUS
  <2>5. status' = "running" => nodes' = UpdateNodes(f)
    BY <1>7, <2>1, <2>2, <2>4 DEF Receive, Abort
  <2>6. /\ \A j \in DOMAIN Tail(q) : \E i \in DOMAIN q : Tail(q)[j] = q[i]
        /\ \A i \in DOMAIN q : q[i] = Head(q) \/ \E j \in DOMAIN Tail(q) : Tail(q)[j] = q[i]
    BY <2>3, TailPlaces, Zenon
  <2>7. \E i \in DOMAIN q : q[i] = Head(q)
    <3>1. 1 \in DOMAIN q /\ Head(q) = q[1]
      BY <2>3, LenProperties, EmptySeq, SMT
    <3> QED BY <3>1
  <2>8. AfterDiscover'
    <3>1. SUFFICES ASSUME status' = "running", BusOnly
                   PROVE  /\ \A i \in DOMAIN Tail(q) : FromPeer(Tail(q)[i].got)
                          /\ \/ PeerKnown'
                             \/ \E i \in DOMAIN down["bus"] : down["bus"][i].got.type = DISCOVER
                             \/ \E i \in DOMAIN Tail(q) : Announces(Tail(q)[i].got)
      BY <1>3, <1>5, <2>3, Zenon DEF AfterDiscover, FromPeer, Announces
    <3>2. /\ \A i \in DOMAIN q : FromPeer(q[i].got)
          /\ \/ PeerKnown
             \/ \E i \in DOMAIN down["bus"] : down["bus"][i].got.type = DISCOVER
             \/ \E i \in DOMAIN q : Announces(q[i].got)
      BY <1>2, <2>1, <2>2, <3>1, Zenon DEF DiscoverInv, AfterDiscover
    <3>3. FromPeer(f)
      BY <2>4, <2>7, <3>2, Zenon
    <3>4. Announces(f) \/ PeerKnown => PeerKnown'
      BY <1>4, <2>5, <3>1, <3>3, PeerUpdated
    <3>5. \A i \in DOMAIN Tail(q) : FromPeer(Tail(q)[i].got)
      BY <2>6, <3>2, Zenon
    <3>6. (\E i \in DOMAIN q : Announces(q[i].got)) =>
             Announces(f) \/ \E i \in DOMAIN Tail(q) : Announces(Tail(q)[i].got)
      BY <2>4, <2>6, Zenon
    <3> QED BY <3>2, <3>4, <3>5, <3>6, Zenon
  <2>9. BeforeDiscover'
    BY <1>2, <2>1, SMT DEF BeforeDiscover
  <2> QED BY <1>2, <2>1, <2>8, <2>9 DEF DiscoverInv, NodeMgrAttached
<1> QED BY <1>6, <1>7 DEF Lines

LEMMA BusCalled ==
  ASSUME DiscoverInv, LinesOK, LinesOK', Served, step = 15, nodes' = nodes, NEW r, CallNode(r)
  PROVE  DiscoverInv'
<1>1. CASE UNCHANGED <<down, up>>
  <2>1. PeerKnown => PeerKnown'
    BY DEF PeerKnown
  <2> QED BY <1>1, <2>1, BusLeft
<1>2. ASSUME NEW x, NEW f, Send(f, FALSE, x) PROVE DiscoverInv'
  BY <1>2, BusSent, Zenon
<1> QED BY <1>1, <1>2 DEF CallNode

\* A request is served by main's last call.
LEMMA ServingLast ==
  ASSUME step \in 1..15, Serving
  PROVE  step = 15
<1>1. \/ step = 1 \/ step = 2 \/ step = 3 \/ step = 4 \/ step = 5 \/ step = 6 \/ step = 7
      \/ step = 8 \/ step = 9 \/ step = 10 \/ step = 11 \/ step = 12 \/ step = 13 \/ step = 14
      \/ step = 15
  OBVIOUS
<1> QED BY <1>1 DEF Serving, At, Main

LEMMA ServeSearch ==
  ASSUME DaemonInv, LinesOK', DiscoverInv, Served, NEW r \in Requests,
         \/ Refuse(r) \/ Reads(r) \/ authenticate(r) \/ get_node_info(r)
         \/ SendsFrame(r) \/ CallsNode(r) \/ dev_method_call(r)
  PROVE  DiscoverInv'
<1>1. LinesOK /\ NodesOK /\ step \in 1..15
  BY Started DEF DaemonInv, StartOK, NetOK, KnownOK
<1>2. CASE Refuse(r) \/ Reads(r) \/ authenticate(r) \/ get_node_info(r)
  <2>1. UNCHANGED <<down, up, nodes>>
    BY <1>2 DEF Refuse, Reads, authenticate, get_node_info
  <2>2. PeerKnown => PeerKnown'
    BY <2>1 DEF PeerKnown
  <2> QED BY <2>1, <2>2, BusLeft
<1>3. ASSUME Serving PROVE step = 15
  BY <1>1, <1>3, ServingLast
<1>4. CASE SendsFrame(r)
  <2>1. Serving /\ nodes' = nodes
    BY <1>4 DEF SendsFrame, Called
  <2>2. \E x \in Garbage : \/ Send(discover(x), FALSE, x)
                           \/ Send(from_json(Blank(x), to_json(r.frame)), r.raw, x)
    BY <1>4 DEF SendsFrame
  <2>3. ASSUME NEW f, NEW raw, NEW x, Send(f, raw, x) PROVE DiscoverInv'
    BY <1>1, <1>3, <2>1, <2>3, BusSent, Zenon
  <2> QED BY <2>2, <2>3, Zenon
<1>5. CASE CallsNode(r)
  <2>1. Serving /\ nodes' = nodes /\ CallNode(r)
    BY <1>5 DEF CallsNode, Called
  <2> QED BY <1>1, <1>3, <2>1, BusCalled, Zenon
<1>6. CASE dev_method_call(r)
  <2>1. Serving /\ nodes' = nodes
    BY <1>6 DEF dev_method_call, Called
  <2>2. UNCHANGED <<down, up>> \/ CallNode([r EXCEPT !.id = dev.switch_node_id, !.reg = ANTENNA_SELECT_REG])
    BY <1>6 DEF dev_method_call
  <2>3. ASSUME NEW s, CallNode(s) PROVE DiscoverInv'
    BY <1>1, <1>3, <2>1, <2>3, BusCalled, Zenon
  <2>4. CASE UNCHANGED <<down, up>>
    <3>1. PeerKnown => PeerKnown'
      BY <2>1 DEF PeerKnown
    <3> QED BY <2>4, <3>1, BusLeft
  <2> QED BY <2>2, <2>3, <2>4, Zenon
<1> QED BY <1>2, <1>3, <1>4, <1>5, <1>6

LEMMA SearchStep ==
  ASSUME DaemonInv, DaemonInv', DiscoverInv, [Next]_daemonVars
  PROVE  DiscoverInv'
<1>1. LinesOK /\ LinesOK' /\ step \in 1..15
  BY Started DEF DaemonInv, StartOK, NetOK
<1>2. CASE StartNext /\ UNCHANGED requestVars
  <2>1. step <= 12 /\ step' \in {step, step + 1} /\ (step' > 12 => NodeMgrAttached')
    BY <1>1, <1>2, MainPositions
  <2>2. down' = down /\ up' = up
    BY <1>2 DEF requestVars
  <2>3. step <= 14 /\ step' # 15
    BY <1>1, <2>1, SMT
  <2> QED BY <2>1, <2>2, <2>3 DEF DiscoverInv, BeforeDiscover, AfterDiscover
<1>3. CASE DaemonConfigures
  <2>1. step = 13 /\ step' = 14 /\ threads \subseteq threads' /\ down' = down /\ up' = up
    BY <1>1, <1>3, MainPositions DEF DaemonConfigures
  <2> QED BY <2>1, SMT DEF DiscoverInv, BeforeDiscover, AfterDiscover, NodeMgrAttached
<1>4. CASE DaemonDiscovers
  BY <1>4, BusDiscovered
<1>5. ASSUME NEW l \in Lines, Receive(l) PROVE DiscoverInv'
  BY <1>5, BusReceived
<1>6. CASE PeerStep /\ UNCHANGED startVars
  BY <1>6, BusAnswered
<1>7. CASE (CreateVirtualNode \/ VirtualNodeStep) /\ UNCHANGED startVars
  <2>1. nodes' = nodes /\ Served
    BY <1>7 DEF CreateVirtualNode, VirtualNodeStep, Served, startVars
  <2>2. down'["bus"] = down["bus"] /\ up'["bus"] = up["bus"]
    BY <1>1, <1>7 DEF CreateVirtualNode, VirtualNodeStep, SendUp, LinesOK, Lines
  <2>3. PeerKnown => PeerKnown'
    BY <2>1 DEF PeerKnown
  <2> QED BY <2>1, <2>2, <2>3, BusLeft
<1>8. CASE Connect \/ Timeout \/ Idle \/ UNCHANGED daemonVars
  <2>1. UNCHANGED <<down, up, nodes>> /\ UNCHANGED startVars
    BY <1>8 DEF Connect, Timeout, Idle, daemonVars, requestVars
  <2>2. Served
    BY <2>1 DEF Served, startVars
  <2>3. PeerKnown => PeerKnown'
    BY <2>1 DEF PeerKnown
  <2> QED BY <2>1, <2>2, <2>3, BusLeft
<1>9. ASSUME NEW r \in Requests,
             \/ Refuse(r) \/ Reads(r) \/ authenticate(r) \/ get_node_info(r)
             \/ SendsFrame(r) \/ CallsNode(r) \/ dev_method_call(r)
      PROVE  DiscoverInv'
  <2>1. Served
    <3>1. CASE Refuse(r) \/ Reads(r) \/ authenticate(r) \/ SendsFrame(r)
               \/ CallsNode(r)
      <4>1. UNCHANGED startVars
        BY <3>1 DEF Refuse, Reads, authenticate, SendsFrame, CallsNode
      <4> QED BY <4>1 DEF Served, startVars
    <3>2. CASE get_node_info(r) BY <3>2 DEF get_node_info, Abort, Served
    <3>3. CASE dev_method_call(r) BY <3>3 DEF dev_method_call, Abort, Served
    <3> QED BY <1>9, <3>1, <3>2, <3>3
  <2> QED BY <1>1, <1>9, <2>1, ServeSearch, Zenon
<1> QED BY <1>2, <1>3, <1>4, <1>5, <1>6, <1>7, <1>8, <1>9, Zenon DEF Next, Serve

\* NodeMgr::discover, for any real bus without a virtual endpoint: whatever clients do and
\* whenever the node turns on, once nothing is under way the node is known with its
\* type. (A client can give the virtual node the real one's id: both then share an entry.)
THEOREM NodeFound ==
  ASSUME FitRequests
  PROVE  Spec => [](0 \notin endpoints => NodeKnownAfterDiscover)
<1>1. Init => DaemonInv /\ DiscoverInv
  <2>1. Init => DaemonInv
    BY DaemonStart
  <2>2. Init => DiscoverInv
    BY DEF Init, StartInit, RequestInit, DiscoverInv, BeforeDiscover, AfterDiscover
  <2> QED BY <2>1, <2>2
<1>2. DaemonInv /\ DiscoverInv /\ [Next]_daemonVars => DaemonInv' /\ DiscoverInv'
  BY DaemonStep, SearchStep, Zenon
<1>3. ASSUME DaemonInv, DiscoverInv PROVE 0 \notin endpoints => NodeKnownAfterDiscover
  <2>1. SUFFICES ASSUME 0 \notin endpoints, Serving, Quiet, RealEndpoints # {}, Driver("bus") # "loop"
                 PROVE  PeerKnown
    BY DEF NodeKnownAfterDiscover, PeerKnown
  <2>2. step = 15 /\ status = "running" /\ BusOnly
    <3>1. step = 15
      BY <1>3, <2>1, Started, ServingLast DEF DaemonInv, StartOK
    <3> QED BY <2>1, <3>1 DEF Serving, At, BusOnly
  <2>3. down["bus"] = <<>> /\ up["bus"] = <<>>
    BY <2>1 DEF Quiet, Open, Lines
  <2>4. DOMAIN down["bus"] = {} /\ DOMAIN up["bus"] = {}
    BY <2>3
  <2> QED BY <1>3, <2>2, <2>4 DEF DiscoverInv, AfterDiscover
<1> QED BY <1>1, <1>2, <1>3, PTL DEF Spec

-----------------------------------------------------------------------------
(* A value that is written, and the bytes of its register. *)

\* A register with the bytes that were put into it: filled up with zeros if it holds a
\* string. An answer tells what fits into a frame.
Took(p, b) ==
  p = b \/ (Len(b) < Len(p) /\ \A i \in 1..Len(p) : p[i] = IF i <= Len(b) THEN b[i] ELSE 0)
Tells(f, p) == f.dlc = 1 + Len(UpTo(p, 7)) /\ SubSeq(f.data, 2, f.dlc) = UpTo(p, 7)

\* get_register makes this of the bytes of an answer.
ReadAs(d, bytes) ==
  IF d.type = "str" THEN Json("string", CString(bytes))
  ELSE IF d.size = 32 THEN Exactly(bytes, 4, Json("float", bytes))
  ELSE IF d.size > 32 THEN Exactly(bytes, Length(d), Json("array", bytes))
  ELSE Exactly(bytes, Width(d), Integer(Number(UpTo(bytes, Width(d)))))

\* Byte strings are equal that agree place by place.
LEMMA EqualBytes ==
  ASSUME NEW a \in Seq(Byte), NEW b \in Seq(Byte), Len(a) = Len(b), \A i \in 1..Len(a) : a[i] = b[i]
  PROVE  a = b
<1>1. a = [i \in DOMAIN a |-> a[i]] /\ b = [i \in DOMAIN b |-> b[i]]
      /\ DOMAIN a = 1..Len(a) /\ DOMAIN b = 1..Len(b)
  BY LenProperties, SeqDef
<1> QED BY <1>1

\* The first bytes of a string.
LEMMA UpToSays ==
  ASSUME NEW s \in Seq(Byte), NEW n \in Nat
  PROVE  /\ UpTo(s, n) \in Seq(Byte) /\ Len(UpTo(s, n)) \in Nat
         /\ Len(UpTo(s, n)) = IF Len(s) < n THEN Len(s) ELSE n
         /\ \A i \in 1..Len(UpTo(s, n)) : UpTo(s, n)[i] = s[i]
<1>1. UpTo(s, n) \in Seq(Byte)
  BY UpToBytes
<1>2. PICK len \in Nat : len = Len(s)
  BY LenProperties
<1>3. PICK m : m = IF len < n THEN len ELSE n
  OBVIOUS
<1>4. m \in 0..len /\ m \in Nat
  BY <1>3, SMT
<1>5. UpTo(s, n) = SubSeq(s, 1, m)
  BY <1>2, <1>3, Zenon DEF UpTo
<1>6. Len(SubSeq(s, 1, m)) = m /\ \A i \in 1..m : SubSeq(s, 1, m)[i] = s[i]
  BY <1>2, <1>4, SMT
<1> QED BY <1>1, <1>2, <1>3, <1>4, <1>5, <1>6

\* An answer as long as what was put into the register has just those bytes.
LEMMA ToldWhatWasPut ==
  ASSUME NEW p \in Seq(Byte), NEW b \in Seq(Byte), Took(p, b), Len(UpTo(p, 7)) = Len(b)
  PROVE  UpTo(p, 7) = b
<1>1. PICK a : a = UpTo(p, 7)
  OBVIOUS
<1>2. a \in Seq(Byte) /\ Len(a) \in Nat /\ Len(a) = (IF Len(p) < 7 THEN Len(p) ELSE 7)
      /\ \A i \in 1..Len(a) : a[i] = p[i]
  BY <1>1, UpToSays, Zenon
<1>3. Len(p) \in Nat /\ Len(b) \in Nat
  BY LenProperties
<1>4. \A i \in 1..Len(a) : i \in 1..Len(p) /\ i <= Len(b)
  BY <1>1, <1>2, <1>3, SMT
<1>5. \A i \in 1..Len(a) : p[i] = b[i]
  BY <1>4 DEF Took
<1> QED BY <1>1, <1>2, <1>5, EqualBytes

\* The end of a string that is no longer than a register: before its first zero.
LEMMA StringEnds ==
  ASSUME NEW s \in Seq(Byte), Len(s) <= 7
  PROVE  \/ (\A i \in 1..Len(s) : s[i] # 0) /\ CString(s) = SubSeq(s, 1, Len(s))
         \/ \E k \in 1..Len(s) : /\ s[k] = 0 /\ \A j \in 1..(k - 1) : s[j] # 0
                                 /\ CString(s) = SubSeq(s, 1, k - 1)
<1>1. PICK len \in Nat : len = Len(s) /\ len <= 7 /\ DOMAIN s = 1..len
  BY LenProperties
<1>2. CASE \A i \in 1..len : s[i] # 0
  <2>1. ~ \E i \in DOMAIN s : s[i] = 0
    BY <1>1, <1>2
  <2> QED BY <1>1, <1>2, <2>1 DEF CString
<1>3. CASE \E i \in 1..len : s[i] = 0
  <2>1. \E k \in 1..len : s[k] = 0 /\ \A j \in 1..(k - 1) : s[j] # 0
    <3>1. PICK i \in 1..len : s[i] = 0
      BY <1>3
    <3>2. i \in 1..7
      BY <1>1, <3>1, SMT
    <3> DEFINE First(k) == k \in 1..len /\ s[k] = 0 /\ \A j \in 1..(k - 1) : s[j] # 0
    <3>3. First(1) \/ s[1] # 0
      BY <1>1, <3>1, SMT
    <3>4. s[1] # 0 => First(2) \/ s[2] # 0 \/ i < 2
      BY <1>1, <3>1, SMT
    <3>5. s[1] # 0 /\ s[2] # 0 => First(3) \/ s[3] # 0 \/ i < 3
      BY <1>1, <3>1, SMT
    <3>6. s[1] # 0 /\ s[2] # 0 /\ s[3] # 0 => First(4) \/ s[4] # 0 \/ i < 4
      BY <1>1, <3>1, SMT
    <3>7. s[1] # 0 /\ s[2] # 0 /\ s[3] # 0 /\ s[4] # 0 => First(5) \/ s[5] # 0 \/ i < 5
      BY <1>1, <3>1, SMT
    <3>8. s[1] # 0 /\ s[2] # 0 /\ s[3] # 0 /\ s[4] # 0 /\ s[5] # 0 => First(6) \/ s[6] # 0 \/ i < 6
      BY <1>1, <3>1, SMT
    <3>9. s[1] # 0 /\ s[2] # 0 /\ s[3] # 0 /\ s[4] # 0 /\ s[5] # 0 /\ s[6] # 0 => First(7) \/ s[7] # 0 \/ i < 7
      BY <1>1, <3>1, SMT
    <3>10. \A k \in 1..6 : i < k + 1 => i \in 1..k
      BY <3>2, SMT
    <3>11. i = 1 \/ i = 2 \/ i = 3 \/ i = 4 \/ i = 5 \/ i = 6 \/ i = 7
      BY <3>2, SMT
    <3> HIDE DEF First
    <3>12. First(1) \/ First(2) \/ First(3) \/ First(4) \/ First(5) \/ First(6) \/ First(7)
      BY <3>1, <3>3, <3>4, <3>5, <3>6, <3>7, <3>8, <3>9, <3>11, SMT
    <3> QED BY <3>12 DEF First
  <2>2. PICK k \in 1..len : s[k] = 0 /\ \A j \in 1..(k - 1) : s[j] # 0
    BY <2>1
  <2>3. ASSUME NEW i \in DOMAIN s, s[i] = 0, \A j \in 1..(i - 1) : s[j] # 0
        PROVE  i = k
    <3>1. ~(i < k) /\ ~(k < i)
      BY <1>1, <2>2, <2>3, SMT
    <3> QED BY <1>1, <3>1, SMT
  <2>4. (CHOOSE i \in DOMAIN s : s[i] = 0 /\ \A j \in 1..(i - 1) : s[j] # 0) = k
    BY <1>1, <2>2, <2>3
  <2>5. CString(s) = SubSeq(s, 1, k - 1)
    BY <1>1, <1>3, <2>4 DEF CString
  <2> QED BY <1>1, <2>2, <2>5
<1> QED BY <1>2, <1>3

\* Zeros at the end of a string do not show.
LEMMA PaddedReads ==
  ASSUME NEW a \in Seq(Byte), NEW b \in Seq(Byte), Len(a) <= 7, Len(b) <= Len(a),
         \A i \in 1..Len(a) : a[i] = IF i <= Len(b) THEN b[i] ELSE 0
  PROVE  CString(a) = CString(b)
<1>1. PICK n \in Nat, m \in Nat : n = Len(a) /\ m = Len(b)
  BY LenProperties
<1>2. n <= 7 /\ m <= n /\ m <= 7 /\ \A i \in 1..n : a[i] = IF i <= m THEN b[i] ELSE 0
  BY <1>1, SMT
<1>3. \A k \in 1..(m + 1) : SubSeq(a, 1, k - 1) = SubSeq(b, 1, k - 1)
  <2>1. SUFFICES ASSUME NEW k \in 1..(m + 1) PROVE SubSeq(a, 1, k - 1) = SubSeq(b, 1, k - 1)
    OBVIOUS
  <2>2. PICK l \in 0..m : l = k - 1
    BY SMT
  <2>3. SubSeq(a, 1, l) = [i \in 1..l |-> a[i]] /\ SubSeq(b, 1, l) = [i \in 1..l |-> b[i]]
    BY <1>1, <1>2, <2>2, SMT
  <2>4. \A i \in 1..l : a[i] = b[i]
    BY <1>2, <2>2, SMT
  <2> QED BY <2>2, <2>3, <2>4
<1>4. \/ (\A i \in 1..n : a[i] # 0) /\ CString(a) = SubSeq(a, 1, n)
      \/ \E k \in 1..n : a[k] = 0 /\ (\A j \in 1..(k - 1) : a[j] # 0) /\ CString(a) = SubSeq(a, 1, k - 1)
  BY <1>1, <1>2, StringEnds
<1>5. \/ (\A i \in 1..m : b[i] # 0) /\ CString(b) = SubSeq(b, 1, m)
      \/ \E k \in 1..m : b[k] = 0 /\ (\A j \in 1..(k - 1) : b[j] # 0) /\ CString(b) = SubSeq(b, 1, k - 1)
  BY <1>1, <1>2, StringEnds
<1>6. CASE (\A i \in 1..m : b[i] # 0) /\ CString(b) = SubSeq(b, 1, m)
  <2>1. CString(a) = SubSeq(a, 1, m)
    <3>1. CASE (\A i \in 1..n : a[i] # 0) /\ CString(a) = SubSeq(a, 1, n)
      <4>1. n = m
        <5>1. ~(m < n)
          <6>1. m < n => m + 1 \in 1..n /\ a[m + 1] = 0
            BY <1>1, <1>2, SMT
          <6> QED BY <3>1, <6>1
        <5> QED BY <1>1, <1>2, <5>1, SMT
      <4> QED BY <3>1, <4>1
    <3>2. ASSUME NEW k \in 1..n, a[k] = 0, \A j \in 1..(k - 1) : a[j] # 0, CString(a) = SubSeq(a, 1, k - 1)
          PROVE  CString(a) = SubSeq(a, 1, m)
      <4>1. k = m + 1
        <5>1. k > m
          BY <1>1, <1>2, <1>6, <3>2, SMT
        <5>2. ~(k > m + 1)
          <6>1. k > m + 1 => m + 1 \in 1..(k - 1) /\ m + 1 \in 1..n /\ ~(m + 1 <= m)
            BY <1>1, <1>2, SMT
          <6> QED BY <1>2, <3>2, <6>1
        <5> QED BY <1>1, <5>1, <5>2, SMT
      <4>2. k - 1 = m
        BY <1>1, <4>1, SMT
      <4> QED BY <3>2, <4>2
    <3> QED BY <1>4, <3>1, <3>2
  <2>2. SubSeq(a, 1, m) = SubSeq(b, 1, m)
    <3>1. m + 1 \in 1..(m + 1) /\ (m + 1) - 1 = m
      BY <1>1, SMT
    <3> QED BY <1>3, <3>1
  <2> QED BY <1>6, <2>1, <2>2
<1>7. ASSUME NEW k \in 1..m, b[k] = 0, \A j \in 1..(k - 1) : b[j] # 0, CString(b) = SubSeq(b, 1, k - 1)
      PROVE  CString(a) = CString(b)
  <2>1. k \in 1..n /\ a[k] = 0 /\ \A j \in 1..(k - 1) : a[j] # 0
    BY <1>2, <1>7, SMT
  <2>2. ASSUME NEW i \in 1..n, a[i] = 0, \A j \in 1..(i - 1) : a[j] # 0 PROVE i = k
    <3>1. ~(i < k) /\ ~(k < i)
      BY <2>1, <2>2, SMT
    <3> QED BY <3>1, SMT
  <2>3. CString(a) = SubSeq(a, 1, k - 1)
    BY <1>4, <2>1, <2>2
  <2>4. k \in 1..(m + 1)
    BY <1>1, SMT
  <2> QED BY <1>3, <1>7, <2>3, <2>4
<1> QED BY <1>5, <1>6, <1>7

\* A number of at most k bits, 31 or fewer.
Narrow(m, k) ==
  m \in Nat /\ (k <= 8 => m < 256) /\ (k <= 16 => m < 65536) /\ m \div 16777216 < 256

\* Numbers that fit are written and read as they are.
LEMMA NumberBack ==
  ASSUME NEW m, NEW k, Narrow(m, k), NEW n \in {1, 2, 4}, n = 1 => k <= 8, n = 2 => k <= 16
  PROVE  Number(BigEndian(m, n)) = m /\ Len(BigEndian(m, n)) = n
<1>0. /\ m \in Nat /\ (n = 1 => m < 256) /\ (n = 2 => m < 65536)
      /\ m \div 16777216 < 256
  BY DEF Narrow
<1>1. PICK b : b = BigEndian(m, n)
  OBVIOUS
<1>2. b = [i \in 1..n |-> Low(Shr(m, 8 * (n - i)), 8)]
  BY <1>1 DEF BigEndian
<1>3. Len(b) = n
  <2>1. n \in Nat
    OBVIOUS
  <2>2. Len([i \in 1..n |-> Low(Shr(m, 8 * (n - i)), 8)]) = n
    BY <2>1, SMT
  <2> QED BY <1>2, <2>2
<1>4. ASSUME NEW y PROVE Low(y, 8) = y % 256
  BY Powers DEF Low
<1>5. Shr(m, 0) = m /\ Shr(m, 8) = m \div 256 /\ Shr(m, 16) = m \div 65536 /\ Shr(m, 24) = m \div 16777216
  BY <1>0, Powers, SMT DEF Shr
<1>6. CASE n = 1
  <2>1. b[1] = m % 256
    BY <1>2, <1>4, <1>5, <1>6
  <2>2. m % 256 = m
    BY <1>0, <1>6, SMT
  <2> QED BY <1>1, <1>3, <1>6, <2>1, <2>2 DEF Number
<1>7. CASE n = 2
  <2>1. b[1] = (m \div 256) % 256 /\ b[2] = m % 256
    BY <1>2, <1>4, <1>5, <1>7
  <2>2. ((m \div 256) % 256) * 256 + (m % 256) = m
    BY <1>0, <1>7, SMT
  <2>3. Number(b) = b[1] * 256 + b[2]
    BY <1>3, <1>7 DEF Number
  <2> QED BY <1>1, <1>3, <2>1, <2>2, <2>3
<1>8. CASE n = 4
  <2>1. b[1] = (m \div 16777216) % 256 /\ b[2] = (m \div 65536) % 256 /\ b[3] = (m \div 256) % 256 /\ b[4] = m % 256
    BY <1>2, <1>4, <1>5, <1>8
  <2>2. Number(b) = ((b[1] * 256 + b[2]) * 256 + b[3]) * 256 + b[4]
    BY <1>3, <1>8 DEF Number
  <2>3. PICK q1 \in Nat, q2 \in Nat, q3 \in Nat : q1 = m \div 256 /\ q2 = m \div 65536 /\ q3 = m \div 16777216
    BY <1>0, SMT
  <2>4. q2 = q1 \div 256
    BY <1>0, <2>3, SMT
  <2>5. q3 = q2 \div 256
    BY <1>0, <2>3, SMT
  <2>6. m = q1 * 256 + (m % 256)
    BY <1>0, <2>3, SMT
  <2>7. q1 = q2 * 256 + (q1 % 256) /\ q2 = q3 * 256 + (q2 % 256) /\ q3 % 256 = q3
    BY <1>0, <1>8, <2>3, <2>4, <2>5, SMT
  <2>8. Number(b) = (((q3 % 256) * 256 + (q2 % 256)) * 256 + (q1 % 256)) * 256 + (m % 256)
    BY <2>1, <2>2, <2>3
  <2>9. Number(b) = m
    BY <2>6, <2>7, <2>8, SMT
  <2> QED BY <1>1, <1>3, <1>8, <2>9
<1> QED BY <1>6, <1>7, <1>8

\* What a mask leaves fits.
LEMMA MaskFits ==
  ASSUME NEW v \in Int, NEW k \in 1..31
  PROVE  Narrow(Low(v, k), k)
<1>1. PICK p : p = 2^k
  OBVIOUS
<1>2. p \in Int /\ p > 0
  BY <1>1, MaskPositive
<1>3. PICK m : m = v % p
  OBVIOUS
<1>4. m \in Nat /\ m < p
  BY <1>2, <1>3, SMT
<1>5. Low(v, k) = m
  BY <1>1, <1>3 DEF Low
<1>6. k <= 8 => p <= 256
  <2>1. /\ 2^1 <= 256 /\ 2^2 <= 256 /\ 2^3 <= 256 /\ 2^4 <= 256 /\ 2^5 <= 256 /\ 2^6 <= 256
        /\ 2^7 <= 256 /\ 2^8 <= 256
    BY SMT
  <2>2. k <= 8 => k = 1 \/ k = 2 \/ k = 3 \/ k = 4 \/ k = 5 \/ k = 6 \/ k = 7 \/ k = 8
    BY SMT
  <2> QED BY <1>1, <2>1, <2>2, Zenon
<1>7. k <= 16 => p <= 65536
  <2>1. PICK c : c = 65536
    OBVIOUS
  <2>2. /\ 2^1 <= c /\ 2^2 <= c /\ 2^3 <= c /\ 2^4 <= c /\ 2^5 <= c /\ 2^6 <= c /\ 2^7 <= c /\ 2^8 <= c
        /\ 2^9 <= c /\ 2^10 <= c /\ 2^11 <= c /\ 2^12 <= c /\ 2^13 <= c /\ 2^14 <= c /\ 2^15 <= c /\ 2^16 <= c
    BY <2>1, SMT
  <2>3. k <= 16 => \/ k = 1 \/ k = 2 \/ k = 3 \/ k = 4 \/ k = 5 \/ k = 6 \/ k = 7 \/ k = 8 \/ k = 9
                   \/ k = 10 \/ k = 11 \/ k = 12 \/ k = 13 \/ k = 14 \/ k = 15 \/ k = 16
    BY SMT
  <2>4. k <= 16 => p <= c
    BY <1>1, <2>2, <2>3, Zenon
  <2> QED BY <2>1, <2>4
<1>8. p <= 128 * 16777216
  <2>1. PICK c : c = 128 * 16777216
    OBVIOUS
  <2>2. /\ 2^1 <= c /\ 2^2 <= c /\ 2^3 <= c /\ 2^4 <= c /\ 2^5 <= c /\ 2^6 <= c /\ 2^7 <= c /\ 2^8 <= c
        /\ 2^9 <= c /\ 2^10 <= c /\ 2^11 <= c /\ 2^12 <= c /\ 2^13 <= c /\ 2^14 <= c /\ 2^15 <= c
        /\ 2^16 <= c /\ 2^17 <= c /\ 2^18 <= c /\ 2^19 <= c /\ 2^20 <= c /\ 2^21 <= c /\ 2^22 <= c
        /\ 2^23 <= c /\ 2^24 <= c /\ 2^25 <= c /\ 2^26 <= c /\ 2^27 <= c /\ 2^28 <= c /\ 2^29 <= c
        /\ 2^30 <= c /\ 2^31 <= c
    BY <2>1, SMT
  <2>3. \/ k = 1 \/ k = 2 \/ k = 3 \/ k = 4 \/ k = 5 \/ k = 6 \/ k = 7 \/ k = 8 \/ k = 9 \/ k = 10
        \/ k = 11 \/ k = 12 \/ k = 13 \/ k = 14 \/ k = 15 \/ k = 16 \/ k = 17 \/ k = 18 \/ k = 19
        \/ k = 20 \/ k = 21 \/ k = 22 \/ k = 23 \/ k = 24 \/ k = 25 \/ k = 26 \/ k = 27 \/ k = 28
        \/ k = 29 \/ k = 30 \/ k = 31
    BY SMT
  <2>4. p <= c
    BY <1>1, <2>2, <2>3, Zenon
  <2> QED BY <2>1, <2>4
<1>9. /\ k <= 8 => m < 256
      /\ k <= 16 => m < 65536
      /\ m \div 16777216 < 256
  BY <1>2, <1>4, <1>6, <1>7, <1>8, SMT
<1> QED BY <1>4, <1>5, <1>9 DEF Narrow

\* What clients may write.
Writes(v) ==
  /\ v = Json(v.json, v.value) /\ ValueOK(v)
  /\ v.json = "float" => Len(v.value) = 4

\* The widths of registers.
LEMMA RegisterWidths ==
  ASSUME NEW d \in DescType
  PROVE  /\ d.size \in 1..56 /\ Width(d) \in {1, 2, 4} /\ Length(d) \in 1..7 /\ d.size \div 8 \in 0..7
         /\ Width(d) = 1 => d.size <= 8
         /\ Width(d) = 2 => d.size <= 16
         /\ d.size < 32 /\ d.size \notin 17..24 => Length(d) = Width(d)
<1>1. PICK n \in 1..56 : n = d.size
  BY DEF DescType
<1>2. Width(d) = (IF n <= 8 THEN 1 ELSE IF n <= 16 THEN 2 ELSE 4) /\ Length(d) = (n + 7) \div 8
  BY <1>1 DEF Width, Length
<1>3. (n + 7) \div 8 \in 1..7 /\ n \div 8 \in 0..7
  BY SMT
<1>4. n < 32 /\ n \notin 17..24 => (n + 7) \div 8 = IF n <= 8 THEN 1 ELSE IF n <= 16 THEN 2 ELSE 4
  BY SMT
<1> QED BY <1>1, <1>2, <1>3, <1>4, SMT

\* The answer to set_register that carries a value.
LEMMA SetAnswered ==
  ASSUME NEW d, NEW v, NEW f, f.type = REG_VALUE, NEW p \in Seq(Byte), Tells(f, p),
         SetResult(d, v, f).json \in Values, Conversion(d, v) # "none"
  PROVE  LET a == UpTo(p, 7)
         IN /\ Len(a) >= 1 /\ Len(p) >= 1
            /\ Conversion(d, v) = "integer" => Len(a) = Width(d)
            /\ Conversion(d, v) = "float" => Len(a) = 4
            /\ Conversion(d, v) = "array" => Len(a) = Length(d)
<1>1. PICK a : a = UpTo(p, 7)
  OBVIOUS
<1>2. Len(a) \in Nat /\ Len(a) = (IF Len(p) < 7 THEN Len(p) ELSE 7) /\ Len(p) \in Nat
  <2>1. 7 \in Nat
    OBVIOUS
  <2>2. Len(p) \in Nat
    BY LenProperties
  <2> QED BY <1>1, <2>1, <2>2, UpToSays, Zenon
<1>3. f.dlc = 1 + Len(a) /\ SubSeq(f.data, 2, f.dlc) = a
  BY <1>1 DEF Tells
<1>4. Answer(f) = IF Len(a) >= 1 THEN Json("bytes", a) ELSE Error("MALFORMED_FRAME")
  <2>1. REG_VALUE # COMMAND_ERROR
    BY SMT DEF REG_VALUE, COMMAND_ERROR
  <2>2. PICK n, dlc : n \in Nat /\ n = Len(a) /\ dlc = f.dlc
    BY <1>2
  <2>3. dlc > 1 <=> n >= 1
    BY <1>3, <2>2
  <2>4. f.dlc > 1 <=> Len(a) >= 1
    BY <2>2, <2>3, Zenon
  <2> QED BY <1>3, <2>1, <2>4, Zenon DEF Answer
<1>5. Len(a) >= 1
  <2>1. SUFFICES ASSUME ~(Len(a) >= 1) PROVE FALSE
    OBVIOUS
  <2>2. Answer(f) = Error("MALFORMED_FRAME")
    BY <1>4, <2>1
  <2>3. SetResult(d, v, f).json = "MALFORMED_FRAME"
    BY <2>2 DEF SetResult, Error, Json
  <2> QED BY <2>3 DEF Values
<1>6. Len(p) >= 1
  BY <1>2, <1>5
<1>7. Answer(f) = Json("bytes", a)
  BY <1>4, <1>5
<1>8. Answer(f).json = "bytes" /\ Answer(f).value = a
  BY <1>7 DEF Json
<1>9. \A n, w : Exactly(a, n, w).json \in Values => Len(a) = n
  BY DEF Exactly, Error, Json, Values
<1>10. CASE Conversion(d, v) = "integer"
  <2>1. SetResult(d, v, f) = Exactly(a, Width(d), Integer(Number(UpTo(a, Width(d)))))
    BY <1>8, <1>10 DEF SetResult
  <2> QED BY <1>1, <1>5, <1>6, <1>9, <1>10, <2>1
<1>11. CASE Conversion(d, v) = "float"
  <2>1. SetResult(d, v, f) = Exactly(a, 4, Json("float", a))
    BY <1>8, <1>11 DEF SetResult
  <2> QED BY <1>1, <1>5, <1>6, <1>9, <1>11, <2>1
<1>12. CASE Conversion(d, v) = "array"
  <2>1. SetResult(d, v, f) = Exactly(a, Length(d), Json("array", a))
    BY <1>8, <1>12 DEF SetResult
  <2> QED BY <1>1, <1>5, <1>6, <1>9, <1>12, <2>1
<1> QED BY <1>1, <1>5, <1>6, <1>10, <1>11, <1>12

\* What is left of a number below 2^k is below 2^k.
LEMMA MaskBelow ==
  ASSUME NEW v \in Int, NEW k \in 1..31
  PROVE  2^k \in Int /\ Low(v, k) \in Int /\ Low(v, k) < 2^k
<1>1. PICK p : p = 2^k
  OBVIOUS
<1>2. p \in Int /\ p > 0
  BY <1>1, MaskPositive
<1>3. PICK m : m = v % p
  OBVIOUS
<1>4. m \in Int /\ m < p
  BY <1>2, <1>3, SMT
<1>5. Low(v, k) = m
  BY <1>1, <1>3 DEF Low
<1> QED BY <1>1, <1>2, <1>4, <1>5

\* A number that fits and is not below zero as the register has it is itself.
LEMMA SignedSame ==
  ASSUME NEW d, NEW m \in Int, 2^d.size \in Int, m < 2^d.size,
         d.type = "int" => ~(Signed(d, m) < 0)
  PROVE  Signed(d, m) = m
<1>1. PICK p \in Int : p = 2^d.size
  OBVIOUS
<1>2. m - p < 0
  BY <1>1
<1>3. CASE d.type = "int" /\ m >= 2^(d.size - 1)
  <2>1. Signed(d, m) = m - p
    BY <1>1, <1>3 DEF Signed
  <2> QED BY <1>2, <1>3, <2>1
<1>4. CASE ~(d.type = "int" /\ m >= 2^(d.size - 1))
  BY <1>4 DEF Signed
<1> QED BY <1>3, <1>4

\* What is promised of description d and value v, but for what is read otherwise.
Promised(d, v) == Documented(d, v) /\ ~Misread(d, v)

\* Integral registers of no more than 32 bits, when promised.
LEMMA PromisedSizes ==
  ASSUME NEW d \in DescType, NEW v, Promised(d, v), Integral(d), ~(d.size > 32)
  PROVE  /\ d.size # 32 /\ d.size \notin 17..24 /\ d.size \in 1..31 /\ d.size < 32
         /\ d.type = "int" => ~(Expected(d, v).value[1] < 0)
<1>1. PICK n \in 1..56 : n = d.size
  BY DEF DescType
<1>2. n # 32 /\ ~(n > 32) => n \in 1..31 /\ n < 32
  BY SMT
<1>3. d.size # 32 /\ d.size \notin 17..24
  BY Zenon DEF Promised, Misread
<1>4. d.size \in 1..31 /\ d.size < 32
  BY <1>1, <1>2, <1>3
<1>5. d.type = "int" => ~(Expected(d, v).value[1] < 0)
  BY <1>4, Zenon DEF Promised, Misread
<1> QED BY <1>3, <1>4, <1>5

\* The elements of a byte string.
LEMMA Bytes8 ==
  ASSUME NEW s \in Seq(Byte)
  PROVE  \A i \in 1..Len(s) : s[i] \in 0..255
<1>1. \A i \in 1..Len(s) : s[i] \in Byte
  BY SMT
<1>2. Byte = 0..255
  BY DEF Byte
<1> QED BY <1>1, <1>2

\* One byte, and two, as a number.
LEMMA NumberOf ==
  ASSUME NEW s
  PROVE  /\ Len(s) = 1 => Number(s) = s[1]
         /\ Len(s) = 2 => Number(s) = s[1] * 256 + s[2]
  BY DEF Number

\* One or two bytes make a number that fits.
LEMMA BytesBelow ==
  ASSUME NEW s \in Seq(Byte), NEW k, k = 8 \/ k = 16, Len(s) = (k + 7) \div 8
  PROVE  Number(s) \in Int /\ 2^k \in Int /\ Number(s) < 2^k
<1>1. CASE k = 8
  <2>1. Len(s) = 1
    BY <1>1
  <2>2. s[1] \in 0..255
    <3>1. 1 \in 1..Len(s)
      BY <2>1
    <3>2. \A i \in 1..Len(s) : s[i] \in 0..255
      BY Bytes8, Zenon
    <3> QED BY <3>1, <3>2, Zenon
  <2>3. Number(s) = s[1]
    BY <2>1, NumberOf, Zenon
  <2>4. 2^k = 256
    BY <1>1, Powers
  <2>5. PICK x \in 0..255 : x = s[1]
    BY <2>2
  <2>6. x \in Int /\ x < 256
    BY SMT
  <2> QED BY <2>3, <2>4, <2>5, <2>6
<1>2. CASE k = 16
  <2>1. Len(s) = 2
    BY <1>2
  <2>2. s[1] \in 0..255 /\ s[2] \in 0..255
    <3>1. 1 \in 1..Len(s) /\ 2 \in 1..Len(s)
      BY <2>1
    <3>2. \A i \in 1..Len(s) : s[i] \in 0..255
      BY Bytes8, Zenon
    <3>3. s[1] \in 0..255
      BY <3>1, <3>2, Zenon
    <3>4. s[2] \in 0..255
      BY <3>1, <3>2, Zenon
    <3> QED BY <3>3, <3>4, Zenon
  <2>3. Number(s) = s[1] * 256 + s[2]
    BY <2>1, NumberOf, Zenon
  <2>4. 2^k = 65536
    <3>1. PICK c : c = 65536
      OBVIOUS
    <3>2. 2^16 = c
      BY <3>1, SMT
    <3>3. 2^k = c
      BY <1>2, <3>2, Zenon
    <3> QED BY <3>1, <3>3
  <2>5. PICK x \in 0..255, y \in 0..255 : x = s[1] /\ y = s[2]
    BY <2>2
  <2>6. PICK z, c : z = x * 256 + y /\ c = 65536
    OBVIOUS
  <2>7. z \in Int /\ c \in Int /\ z < c
    BY <2>6, SMT
  <2>8. Number(s) = z
    <3>1. Number(s) = x * 256 + y
      BY <2>3, <2>5
    <3> QED BY <2>6, <3>1
  <2>9. 2^k = c
    BY <2>4, <2>6
  <2> QED BY <2>7, <2>8, <2>9, Zenon
<1> QED BY <1>1, <1>2

\* set_register and get_register: what was written, in whatever form, is what the bytes
\* of the register are read as.
LEMMA WrittenIsRead ==
  ASSUME NEW d \in DescType, NEW v, Writes(v), Conversion(d, v) # "none", NEW b \in SetBytes(d, v),
         NEW p \in Seq(Byte), Took(p, b), NEW f, f.type = REG_VALUE, Tells(f, p),
         SetResult(d, v, f).json \in Values, Promised(d, v)
  PROVE  ReadAs(d, UpTo(p, 7)) = Expected(d, v)
<1>1. PICK a : a = UpTo(p, 7)
  OBVIOUS
<1>2. a \in Seq(Byte) /\ Len(a) \in Nat /\ Len(a) = (IF Len(p) < 7 THEN Len(p) ELSE 7)
      /\ \A i \in 1..Len(a) : a[i] = p[i]
  <2>1. 7 \in Nat
    OBVIOUS
  <2> QED BY <1>1, <2>1, UpToSays, Zenon
<1>3. b \in Seq(Byte)
  BY SetBytesAre DEF Writes
<1>4. /\ Conversion(d, v) = "integer" => Len(a) = Width(d)
      /\ Conversion(d, v) = "float" => Len(a) = 4
      /\ Conversion(d, v) = "array" => Len(a) = Length(d)
  BY <1>1, SetAnswered, Zenon
<1>5. /\ d.size \in 1..56 /\ Width(d) \in {1, 2, 4} /\ Length(d) \in 1..7 /\ d.size \div 8 \in 0..7
      /\ Width(d) = 1 => d.size <= 8
      /\ Width(d) = 2 => d.size <= 16
      /\ d.size < 32 /\ d.size \notin 17..24 => Length(d) = Width(d)
  BY RegisterWidths, Zenon
<1>6. Len(a) = Len(b) => a = b
  BY <1>1, <1>3, ToldWhatWasPut
<1>7. ASSUME NEW n, Len(a) = n PROVE UpTo(a, n) = a
  <2>1. UpTo(a, n) = SubSeq(a, 1, n)
    BY <1>2, <1>7 DEF UpTo
  <2>2. SubSeq(a, 1, Len(a)) = a
    <3>1. PICK s \in Seq(Byte) : s = a
      BY <1>2
    <3>2. SubSeq(s, 1, Len(s)) = s
      BY SMT
    <3> QED BY <3>1, <3>2
  <2> QED BY <1>7, <2>1, <2>2
<1>8. CASE Conversion(d, v) = "integer"
  <2>1. v.json = "integer" /\ d.type # "str" /\ d.size <= 32
    BY <1>8 DEF Conversion
  <2>2. /\ d.size # 32 /\ d.size < 32 /\ d.size \in 1..31
        /\ d.type = "int" => ~(Expected(d, v).value[1] < 0)
    <3>1. Integral(d)
      BY <2>1 DEF Promised, Documented
    <3>2. ~(d.size > 32)
      <4>1. PICK n \in 1..56 : n = d.size
        BY <1>5
      <4>2. n <= 32 => ~(n > 32)
        BY SMT
      <4> QED BY <2>1, <4>1, <4>2
    <3> QED BY <3>1, <3>2, PromisedSizes
  <2>3. PICK x \in Int : x = v.value[1]
    BY <2>1 DEF Writes, ValueOK
  <2>4. PICK m : m = Low(x, d.size)
    OBVIOUS
  <2>5. Narrow(m, d.size)
    <3>1. PICK k \in 1..31 : k = d.size
      BY <2>2
    <3>2. Narrow(Low(x, k), k)
      BY MaskFits
    <3> QED BY <2>4, <3>1, <3>2
  <2>6. b = BigEndian(m, Width(d))
    BY <1>8, <2>2, <2>3, <2>4 DEF SetBytes, Masked
  <2>7. Number(b) = m /\ Len(b) = Width(d)
    <3>1. PICK n, k : n \in {1, 2, 4} /\ n = Width(d) /\ k = d.size
      BY <1>5
    <3>2. Narrow(m, k) /\ (n = 1 => k <= 8) /\ (n = 2 => k <= 16)
      BY <1>5, <2>5, <3>1
    <3>3. Number(BigEndian(m, n)) = m /\ Len(BigEndian(m, n)) = n
      BY <3>1, <3>2, NumberBack
    <3> QED BY <2>6, <3>1, <3>3
  <2>8. a = b
    BY <1>4, <1>6, <1>8, <2>7
  <2>9. ReadAs(d, a) = Integer(Number(UpTo(a, Width(d))))
    <3>1. d.size # 32 /\ ~(d.size > 32)
      <4>1. PICK n \in 1..31 : n = d.size
        BY <2>2
      <4>2. n # 32 /\ ~(n > 32)
        BY SMT
      <4> QED BY <4>1, <4>2
    <3> QED BY <1>4, <1>8, <2>1, <3>1 DEF ReadAs, Exactly
  <2>10. ReadAs(d, a) = Integer(m)
    BY <1>4, <1>7, <1>8, <2>7, <2>8, <2>9
  <2>11. Expected(d, v) = Integer(m)
    <3>1. Expected(d, v) = Integer(Signed(d, m))
      BY <2>1, <2>2, <2>3, <2>4 DEF Expected, Cut
    <3>2. Expected(d, v).value[1] = Signed(d, m)
      BY <3>1 DEF Integer, Json
    <3>3. 2^d.size \in Int /\ m \in Int /\ m < 2^d.size
      BY <2>2, <2>3, <2>4, MaskBelow
    <3>4. Signed(d, m) = m
      BY <2>2, <3>2, <3>3, SignedSame
    <3> QED BY <3>1, <3>4
  <2> QED BY <1>1, <2>10, <2>11
<1>9. CASE Conversion(d, v) = "float"
  <2>1. v.json = "float" /\ d.type = "float"
    BY <1>9 DEF Conversion
  <2>2. d.size = 32
    BY <2>1 DEF Promised, Documented
  <2>3. b = v.value /\ Len(b) = 4
    BY <1>9, <2>1 DEF SetBytes, Writes
  <2>4. a = b
    BY <1>4, <1>6, <1>9, <2>3
  <2>5. ReadAs(d, a) = Json("float", a)
    BY <1>4, <1>9, <2>1, <2>2 DEF ReadAs, Exactly
  <2>6. Expected(d, v) = v /\ v = Json("float", v.value)
    BY <2>1 DEF Expected, Writes
  <2> QED BY <1>1, <2>3, <2>4, <2>5, <2>6
<1>10. CASE Conversion(d, v) = "string"
  <2>1. v.json = "string" /\ d.type = "str"
    BY <1>10 DEF Conversion
  <2>2. b = UpTo(v.value, d.size \div 8)
    BY <1>10 DEF SetBytes
  <2>3. Len(b) \in Nat /\ Len(b) <= 7
    <3>1. v.value \in Seq(Byte)
      BY <2>1 DEF Writes, ValueOK
    <3>2. Len(v.value) \in Nat
      BY <3>1, LenProperties
    <3>3. d.size \div 8 \in Nat
      BY <1>5
    <3>4. Len(b) = IF Len(v.value) < d.size \div 8 THEN Len(v.value) ELSE d.size \div 8
      BY <2>2, <3>1, <3>3, UpToSays, Zenon
    <3> QED BY <1>5, <3>2, <3>4, SMT
  <2>4. CString(a) = CString(b)
    <3>1. CASE Len(a) = Len(b)
      BY <1>6, <3>1
    <3>2. CASE Len(a) # Len(b)
      <4>1. Len(p) \in Nat
        BY LenProperties
      <4>2. p # b
        <5>1. p = b => Len(p) = Len(b)
          OBVIOUS
        <5> QED BY <1>2, <2>3, <3>2, <5>1
      <4>3. Len(b) < Len(p) /\ \A i \in 1..Len(p) : p[i] = IF i <= Len(b) THEN b[i] ELSE 0
        BY <4>2 DEF Took
      <4>4. Len(a) <= 7 /\ Len(b) <= Len(a)
        BY <1>2, <2>3, <4>1, <4>3, SMT
      <4>5. \A i \in 1..Len(a) : i \in 1..Len(p)
        BY <1>2, <4>1, SMT
      <4>6. \A i \in 1..Len(a) : a[i] = IF i <= Len(b) THEN b[i] ELSE 0
        BY <1>2, <4>3, <4>5
      <4> QED BY <1>2, <1>3, <4>4, <4>6, PaddedReads
    <3> QED BY <3>1, <3>2
  <2>5. ReadAs(d, a) = Json("string", CString(a))
    BY <2>1 DEF ReadAs
  <2>6. Expected(d, v) = Json("string", CString(b))
    BY <2>1, <2>2 DEF Expected
  <2> QED BY <1>1, <2>4, <2>5, <2>6
<1>11. CASE Conversion(d, v) = "array"
  <2>1. v.json = "array" /\ Len(v.value) = Length(d)
    BY <1>11 DEF Conversion
  <2>2. b = v.value
    BY <1>11 DEF SetBytes
  <2>3. a = b
    BY <1>4, <1>6, <1>11, <2>1, <2>2
  <2>4. CASE d.type = "str"
    BY <1>1, <2>1, <2>2, <2>3, <2>4 DEF ReadAs, Expected
  <2>5. CASE d.type # "str" /\ d.size > 32
    <3>1. ReadAs(d, a) = Json("array", a)
      BY <1>4, <1>5, <1>11, <2>5 DEF ReadAs, Exactly
    <3>2. Expected(d, v) = v /\ v = Json("array", v.value)
      BY <2>1, <2>5 DEF Expected, Writes
    <3> QED BY <1>1, <2>2, <2>3, <3>1, <3>2
  <2>6. CASE d.type = "float"
    <3>1. d.size = 32 /\ d.type # "str" /\ ~(d.size > 32)
      BY <2>6 DEF Promised, Documented
    <3>2. Length(d) = 4
      BY <3>1, SMT DEF Length
    <3>3. ReadAs(d, a) = Json("float", a)
      BY <1>4, <1>11, <3>1, <3>2 DEF ReadAs, Exactly
    <3>4. Expected(d, v) = Json("float", v.value)
      BY <2>1, <2>6, <3>1 DEF Expected
    <3> QED BY <1>1, <2>2, <2>3, <3>3, <3>4
  <2>7. CASE d.type # "str" /\ d.type # "float" /\ ~(d.size > 32)
    <3>1. Integral(d)
      BY <2>7 DEF Integral, DescType
    <3>2. /\ d.size # 32 /\ d.size \notin 17..24 /\ d.size \in 1..31 /\ d.size < 32
          /\ d.type = "int" => ~(Expected(d, v).value[1] < 0)
      BY <2>7, <3>1, PromisedSizes
    <3>3. Length(d) = Width(d)
      BY <1>5, <3>2
    <3>4. ReadAs(d, a) = Integer(Number(UpTo(a, Width(d))))
      BY <1>4, <1>11, <2>7, <3>2, <3>3 DEF ReadAs, Exactly
    <3>5. UpTo(a, Width(d)) = a
      BY <1>4, <1>7, <1>11, <3>3
    <3>6. Len(v.value) \in {1, 2, 4} /\ Len(v.value) # 3
      BY <1>5, <2>1, <3>3
    <3>7. Expected(d, v) = Integer(Signed(d, Number(v.value)))
      BY <2>1, <2>7, <3>6 DEF Expected
    <3>8. Expected(d, v).value[1] = Signed(d, Number(v.value))
      BY <3>7 DEF Integer, Json
    <3>9. Signed(d, Number(v.value)) = Number(v.value)
      <4>1. CASE d.type # "int"
        BY <4>1 DEF Signed
      <4>2. CASE d.type = "int"
        <5>1. d.size % 8 = 0
          BY <2>1, <4>2 DEF Promised, Documented
        <5>2. PICK k \in 1..31 : k = d.size
          BY <3>2
        <5>3. k = 8 \/ k = 16
          <6>1. k % 8 = 0 /\ k \notin 17..24
            BY <3>2, <5>1, <5>2
          <6> QED BY <6>1, SMT
        <5>4. Len(v.value) = (k + 7) \div 8
          BY <2>1, <5>2 DEF Length
        <5>5. v.value \in Seq(Byte)
          BY <2>1 DEF Writes, ValueOK
        <5>6. Number(v.value) \in Int /\ 2^k \in Int /\ Number(v.value) < 2^k
          BY <5>3, <5>4, <5>5, BytesBelow
        <5> QED BY <3>2, <3>8, <4>2, <5>2, <5>6, SignedSame
      <4> QED BY <4>1, <4>2
    <3> QED BY <1>1, <2>2, <2>3, <3>4, <3>5, <3>7, <3>9
  <2> QED BY <2>4, <2>5, <2>6, <2>7
<1>12. Conversion(d, v) \in {"integer", "float", "string", "array", "none"}
  BY DEF Conversion
<1> QED BY <1>8, <1>9, <1>10, <1>11, <1>12

-----------------------------------------------------------------------------
(* Which frames are on a line. *)

\* No item of q is in S; one is, and that one is in T.
Lacks(q, S) == \A i \in DOMAIN q : q[i] \notin S
HasOne(q, S, T) ==
  \E k \in DOMAIN q : q[k] \in S \cap T /\ \A i \in DOMAIN q : i # k => q[i] \notin S

\* The rest of a line that has none of some frames.
LEMMA TailLacks ==
  ASSUME NEW X, NEW q \in Seq(X), q # <<>>, NEW S, Lacks(q, S)
  PROVE  Head(q) \notin S /\ Lacks(Tail(q), S)
<1>1. \A j \in DOMAIN Tail(q) : \E i \in DOMAIN q : Tail(q)[j] = q[i]
  BY TailPlaces, Zenon
<1>2. 1 \in DOMAIN q /\ Head(q) = q[1]
  BY LenProperties, EmptySeq, SMT
<1> QED BY <1>1, <1>2, Zenon DEF Lacks

\* The rest of a line that has one: the frame at its head may have been it.
LEMMA TailHasOne ==
  ASSUME NEW X, NEW q \in Seq(X), q # <<>>, NEW S, NEW T, HasOne(q, S, T)
  PROVE  /\ Head(q) \in S => Head(q) \in T /\ Lacks(Tail(q), S)
         /\ Head(q) \notin S => HasOne(Tail(q), S, T)
<1>1. /\ Len(q) \in Nat /\ Len(q) >= 1 /\ DOMAIN q = 1..Len(q) /\ Head(q) = q[1]
      /\ Tail(q) \in Seq(X) /\ Len(Tail(q)) = Len(q) - 1
      /\ \A i \in 1..(Len(q) - 1) : Tail(q)[i] = q[i + 1]
  BY LenProperties, HeadTailProperties, EmptySeq, SMT
<1>2. PICK n, t : n \in Nat /\ n = Len(q) /\ t = Tail(q) /\ n >= 1
  BY <1>1
<1>3. DOMAIN q = 1..n /\ DOMAIN t = 1..(n - 1) /\ Head(q) = q[1]
  BY <1>1, <1>2, LenProperties
<1>4. ASSUME NEW j \in 1..(n - 1) PROVE j + 1 \in 1..n /\ j + 1 # 1 /\ t[j] = q[j + 1]
  BY <1>1, <1>2, SMT
<1>5. PICK k \in 1..n : q[k] \in S \cap T /\ \A i \in 1..n : i # k => q[i] \notin S
  BY <1>3, Zenon DEF HasOne
<1>6. CASE k = 1
  <2>1. q[1] \in S /\ q[1] \in T
    BY <1>5, <1>6
  <2>2. ASSUME NEW j \in 1..(n - 1) PROVE t[j] \notin S
    BY <1>4, <1>5, <1>6
  <2> QED BY <1>2, <1>3, <2>1, <2>2, Zenon DEF Lacks
<1>7. CASE k # 1
  <2>1. 1 \in 1..n
    BY <1>2, SMT
  <2>2. q[1] \notin S
    BY <1>5, <1>7, <2>1
  <2>3. k - 1 \in 1..(n - 1) /\ (k - 1) + 1 = k
    BY <1>2, <1>7, SMT
  <2>4. PICK l \in 1..(n - 1) : l + 1 = k
    BY <2>3
  <2>5. t[l] \in S \cap T
    BY <1>4, <1>5, <2>4
  <2>6. ASSUME NEW i \in 1..(n - 1), i # l PROVE t[i] \notin S
    <3>1. i + 1 # k
      BY <2>4, <2>6, SMT
    <3> QED BY <1>4, <1>5, <3>1
  <2>7. HasOne(t, S, T)
    BY <1>3, <2>5, <2>6, Zenon DEF HasOne
  <2> QED BY <1>2, <1>3, <2>2, <2>7, Zenon
<1> QED BY <1>6, <1>7

Appended(z, q, m) ==
  \E n \in Nat : /\ DOMAIN q = 1..n /\ DOMAIN z = 1..(n + 1)
                 /\ (\A i \in 1..n : z[i] = q[i]) /\ z[n + 1] = m

\* A frame is put at the end of a line.
LEMMA AppendPlaces ==
  ASSUME NEW X, NEW q \in Seq(X), NEW m \in X
  PROVE  Appended(q \o <<m>>, q, m)
<1>1. PICK t : t = <<m>>
  OBVIOUS
<1>2. t \in Seq(X) /\ Len(t) = 1 /\ t[1] = m
  BY <1>1
<1>3. PICK z : z = q \o t
  OBVIOUS
<1>4. z \in Seq(X) /\ Len(z) = Len(q) + Len(t)
      /\ \A i \in 1..(Len(q) + Len(t)) : z[i] = IF i <= Len(q) THEN q[i] ELSE t[i - Len(q)]
  BY <1>2, <1>3, ConcatProperties, Zenon
<1>5. PICK n \in Nat : n = Len(q) /\ DOMAIN q = 1..n
  BY LenProperties
<1>6. DOMAIN z = 1..(n + 1)
  BY <1>2, <1>4, <1>5, LenProperties
<1>7. \A i \in 1..n : z[i] = q[i]
  BY <1>2, <1>4, <1>5, SMT
<1>8. z[n + 1] = m
  BY <1>2, <1>4, <1>5, SMT
<1>9. Appended(z, q, m)
  BY <1>5, <1>6, <1>7, <1>8, Zenon DEF Appended
<1> QED BY <1>1, <1>3, <1>9, Zenon

\* The end of a line that had none of some frames may be one.
LEMMA AppendLacks ==
  ASSUME NEW X, NEW q \in Seq(X), NEW m \in X, NEW S, Lacks(q, S)
  PROVE  /\ m \notin S => Lacks(q \o <<m>>, S)
         /\ \A T : m \in S \cap T => HasOne(q \o <<m>>, S, T)
<1>1. PICK z : z = q \o <<m>>
  OBVIOUS
<1>2. PICK n \in Nat : DOMAIN q = 1..n /\ DOMAIN z = 1..(n + 1) /\ (\A i \in 1..n : z[i] = q[i]) /\ z[n + 1] = m
  <2>1. Appended(q \o <<m>>, q, m)
    BY AppendPlaces
  <2>2. Appended(z, q, m)
    BY <1>1, <2>1
  <2> QED BY <2>2, Zenon DEF Appended
<1>3. n + 1 \in 1..(n + 1) /\ \A i \in 1..(n + 1) : i # n + 1 => i \in 1..n
  BY SMT
<1>4. \A i \in 1..(n + 1) : i # n + 1 => z[i] \notin S
  BY <1>2, <1>3, Zenon DEF Lacks
<1>5. m \notin S => Lacks(z, S)
  BY <1>2, <1>4, Zenon DEF Lacks
<1>6. ASSUME NEW T, m \in S \cap T PROVE HasOne(z, S, T)
  BY <1>2, <1>3, <1>4, <1>6, Zenon DEF HasOne
<1> QED BY <1>1, <1>5, <1>6, Zenon

\* The end of a line that has one is none of them.
LEMMA AppendHasOne ==
  ASSUME NEW X, NEW q \in Seq(X), NEW m \in X, NEW S, NEW T, HasOne(q, S, T), m \notin S
  PROVE  HasOne(q \o <<m>>, S, T)
<1>1. PICK z : z = q \o <<m>>
  OBVIOUS
<1>2. PICK n \in Nat : DOMAIN q = 1..n /\ DOMAIN z = 1..(n + 1) /\ (\A i \in 1..n : z[i] = q[i]) /\ z[n + 1] = m
  <2>1. Appended(q \o <<m>>, q, m)
    BY AppendPlaces
  <2>2. Appended(z, q, m)
    BY <1>1, <2>1
  <2> QED BY <2>2, Zenon DEF Appended
<1>3. \A i \in 1..(n + 1) : i # n + 1 => i \in 1..n
  BY SMT
<1>4. \A i \in 1..n : i \in 1..(n + 1)
  BY SMT
<1>5. PICK k \in 1..n : q[k] \in S \cap T /\ \A i \in 1..n : i # k => q[i] \notin S
  BY <1>2, Zenon DEF HasOne
<1>6. k \in 1..(n + 1) /\ z[k] \in S \cap T
  BY <1>2, <1>4, <1>5, Zenon
<1>7. ASSUME NEW i \in 1..(n + 1), i # k PROVE z[i] \notin S
  <2>1. CASE i = n + 1
    BY <1>2, <2>1
  <2>2. CASE i # n + 1
    BY <1>2, <1>3, <1>5, <1>7, <2>2
  <2> QED BY <2>1, <2>2
<1>8. HasOne(z, S, T)
  BY <1>2, <1>6, <1>7, Zenon DEF HasOne
<1> QED BY <1>1, <1>8, Zenon

\* The item that is there may be looked at in another way.
LEMMA HasOneOf ==
  ASSUME NEW q, NEW S, NEW T, NEW T2, HasOne(q, S, T), S \cap T \subseteq T2
  PROVE  HasOne(q, S, T2)
  BY Zenon DEF HasOne

\* A line does not have one and none.
LEMMA LacksOrHasOne ==
  ASSUME NEW q, NEW S, NEW T, HasOne(q, S, T), Lacks(q, S)
  PROVE  FALSE
  BY Zenon DEF HasOne, Lacks

\* An empty line has none.
LEMMA EmptyLacks ==
  ASSUME NEW S
  PROVE  Lacks(<<>>, S) /\ \A T : ~HasOne(<<>>, S, T)
  BY DEF Lacks, HasOne

-----------------------------------------------------------------------------
(* What frames say. *)

\* A frame that carries the number of a register and the bytes after it.
Holds(f, r, bytes) ==
  f.dlc = 1 + Len(bytes) /\ f.data[1] = r /\ SubSeq(f.data, 2, f.dlc) = bytes

\* What one frame has of another.
SaysAs(g, f) ==
  /\ g.type = f.type /\ g.source_id = f.source_id
  /\ is_unicast(f) => g.destination_id = f.destination_id /\ g.seqnum = f.seqnum
  /\ f.dlc >= 1 => g.data[1] = f.data[1]
  /\ \A r, bytes : Holds(f, r, bytes) => Holds(g, r, bytes)

\* What is put into the data of a frame: as much as a frame has room for.
LEMMA FilledSays ==
  ASSUME NEW g \in H9Frames, NEW r \in Byte, NEW bytes \in Seq(Byte)
  PROVE  Holds(WithData(g, <<r>> \o bytes), r, UpTo(bytes, 7))
<1>0. Len(bytes) \in Nat
  BY LenProperties
<1>1. PICK len, s, t : len \in Nat /\ len = Len(bytes) /\ s = <<r>> /\ t = s \o bytes
  BY <1>0
<1>2. s \in Seq(Byte) /\ Len(s) = 1 /\ s[1] = r
  BY <1>1
<1>3. /\ t \in Seq(Byte) /\ Len(t) = 1 + len
      /\ \A i \in 1..(1 + len) : t[i] = IF i <= 1 THEN s[i] ELSE bytes[i - 1]
  <2>1. /\ t \in Seq(Byte) /\ Len(t) = Len(s) + Len(bytes)
        /\ \A i \in 1..(Len(s) + Len(bytes)) : t[i] = IF i <= Len(s) THEN s[i] ELSE bytes[i - Len(s)]
    BY <1>1, <1>2, ConcatProperties, Zenon
  <2> QED BY <1>1, <1>2, <2>1
<1>4. PICK k : k = IF len < 7 THEN len ELSE 7
  OBVIOUS
<1>5. k \in 0..7 /\ k <= len /\ k \in Nat /\ 1 + k = IF 1 + len < 8 THEN 1 + len ELSE 8
  <2>1. PICK m \in Nat : m = len
    BY <1>1
  <2>2. CASE m < 7
    BY <1>4, <2>1, <2>2, SMT
  <2>3. CASE ~(m < 7)
    BY <1>4, <2>1, <2>3, SMT
  <2> QED BY <2>2, <2>3
<1>6. PICK data : data = [i \in 1..8 |-> IF i <= 1 + k THEN t[i] ELSE g.data[i]]
  OBVIOUS
<1>7. PICK h : h = WithData(g, <<r>> \o bytes)
  OBVIOUS
<1>8. h = [g EXCEPT !.dlc = 1 + k, !.data = data]
  <2>1. PICK n : n = IF Len(t) < MAX_DATA_LENGTH THEN Len(t) ELSE MAX_DATA_LENGTH
    OBVIOUS
  <2>2. n = 1 + k
    BY <1>3, <1>5, <2>1 DEF MAX_DATA_LENGTH
  <2>3. h = [g EXCEPT !.dlc = n, !.data = [i \in 1..MAX_DATA_LENGTH |-> IF i <= n THEN t[i] ELSE g.data[i]]]
    BY <1>1, <1>7, <2>1, Zenon DEF WithData
  <2>4. MAX_DATA_LENGTH = 8
    BY DEF MAX_DATA_LENGTH
  <2> QED BY <1>6, <2>2, <2>3, <2>4, Zenon
<1>9. h.dlc = 1 + k /\ h.data = data
  BY <1>8 DEF H9Frames
<1>10. h.data[1] = r
  BY <1>2, <1>3, <1>5, <1>6, <1>9, SMT
<1>11. PICK u : u = UpTo(bytes, 7)
  OBVIOUS
<1>12. u \in Seq(Byte) /\ Len(u) = k /\ \A i \in 1..k : u[i] = bytes[i]
  <2>1. 7 \in Nat
    OBVIOUS
  <2> QED BY <1>1, <1>4, <1>11, <2>1, UpToSays, Zenon
<1>13. u = [i \in 1..k |-> bytes[i]]
  <2>1. u = [i \in DOMAIN u |-> u[i]] /\ DOMAIN u = 1..Len(u)
    BY <1>12, LenProperties, SeqDef
  <2> QED BY <1>12, <2>1
<1>14. SubSeq(data, 2, 1 + k) = [i \in 1..k |-> data[i + 1]]
  BY <1>5, <1>6, SMT
<1>15. \A i \in 1..k : data[i + 1] = bytes[i]
  <2>1. SUFFICES ASSUME NEW i \in 1..k PROVE data[i + 1] = bytes[i]
    OBVIOUS
  <2>2. PICK j : j = i + 1
    OBVIOUS
  <2>3. j \in 1..8 /\ j \in 1..(1 + len) /\ j <= 1 + k /\ ~(j <= 1) /\ j - 1 = i
    BY <1>1, <1>5, <2>2, SMT
  <2>4. data[j] = t[j]
    BY <1>6, <2>3, Zenon
  <2>5. t[j] = bytes[j - 1]
    BY <1>3, <2>3, Zenon
  <2> QED BY <2>2, <2>3, <2>4, <2>5, Zenon
<1>16. SubSeq(h.data, 2, h.dlc) = u
  BY <1>9, <1>13, <1>14, <1>15
<1>17. Holds(h, r, u)
  BY <1>9, <1>10, <1>12, <1>16 DEF Holds
<1> QED BY <1>7, <1>11, <1>17

\* Both ends of a line.
LEMMA MeaningSays ==
  ASSUME NEW f \in FitFrames, NEW g \in FitFrames, Meaning(g) = Meaning(f)
  PROVE  SaysAs(g, f)
<1>1. ASSUME NEW h
      PROVE  /\ Meaning(h).type = h.type /\ Meaning(h).source_id = h.source_id
             /\ Meaning(h).dlc = h.dlc /\ Meaning(h).data = SubSeq(h.data, 1, h.dlc)
  BY DEF Meaning, to_json
<1>2. ASSUME NEW h, is_unicast(h)
      PROVE  Meaning(h).destination_id = h.destination_id /\ Meaning(h).seqnum = h.seqnum
  BY <1>2 DEF Meaning, to_json
<1>3. /\ g.type = f.type /\ g.source_id = f.source_id /\ g.dlc = f.dlc
      /\ SubSeq(g.data, 1, g.dlc) = SubSeq(f.data, 1, f.dlc)
  BY <1>1, Zenon
<1>4. is_unicast(f) <=> is_unicast(g)
  BY <1>3 DEF is_unicast
<1>5. is_unicast(f) => g.destination_id = f.destination_id /\ g.seqnum = f.seqnum
  BY <1>2, <1>4, Zenon
<1>6. PICK n, a, b : n = f.dlc /\ a = f.data /\ b = g.data
  OBVIOUS
<1>7. n \in 0..8 /\ a \in [1..8 -> 0..255] /\ b \in [1..8 -> 0..255]
  BY <1>6, FitBytes, Zenon
<1>8. SubSeq(b, 1, n) = SubSeq(a, 1, n)
  BY <1>3, <1>6
<1>9. ASSUME NEW i \in 1..n PROVE b[i] = a[i]
  <2>1. SubSeq(a, 1, n)[i] = a[i] /\ SubSeq(b, 1, n)[i] = b[i]
    BY <1>7, <1>9, SMT
  <2> QED BY <1>8, <2>1
<1>10. n >= 1 => b[1] = a[1]
  <2>1. n >= 1 => 1 \in 1..n
    BY <1>7, SMT
  <2> QED BY <1>9, <2>1
<1>11. SubSeq(b, 2, n) = SubSeq(a, 2, n)
  <2>1. SubSeq(a, 2, n) = [i \in 1..(n - 1) |-> a[i + 1]] /\ SubSeq(b, 2, n) = [i \in 1..(n - 1) |-> b[i + 1]]
    BY <1>7, SMT
  <2>2. \A i \in 1..(n - 1) : i + 1 \in 1..n
    BY <1>7, SMT
  <2> QED BY <1>9, <2>1, <2>2
<1>12. ASSUME NEW r, NEW bytes, Holds(f, r, bytes) PROVE Holds(g, r, bytes)
  <2>1. n = 1 + Len(bytes) /\ a[1] = r /\ SubSeq(a, 2, n) = bytes
    BY <1>6, <1>12 DEF Holds
  <2>2. n >= 1
    <3>1. bytes \in Seq(0..255)
      <4>1. SubSeq(a, 2, n) \in Seq(Byte)
        BY <1>7, DataPart
      <4> QED BY <2>1, <4>1 DEF Byte
    <3>2. Len(bytes) \in Nat
      BY <3>1, LenProperties
    <3> QED BY <2>1, <3>2, SMT
  <2> QED BY <1>3, <1>6, <1>10, <1>11, <2>1, <2>2 DEF Holds
<1> QED BY <1>3, <1>5, <1>6, <1>10, <1>12, Zenon DEF SaysAs

\* The other end of a line reads what was sent.
LEMMA ItemSays ==
  ASSUME NEW m \in Items
  PROVE  SaysAs(m.got, m.sent) /\ m.sent \in FitFrames /\ m.got \in FitFrames
<1>1. m.sent \in FitFrames /\ m.got \in FitFrames /\ Meaning(m.got) = Meaning(m.sent)
  BY DEF Items
<1> QED BY <1>1, MeaningSays, Zenon

\* send_frame: the frame a client gives, after JSON.
LEMMA ClientSays ==
  ASSUME NEW f \in FitFrames, NEW x \in Garbage
  PROVE  SaysAs(from_json(Blank(x), to_json(f)), f)
<1>1. Blank(x) \in H9Frames
  BY BlankFrame, VirtualAssumption
<1>2. PICK g : g = Carried("h9d", Blank(x), f)
  OBVIOUS
<1>3. g \in FitFrames /\ Meaning(g) = Meaning(f)
  BY <1>1, <1>2, FramesCarried DEF Drivers
<1>4. g = from_json(Blank(x), to_json(f))
  BY <1>2 DEF Carried, h9d_recv, h9d_send, Datagram
<1> QED BY <1>3, <1>4, MeaningSays, Zenon

\* The constructor for one node.
LEMMA UnicastSays ==
  ASSUME NEW old \in H9Frames, NEW type \in Byte, NEW flags \in Byte, NEW dst \in Byte,
         NEW r \in Byte, NEW bytes \in Seq(Byte)
  PROVE  Holds(Unicast(old, type, flags, dst, <<r>> \o bytes), r, UpTo(bytes, 7))
<1>1. PICK g : g = [old EXCEPT !.type = type, !.flags = flags, !.destination_id = dst]
  OBVIOUS
<1>2. g \in H9Frames
  BY <1>1 DEF H9Frames
<1>3. Unicast(old, type, flags, dst, <<r>> \o bytes) = WithData(g, <<r>> \o bytes)
  BY <1>1 DEF Unicast
<1> QED BY <1>2, <1>3, FilledSays

\* What Bus::recv_thread_send puts in.
LEMMA StampSays ==
  ASSUME NEW f \in H9Frames, NEW raw \in BOOLEAN
  PROVE  /\ Stamped(f, raw).type = f.type
         /\ Stamped(f, raw).destination_id = f.destination_id
         /\ Stamped(f, raw).source_id = IF raw THEN f.source_id ELSE BusId
         /\ ~raw /\ f.type \in Numbered => Stamped(f, raw).seqnum = next_seqnum
         /\ \A r, bytes : Holds(f, r, bytes) => Holds(Stamped(f, raw), r, bytes)
<1>1. PICK h : h = Stamped(f, raw)
  OBVIOUS
<1>2. CASE raw
  BY <1>2 DEF Stamped
<1>3. CASE ~raw
  <2>1. h = [f EXCEPT !.source_id = BusId, !.seqnum = IF f.type \in Numbered THEN next_seqnum ELSE @]
    BY <1>1, <1>3 DEF Stamped
  <2>2. /\ h.type = f.type /\ h.destination_id = f.destination_id /\ h.source_id = BusId
        /\ h.dlc = f.dlc /\ h.data = f.data
        /\ f.type \in Numbered => h.seqnum = next_seqnum
    BY <2>1 DEF H9Frames
  <2>3. \A r, bytes : Holds(f, r, bytes) => Holds(h, r, bytes)
    BY <2>2, Zenon DEF Holds
  <2> QED BY <1>1, <1>3, <2>2, <2>3, Zenon
<1> QED BY <1>2, <1>3

-----------------------------------------------------------------------------
(* A request on its way to the real node, and its answer. *)

\* What is on the bus for the node, and what it answers.
PeersItems == {m \in Items : is_unicast(m.got) /\ m.got.destination_id = PeerId}
AnswerItems ==
  {m \in Items : m.got.source_id = PeerId /\ m.got.type \in {COMMAND_ERROR, REG_VALUE, NODE_TURNED_ON}}

\* Registers p of the node read as what history w says was written, but for some.
Keeps(p, w, but) ==
  \A r \in DOMAIN w \ but :
    /\ r \in DOMAIN p /\ Len(p[r]) >= 1
    /\ Promised(w[r].dsc, w[r].value) => ReadAs(w[r].dsc, UpTo(p[r], 7)) = Expected(w[r].dsc, w[r].value)

\* The request that is waiting: the node and the register it is about, and the number
\* of its frame.
Ticket ==
  [method |-> request.method, id |-> Target, reg |-> TargetReg, value |-> request.value,
   seq |-> seqnum,
   dsc |-> IF request.method = "set_register_value" THEN nodes[PeerId].regs[request.reg] ELSE 0]

\* Frame f is the one request t sends.
Asked(t, f) ==
  /\ t.id = PeerId /\ f.seqnum = t.seq
  /\ \/ t.method = "node_reset" /\ f.type = NODE_RESET
     \/ /\ t.method # "node_reset" /\ f.type \in {GET_REG, SET_REG, SET_BIT, CLEAR_BIT}
        /\ t.method = "get_register_value" <=> f.type = GET_REG
        /\ t.method = "set_register_value" => f.type = SET_REG
        /\ \E b : Holds(f, t.reg, b) /\ (t.method = "set_register_value" => b \in SetBytes(t.dsc, t.value))

\* Frame f is an answer to it, of the node as it is now.
Told(t, p, w, f) ==
  /\ t.id = PeerId
  /\ \/ t.method = "node_reset" /\ f.type = NODE_TURNED_ON
     \/ /\ f.type = COMMAND_ERROR /\ f.seqnum = t.seq /\ Keeps(p, w, {})
        /\ t.method = "get_register_value" => t.reg \notin DOMAIN p
     \/ /\ t.method # "node_reset" /\ f.type = REG_VALUE /\ f.seqnum = t.seq
        /\ t.reg \in DOMAIN p /\ Holds(f, t.reg, UpTo(p[t.reg], 7))
        /\ t.method = "set_register_value" => \E b \in SetBytes(t.dsc, t.value) : Took(p[t.reg], b)
        /\ Keeps(p, w, IF t.method = "get_register_value" THEN {} ELSE {t.reg})

AskedItems(t) == {m \in Items : Asked(t, m.got)}
ToldItems(t, p, w) == {m \in Items : Told(t, p, w, m.got)}

\* A request is read as the one that was sent.
LEMMA AskedRead ==
  ASSUME NEW t, NEW m \in Items, is_unicast(m.sent), Asked(t, m.sent)
  PROVE  m \in AskedItems(t)
<1>1. PICK f, g : f = m.sent /\ g = m.got
  OBVIOUS
<1>2. SaysAs(g, f)
  BY <1>1, ItemSays, Zenon
<1>3. /\ g.type = f.type /\ g.seqnum = f.seqnum
      /\ \A r, bytes : Holds(f, r, bytes) => Holds(g, r, bytes)
  BY <1>1, <1>2, Zenon DEF SaysAs
<1>4. Asked(t, f)
  BY <1>1, Zenon
<1>5. Asked(t, g)
  BY <1>3, <1>4, Zenon DEF Asked
<1> QED BY <1>1, <1>5, Zenon DEF AskedItems

\* An answer is read as the one that was sent.
LEMMA ToldRead ==
  ASSUME NEW t, NEW p, NEW w, NEW m \in Items, Told(t, p, w, m.sent)
  PROVE  m \in ToldItems(t, p, w)
<1>1. PICK f, g : f = m.sent /\ g = m.got
  OBVIOUS
<1>2. SaysAs(g, f)
  BY <1>1, ItemSays, Zenon
<1>3. /\ g.type = f.type /\ (is_unicast(f) => g.seqnum = f.seqnum)
      /\ \A r, bytes : Holds(f, r, bytes) => Holds(g, r, bytes)
  BY <1>1, <1>2, Zenon DEF SaysAs
<1>4. f.type \in {COMMAND_ERROR, REG_VALUE} => is_unicast(f)
  BY SMT DEF is_unicast, COMMAND_ERROR, REG_VALUE, DISCOVER
<1>5. f.type = COMMAND_ERROR \/ f.type = REG_VALUE => g.seqnum = f.seqnum
  BY <1>3, <1>4
<1>6. Told(t, p, w, f)
  BY <1>1, Zenon
<1>7. Told(t, p, w, g)
  BY <1>3, <1>5, <1>6, Zenon DEF Told
<1> QED BY <1>1, <1>7, Zenon DEF ToldItems

\* What is for the node at one end of a line is at the other.
LEMMA PeersRead ==
  ASSUME NEW m \in Items
  PROVE  m \in PeersItems <=> is_unicast(m.sent) /\ m.sent.destination_id = PeerId
<1>1. PICK f, g : f = m.sent /\ g = m.got
  OBVIOUS
<1>2. SaysAs(g, f)
  BY <1>1, ItemSays, Zenon
<1>3. is_unicast(f) <=> is_unicast(g)
  BY <1>2 DEF SaysAs, is_unicast
<1>4. is_unicast(f) => g.destination_id = f.destination_id
  BY <1>2, Zenon DEF SaysAs
<1> QED BY <1>1, <1>3, <1>4 DEF PeersItems

\* An answer is known at both ends of the line.
LEMMA AnswersRead ==
  ASSUME NEW m \in Items
  PROVE  m \in AnswerItems <=> m.sent.source_id = PeerId /\ m.sent.type \in {COMMAND_ERROR, REG_VALUE, NODE_TURNED_ON}
<1>1. m.got.type = m.sent.type /\ m.got.source_id = m.sent.source_id
  BY ItemFields
<1> QED BY <1>1 DEF AnswerItems

\* The answer of the node carries the number of the call and the bytes.
LEMMA ReplyHolds ==
  ASSUME NEW f \in FitFrames, NEW type \in {REG_VALUE, COMMAND_ERROR}, NEW r \in Byte, NEW bytes \in Seq(Byte)
  PROVE  LET g == PeerReply(f, type, <<r>> \o bytes)
         IN g.type = type /\ g.source_id = PeerId /\ g.seqnum = f.seqnum /\ Holds(g, r, UpTo(bytes, 7))
<1>1. Blank(0) \in H9Frames
  BY ZeroWord, BlankFrame
<1>2. f.source_id \in Byte /\ type \in Byte /\ 0 \in Byte
  <2>1. type \in Byte /\ 0 \in Byte
    BY SMT DEF REG_VALUE, COMMAND_ERROR, Byte
  <2> QED BY <2>1, FitBytes, Zenon
<1>3. PICK dst \in Byte, zero \in Byte, ty \in Byte : dst = f.source_id /\ zero = 0 /\ ty = type
  BY <1>2, Zenon
<1>4. PICK h : h = Unicast(Blank(0), ty, zero, dst, <<r>> \o bytes)
  OBVIOUS
<1>5. Holds(h, r, UpTo(bytes, 7))
  BY <1>1, <1>4, UnicastSays
<1>6. PICK k : k = [h EXCEPT !.seqnum = f.seqnum, !.source_id = PeerId]
  OBVIOUS
<1>7. k = PeerReply(f, type, <<r>> \o bytes)
  BY <1>3, <1>4, <1>6, Zenon DEF PeerReply
<1>8. DOMAIN h = {"type", "source_id", "flags", "destination_id", "seqnum", "dlc", "data", "group"} /\ h.type = type
  <2>1. h = WithData([Blank(0) EXCEPT !.type = type, !.flags = 0, !.destination_id = dst], <<r>> \o bytes)
    BY <1>3, <1>4, Zenon DEF Unicast
  <2> QED BY <2>1 DEF WithData, Blank
<1>9. /\ k.seqnum = f.seqnum /\ k.source_id = PeerId /\ k.type = h.type /\ k.dlc = h.dlc /\ k.data = h.data
  BY <1>6, <1>8
<1>10. Holds(k, r, UpTo(bytes, 7))
  BY <1>5, <1>9, Zenon DEF Holds
<1> QED BY <1>7, <1>8, <1>9, <1>10, Zenon

\* What the node makes of a request: an error and nothing else, a reset, or the value
\* its register then has.
PeerErrs(f, o) ==
  /\ o.regs = peer /\ (f.type = GET_REG => f.data[1] \notin DOMAIN peer)
  /\ \E code \in Byte : o.sent = <<PeerReply(f, COMMAND_ERROR, <<code>>)>>
PeerResets(o) == o.regs = PeerRegs /\ o.sent = <<PeerInfo(NODE_TURNED_ON)>>
PeerTells(f, o) ==
  /\ f.data[1] \in DOMAIN peer
  /\ \E b \in Seq(Byte) :
       /\ o.regs = [peer EXCEPT ![f.data[1]] = b]
       /\ o.sent = <<PeerReply(f, REG_VALUE, <<f.data[1]>> \o b)>>
       /\ f.type = GET_REG => b = peer[f.data[1]]
       /\ f.type = SET_REG => Took(b, SubSeq(f.data, 2, f.dlc))

\* What the node does with a request: an error, a reset, or a value.
LEMMA PeerDoes ==
  ASSUME peer \in Contents, NEW f \in FitFrames, is_unicast(f), f.destination_id = PeerId,
         f.type \in {NODE_RESET, GET_REG, SET_REG, SET_BIT, CLEAR_BIT}
  PROVE  IF f.type = NODE_RESET THEN PeerResets(PeerOutcome(f))
         ELSE PeerErrs(f, PeerOutcome(f)) \/ PeerTells(f, PeerOutcome(f))
<1>1. PICK r, value, o : r = f.data[1] /\ value = SubSeq(f.data, 2, f.dlc) /\ o = PeerOutcome(f)
  OBVIOUS
<1>2. value \in Seq(Byte)
  BY <1>1, FitBytes, DataPart
<1>3. f.type # DISCOVER
  BY SMT DEF is_unicast, DISCOVER
<1>4. /\ GET_REG # NODE_RESET /\ SET_REG # NODE_RESET /\ SET_BIT # NODE_RESET /\ CLEAR_BIT # NODE_RESET
      /\ GET_REG # SET_REG /\ GET_REG \notin {SET_BIT, CLEAR_BIT} /\ SET_REG \notin {SET_BIT, CLEAR_BIT}
  BY SMT DEF GET_REG, SET_REG, SET_BIT, CLEAR_BIT, NODE_RESET
<1>5. INVALID_REGISTER \in Byte /\ REGISTER_SIZE_MISMATCH \in Byte
  BY SMT DEF INVALID_REGISTER, REGISTER_SIZE_MISMATCH, Byte
<1> DEFINE Now(bytes) == [regs |-> [peer EXCEPT ![r] = bytes], sent |-> <<PeerReply(f, REG_VALUE, <<r>> \o bytes)>>]
           Same1(frame) == [regs |-> peer, sent |-> <<frame>>]
           reset == [regs |-> PeerRegs, sent |-> <<PeerInfo(NODE_TURNED_ON)>>]
<1>6. /\ f.type = NODE_RESET => o = reset
      /\ f.type # NODE_RESET /\ r \notin DOMAIN peer => o = Same1(PeerReply(f, COMMAND_ERROR, <<INVALID_REGISTER>>))
      /\ r \in DOMAIN peer /\ f.type = GET_REG => o = Now(peer[r])
      /\ r \in DOMAIN peer /\ f.type = SET_REG =>
           o = IF r \in PeerStrings /\ Len(value) < Len(peer[r]) THEN Now(Padded(r, value))
               ELSE IF Len(value) = Len(peer[r]) THEN Now(value)
               ELSE Same1(PeerReply(f, COMMAND_ERROR, <<REGISTER_SIZE_MISMATCH>>))
      /\ r \in DOMAIN peer /\ f.type \in {SET_BIT, CLEAR_BIT} => o = Now(WithBit(f, peer[r]))
  <2> DEFINE mine == is_unicast(f) /\ f.destination_id = PeerId
             known == r \in DOMAIN peer
  <2>1. PeerOutcome(f) =
      CASE f.type = DISCOVER                         -> Same1(PeerInfo(NODE_INFO))
        [] mine /\ f.type = NODE_RESET               -> reset
        [] mine /\ f.type # NODE_RESET /\ ~known     -> Same1(PeerReply(f, COMMAND_ERROR, <<INVALID_REGISTER>>))
        [] mine /\ known /\ f.type = GET_REG         -> Now(peer[r])
        [] mine /\ known /\ f.type = SET_REG ->
             IF r \in PeerStrings /\ Len(value) < Len(peer[r]) THEN Now(Padded(r, value))
             ELSE IF Len(value) = Len(peer[r]) THEN Now(value)
             ELSE Same1(PeerReply(f, COMMAND_ERROR, <<REGISTER_SIZE_MISMATCH>>))
        [] mine /\ known /\ f.type \in {SET_BIT, CLEAR_BIT} -> Now(WithBit(f, peer[r]))
        [] OTHER                                     -> [regs |-> peer, sent |-> <<>>]
    BY <1>1 DEF PeerOutcome
  <2>2. mine
    OBVIOUS
  <2> HIDE DEF Now, Same1, mine, reset
  <2> QED BY <1>1, <1>3, <1>4, <2>1, <2>2
<1>7. ASSUME NEW code \in Byte, o = Same1(PeerReply(f, COMMAND_ERROR, <<code>>)), f.type = GET_REG => r \notin DOMAIN peer
      PROVE  PeerErrs(f, o)
  <2>1. o.regs = peer /\ o.sent = <<PeerReply(f, COMMAND_ERROR, <<code>>)>>
    BY <1>7
  <2> QED BY <1>1, <1>7, <2>1, Zenon DEF PeerErrs
<1>8. ASSUME NEW b \in Seq(Byte), o = Now(b), r \in DOMAIN peer, f.type = GET_REG => b = peer[r],
             f.type = SET_REG => Took(b, value)
      PROVE  PeerTells(f, o)
  <2>1. o.regs = [peer EXCEPT ![r] = b] /\ o.sent = <<PeerReply(f, REG_VALUE, <<r>> \o b)>>
    BY <1>8
  <2> QED BY <1>1, <1>8, <2>1, Zenon DEF PeerTells
<1>9. ASSUME r \in DOMAIN peer
      PROVE  /\ r \in DOMAIN PeerRegs /\ peer[r] \in Seq(Byte) /\ Len(peer[r]) = Len(PeerRegs[r])
             /\ WithBit(f, peer[r]) \in Seq(Byte)
             /\ Padded(r, value) \in Seq(Byte) /\ Len(Padded(r, value)) = Len(PeerRegs[r])
  <2>1. r \in DOMAIN PeerRegs /\ peer[r] \in Seq(Byte) /\ Len(peer[r]) = Len(PeerRegs[r])
    BY <1>9 DEF Contents
  <2>2. WithBit(f, peer[r]) \in Seq(Byte)
    BY <2>1, WithBitBytes
  <2>3. Padded(r, value) \in Seq(Byte) /\ Len(Padded(r, value)) = Len(PeerRegs[r])
    BY <1>2, <2>1, PaddedBytes
  <2> QED BY <2>1, <2>2, <2>3
<1>10. ASSUME r \in DOMAIN peer, Len(value) < Len(peer[r])
       PROVE  Took(Padded(r, value), value)
  <2>1. PICK n, t : n = Len(PeerRegs[r]) /\ t = Padded(r, value)
    OBVIOUS
  <2>2. r \in DOMAIN PeerRegs /\ Len(peer[r]) = n /\ Len(t) = n
    BY <1>9, <1>10, <2>1
  <2>3. n \in Nat /\ DOMAIN PeerRegs[r] = 1..n
    BY <2>1, <2>2, ContentsAssumption, LenProperties
  <2>4. \A i \in 1..n : t[i] = IF i <= Len(value) THEN value[i] ELSE 0
    BY <2>1, <2>3 DEF Padded
  <2> QED BY <1>10, <2>1, <2>2, <2>4 DEF Took
<1>11. Took(value, value)
  BY DEF Took
<1>12. CASE f.type = NODE_RESET
  <2>1. o.regs = PeerRegs /\ o.sent = <<PeerInfo(NODE_TURNED_ON)>>
    BY <1>6, <1>12
  <2> QED BY <1>1, <1>12, <2>1, Zenon DEF PeerResets
<1> HIDE DEF Now, Same1, reset
<1>13. CASE f.type # NODE_RESET /\ r \notin DOMAIN peer
  BY <1>1, <1>5, <1>6, <1>7, <1>13, Zenon
<1>14. CASE f.type = GET_REG /\ r \in DOMAIN peer
  BY <1>1, <1>4, <1>6, <1>8, <1>9, <1>14, Zenon
<1>15. CASE f.type = SET_REG /\ r \in DOMAIN peer
  <2>1. CASE r \in PeerStrings /\ Len(value) < Len(peer[r])
    <3>1. o = Now(Padded(r, value))
      BY <1>6, <1>15, <2>1, Zenon
    <3> QED BY <1>1, <1>4, <1>8, <1>9, <1>10, <1>15, <2>1, <3>1, Zenon
  <2>2. CASE ~(r \in PeerStrings /\ Len(value) < Len(peer[r])) /\ Len(value) = Len(peer[r])
    <3>1. o = Now(value)
      BY <1>6, <1>15, <2>2, Zenon
    <3> QED BY <1>1, <1>2, <1>4, <1>8, <1>11, <1>15, <3>1, Zenon
  <2>3. CASE ~(r \in PeerStrings /\ Len(value) < Len(peer[r])) /\ Len(value) # Len(peer[r])
    <3>1. o = Same1(PeerReply(f, COMMAND_ERROR, <<REGISTER_SIZE_MISMATCH>>))
      BY <1>6, <1>15, <2>3, Zenon
    <3> QED BY <1>1, <1>4, <1>5, <1>7, <1>15, <3>1, Zenon
  <2> QED BY <2>1, <2>2, <2>3, Zenon
<1>16. CASE f.type \in {SET_BIT, CLEAR_BIT} /\ r \in DOMAIN peer
  <2>1. o = Now(WithBit(f, peer[r])) /\ f.type # GET_REG /\ f.type # SET_REG /\ f.type # NODE_RESET
    BY <1>4, <1>6, <1>16
  <2> QED BY <1>1, <1>8, <1>9, <1>16, <2>1, Zenon
<1> QED BY <1>12, <1>13, <1>14, <1>15, <1>16

-----------------------------------------------------------------------------
(* The node's turn. *)

\* The request is not on the bus; it is, and unanswered; it is answered.
Resting(p, w, d, u) == Lacks(d, PeersItems) /\ Lacks(u, AnswerItems) /\ Keeps(p, w, {})
Asking(t, p, w, d, u) ==
  HasOne(d, PeersItems, AskedItems(t)) /\ Lacks(u, AnswerItems) /\ Keeps(p, w, {})
Answering(t, p, w, d, u) == Lacks(d, PeersItems) /\ HasOne(u, AnswerItems, ToldItems(t, p, w))

\* A register is changed, and only that one.
LEMMA KeepsOthers ==
  ASSUME peer \in Contents, NEW r \in DOMAIN peer, NEW b, NEW w, Keeps(peer, w, {})
  PROVE  Keeps([peer EXCEPT ![r] = b], w, {r})
<1>1. PICK p : p = [peer EXCEPT ![r] = b]
  OBVIOUS
<1>2. DOMAIN p = DOMAIN peer /\ \A q \in DOMAIN peer : q # r => p[q] = peer[q]
  BY <1>1 DEF Contents
<1>3. \A q \in DOMAIN w \ {r} : q \in DOMAIN peer => q \in DOMAIN p /\ p[q] = peer[q]
  BY <1>2
<1>4. Keeps(p, w, {r})
  BY <1>3, Zenon DEF Keeps
<1> QED BY <1>1, <1>4

\* The node answers the request.
LEMMA AskedTold ==
  ASSUME peer \in Contents, NEW f \in FitFrames, is_unicast(f), f.destination_id = PeerId,
         NEW t, NEW w, Asked(t, f), Keeps(peer, w, {}), NEW o, o = PeerOutcome(f)
  PROVE  \E g : /\ o.sent = <<g>> /\ g.source_id = PeerId
                /\ g.type \in {COMMAND_ERROR, REG_VALUE, NODE_TURNED_ON} /\ Told(t, o.regs, w, g)
<1>1. /\ GET_REG # NODE_RESET /\ SET_REG # NODE_RESET /\ SET_BIT # NODE_RESET /\ CLEAR_BIT # NODE_RESET
      /\ NODE_TURNED_ON \in {NODE_INFO, NODE_TURNED_ON} /\ COMMAND_ERROR \in {REG_VALUE, COMMAND_ERROR}
      /\ REG_VALUE \in {REG_VALUE, COMMAND_ERROR}
  BY SMT DEF GET_REG, SET_REG, SET_BIT, CLEAR_BIT, NODE_RESET
<1>2. /\ f.type \in {NODE_RESET, GET_REG, SET_REG, SET_BIT, CLEAR_BIT} /\ t.id = PeerId /\ f.seqnum = t.seq
      /\ t.method = "node_reset" <=> f.type = NODE_RESET
  BY <1>1 DEF Asked
<1>3. IF f.type = NODE_RESET THEN PeerResets(o) ELSE PeerErrs(f, o) \/ PeerTells(f, o)
  BY <1>2, PeerDoes
<1>4. CASE PeerResets(o) /\ f.type = NODE_RESET
  <2>1. PICK g : g = PeerInfo(NODE_TURNED_ON)
    OBVIOUS
  <2>2. g.type = NODE_TURNED_ON /\ g.source_id = PeerId
    BY <1>1, <2>1, PeerInfoSays, Zenon
  <2>3. Told(t, o.regs, w, g)
    BY <1>2, <1>4, <2>2 DEF Told
  <2> QED BY <1>4, <2>1, <2>2, <2>3 DEF PeerResets
<1>5. ASSUME f.type # NODE_RESET
      PROVE  /\ f.type = GET_REG <=> t.method = "get_register_value"
             /\ t.method = "set_register_value" => f.type = SET_REG
             /\ \E b : Holds(f, t.reg, b) /\ (t.method = "set_register_value" => b \in SetBytes(t.dsc, t.value))
  BY <1>2, <1>5, Zenon DEF Asked
<1>6. CASE PeerErrs(f, o) /\ f.type # NODE_RESET
  <2>1. PICK code \in Byte : o.sent = <<PeerReply(f, COMMAND_ERROR, <<code>>)>>
    BY <1>6 DEF PeerErrs
  <2>2. PICK g : g = PeerReply(f, COMMAND_ERROR, <<code>>)
    OBVIOUS
  <2>3. g.type = COMMAND_ERROR /\ g.source_id = PeerId /\ g.seqnum = f.seqnum
    BY <1>1, <2>2, PeerReplySays, Zenon
  <2>4. o.regs = peer /\ (f.type = GET_REG => f.data[1] \notin DOMAIN peer)
    BY <1>6 DEF PeerErrs
  <2>5. f.data[1] = t.reg
    BY <1>5, <1>6 DEF Holds
  <2>6. Told(t, o.regs, w, g)
    BY <1>2, <1>5, <1>6, <2>3, <2>4, <2>5, Zenon DEF Told
  <2> QED BY <2>1, <2>2, <2>3, <2>6
<1>7. CASE PeerTells(f, o) /\ f.type # NODE_RESET
  <2>1. PICK r : r = t.reg
    OBVIOUS
  <2>2. PICK c : Holds(f, t.reg, c) /\ (t.method = "set_register_value" => c \in SetBytes(t.dsc, t.value))
    BY <1>5, <1>7
  <2>3. f.data[1] = r /\ SubSeq(f.data, 2, f.dlc) = c
    BY <2>1, <2>2 DEF Holds
  <2>4. PICK b \in Seq(Byte) : /\ r \in DOMAIN peer /\ o.regs = [peer EXCEPT ![r] = b]
                               /\ o.sent = <<PeerReply(f, REG_VALUE, <<r>> \o b)>>
                               /\ f.type = GET_REG => b = peer[r]
                               /\ f.type = SET_REG => Took(b, c)
    BY <1>7, <2>3, Zenon DEF PeerTells
  <2>5. r \in Byte
    BY <2>4, RequestAssumption DEF Contents
  <2>6. PICK g : g = PeerReply(f, REG_VALUE, <<r>> \o b)
    OBVIOUS
  <2>7. g.type = REG_VALUE /\ g.source_id = PeerId /\ g.seqnum = f.seqnum /\ Holds(g, r, UpTo(b, 7))
    BY <1>1, <2>5, <2>6, ReplyHolds, Zenon
  <2>8. PICK p : p = o.regs
    OBVIOUS
  <2>9. r \in DOMAIN p /\ p[r] = b
    BY <2>4, <2>8 DEF Contents
  <2>10. t.method = "set_register_value" => \E z \in SetBytes(t.dsc, t.value) : Took(p[r], z)
    BY <1>5, <1>7, <2>2, <2>4, <2>9, Zenon
  <2>11. Keeps(p, w, IF t.method = "get_register_value" THEN {} ELSE {r})
    <3>1. CASE t.method = "get_register_value"
      <4>1. p = peer
        BY <1>5, <1>7, <2>4, <2>8, <3>1 DEF Contents
      <4> QED BY <3>1, <4>1
    <3>2. CASE t.method # "get_register_value"
      <4>1. Keeps([peer EXCEPT ![r] = b], w, {r})
        BY <2>4, KeepsOthers
      <4> QED BY <2>4, <2>8, <3>2, <4>1
    <3> QED BY <3>1, <3>2
  <2>12. Told(t, p, w, g)
    BY <1>2, <1>7, <2>1, <2>7, <2>9, <2>10, <2>11, Zenon DEF Told
  <2> QED BY <2>4, <2>6, <2>7, <2>8, <2>12
<1> QED BY <1>3, <1>4, <1>6, <1>7

\* Nothing else is answered, but DISCOVER.
LEMMA PeerElse ==
  ASSUME NEW f, ~(is_unicast(f) /\ f.destination_id = PeerId), NEW o, o = PeerOutcome(f)
  PROVE  o.regs = peer /\ (o.sent = <<>> \/ o.sent = <<PeerInfo(NODE_INFO)>>)
<1> DEFINE mine == is_unicast(f) /\ f.destination_id = PeerId
           r == f.data[1]
           known == r \in DOMAIN peer
           value == SubSeq(f.data, 2, f.dlc)
           Same1(frame) == [regs |-> peer, sent |-> <<frame>>]
           Now(bytes) == [regs |-> [peer EXCEPT ![r] = bytes], sent |-> <<PeerReply(f, REG_VALUE, <<r>> \o bytes)>>]
           none == [regs |-> peer, sent |-> <<>>]
           reset == [regs |-> PeerRegs, sent |-> <<PeerInfo(NODE_TURNED_ON)>>]
<1>1. o =
      CASE f.type = DISCOVER                         -> Same1(PeerInfo(NODE_INFO))
        [] mine /\ f.type = NODE_RESET               -> reset
        [] mine /\ f.type # NODE_RESET /\ ~known     -> Same1(PeerReply(f, COMMAND_ERROR, <<INVALID_REGISTER>>))
        [] mine /\ known /\ f.type = GET_REG         -> Now(peer[r])
        [] mine /\ known /\ f.type = SET_REG ->
             IF r \in PeerStrings /\ Len(value) < Len(peer[r]) THEN Now(Padded(r, value))
             ELSE IF Len(value) = Len(peer[r]) THEN Now(value)
             ELSE Same1(PeerReply(f, COMMAND_ERROR, <<REGISTER_SIZE_MISMATCH>>))
        [] mine /\ known /\ f.type \in {SET_BIT, CLEAR_BIT} -> Now(WithBit(f, peer[r]))
        [] OTHER                                     -> none
  BY DEF PeerOutcome
<1>2. ~mine
  OBVIOUS
<1>3. none.regs = peer /\ none.sent = <<>>
  OBVIOUS
<1>4. Same1(PeerInfo(NODE_INFO)).regs = peer /\ Same1(PeerInfo(NODE_INFO)).sent = <<PeerInfo(NODE_INFO)>>
  OBVIOUS
<1> HIDE DEF mine, Now, Same1, none, reset
<1>5. o = Same1(PeerInfo(NODE_INFO)) \/ o = none
  BY <1>1, <1>2
<1> QED BY <1>3, <1>4, <1>5, Zenon

\* The node takes what is at the head of its line, and puts its answer on the other.
LEMMA PeerMoves ==
  ASSUME peer \in Contents, NEW d \in Seq(Items), d # <<>>, NEW u \in Seq(Items), NEW v, NEW o,
         o = PeerOutcome(Head(d).got),
         \/ o.sent = <<>> /\ v = u
         \/ \E m \in Items : o.sent = <<m.sent>> /\ v = u \o <<m>>,
         NEW t, NEW w
  PROVE  /\ Resting(peer, w, d, u) => Resting(o.regs, w, Tail(d), v)
         /\ Asking(t, peer, w, d, u) => Asking(t, o.regs, w, Tail(d), v) \/ Answering(t, o.regs, w, Tail(d), v)
         /\ Answering(t, peer, w, d, u) => Answering(t, o.regs, w, Tail(d), v)
<1>1. PICK h, f, e : h = Head(d) /\ f = h.got /\ e = Tail(d)
  OBVIOUS
<1>2. h \in Items /\ f \in FitFrames
  <2>1. h \in Items
    BY <1>1, HeadTailProperties
  <2> QED BY <1>1, <2>1 DEF Items
<1>3. h \in PeersItems <=> is_unicast(f) /\ f.destination_id = PeerId
  BY <1>1, <1>2, Zenon DEF PeersItems
<1>4. o = PeerOutcome(f)
  BY <1>1
<1>5. ASSUME h \notin PeersItems
      PROVE  /\ o.regs = peer
             /\ v = u \/ \E m \in Items : m \notin AnswerItems /\ v = u \o <<m>>
  <2>1. o.regs = peer /\ (o.sent = <<>> \/ o.sent = <<PeerInfo(NODE_INFO)>>)
    BY <1>3, <1>4, <1>5, PeerElse, Zenon
  <2>2. ASSUME NEW m \in Items, o.sent = <<m.sent>>, v = u \o <<m>>
        PROVE  m \notin AnswerItems
    <3>1. m.sent = PeerInfo(NODE_INFO)
      <4>1. \A x, y : <<x>> = <<y>> => x = y
        OBVIOUS
      <4>2. \A x : <<x>> # <<>>
        OBVIOUS
      <4> QED BY <2>1, <2>2, <4>1, <4>2, Zenon
    <3>2. m.sent.type = NODE_INFO
      BY <3>1, PeerInfoSays, Zenon
    <3>3. NODE_INFO \notin {COMMAND_ERROR, REG_VALUE, NODE_TURNED_ON}
      BY SMT DEF NODE_INFO, COMMAND_ERROR, REG_VALUE, NODE_TURNED_ON
    <3> QED BY <3>2, <3>3, AnswersRead
  <2> QED BY <2>1, <2>2, Zenon
<1>6. ASSUME Lacks(d, PeersItems) PROVE h \notin PeersItems /\ Lacks(e, PeersItems)
  BY <1>1, <1>6, TailLacks, Zenon
<1>7. ASSUME h \notin PeersItems, Lacks(u, AnswerItems) PROVE Lacks(v, AnswerItems)
  BY <1>5, <1>7, AppendLacks, Zenon
<1>8. ASSUME Resting(peer, w, d, u) PROVE Resting(o.regs, w, e, v)
  BY <1>5, <1>6, <1>7, <1>8, Zenon DEF Resting
<1>9. ASSUME Answering(t, peer, w, d, u) PROVE Answering(t, o.regs, w, e, v)
  <2>1. h \notin PeersItems /\ Lacks(e, PeersItems) /\ o.regs = peer
    BY <1>5, <1>6, <1>9, Zenon DEF Answering
  <2>2. PICK T : T = ToldItems(t, peer, w)
    OBVIOUS
  <2>3. HasOne(u, AnswerItems, T)
    BY <1>9, <2>2, Zenon DEF Answering
  <2>4. HasOne(v, AnswerItems, T)
    BY <1>5, <2>1, <2>3, AppendHasOne, Zenon
  <2> QED BY <2>1, <2>2, <2>4, Zenon DEF Answering
<1>10. ASSUME Asking(t, peer, w, d, u)
       PROVE  Asking(t, o.regs, w, e, v) \/ Answering(t, o.regs, w, e, v)
  <2>1. HasOne(d, PeersItems, AskedItems(t)) /\ Lacks(u, AnswerItems) /\ Keeps(peer, w, {})
    BY <1>10, Zenon DEF Asking
  <2>2. /\ h \in PeersItems => h \in AskedItems(t) /\ Lacks(e, PeersItems)
        /\ h \notin PeersItems => HasOne(e, PeersItems, AskedItems(t))
    BY <1>1, <2>1, TailHasOne, Zenon
  <2>3. CASE h \notin PeersItems
    BY <1>5, <1>7, <2>1, <2>2, <2>3, Zenon DEF Asking
  <2>4. CASE h \in PeersItems
    <3>1. Asked(t, f)
      BY <1>1, <2>2, <2>4, Zenon DEF AskedItems
    <3>2. PICK g : /\ o.sent = <<g>> /\ g.source_id = PeerId
                   /\ g.type \in {COMMAND_ERROR, REG_VALUE, NODE_TURNED_ON} /\ Told(t, o.regs, w, g)
      BY <1>2, <1>3, <1>4, <2>1, <2>4, <3>1, AskedTold, Zenon
    <3>3. PICK m \in Items : o.sent = <<m.sent>> /\ v = u \o <<m>>
      <4>1. o.sent # <<>>
        BY <3>2
      <4> QED BY <4>1, Zenon
    <3>4. m.sent = g
      BY <3>2, <3>3
    <3>5. m \in AnswerItems
      BY <3>2, <3>4, AnswersRead, Zenon
    <3>6. PICK p : p = o.regs
      OBVIOUS
    <3>7. m \in ToldItems(t, p, w)
      BY <3>2, <3>4, <3>6, ToldRead, Zenon
    <3>8. PICK T : T = ToldItems(t, p, w)
      OBVIOUS
    <3>9. HasOne(v, AnswerItems, T)
      <4>1. m \in AnswerItems \cap T
        BY <3>5, <3>7, <3>8, Zenon
      <4> QED BY <2>1, <3>3, <4>1, AppendLacks, Zenon
    <3> QED BY <2>2, <2>4, <3>6, <3>8, <3>9, Zenon DEF Answering
  <2> QED BY <2>3, <2>4
<1> QED BY <1>1, <1>8, <1>9, <1>10, Zenon

-----------------------------------------------------------------------------
(* The answer is received. *)

\* What is written is remembered of a node that is known; what the node's entry is.
PeerTyped ==
  /\ PeerId \in DOMAIN nodes => nodes[PeerId] = NewNode \/ PeerKnown
  /\ DOMAIN written # {} => PeerKnown

\* set_register was not refused.
SetKnown ==
  request.method = "set_register_value" /\ Target = PeerId =>
    /\ PeerKnown /\ request.reg \in DOMAIN nodes[PeerId].regs /\ Writes(request.value)
    /\ Conversion(nodes[PeerId].regs[request.reg], request.value) # "none"

\* An answer with the bytes of a register is read as these bytes are.
LEMMA GetAnswered ==
  ASSUME NEW d, NEW f, f.type = REG_VALUE, NEW p \in Seq(Byte), Tells(f, p), Len(p) >= 1
  PROVE  GetResult(d, f) = ReadAs(d, UpTo(p, 7))
<1>1. PICK a, dlc : a = UpTo(p, 7) /\ dlc = f.dlc
  OBVIOUS
<1>2. Len(a) \in Nat /\ Len(a) >= 1
  <2>1. 7 \in Nat /\ Len(p) \in Nat
    BY LenProperties
  <2>2. Len(a) \in Nat /\ Len(a) = IF Len(p) < 7 THEN Len(p) ELSE 7
    BY <1>1, <2>1, UpToSays, Zenon
  <2>3. PICK m \in Nat : m = Len(p)
    BY <2>1
  <2> QED BY <2>2, <2>3, SMT
<1>3. dlc = 1 + Len(a) /\ SubSeq(f.data, 2, f.dlc) = a
  BY <1>1, Zenon DEF Tells
<1>4. dlc > 1
  <2>1. PICK m \in Nat : m = Len(a) /\ m >= 1
    BY <1>2
  <2> QED BY <1>3, <2>1, SMT
<1>5. Answer(f) = Json("bytes", a)
  <2>1. f.type = REG_VALUE /\ f.dlc > 1
    BY <1>1, <1>4
  <2>2. COMMAND_ERROR # REG_VALUE
    BY SMT DEF REG_VALUE, COMMAND_ERROR
  <2>3. Answer(f) = Json("bytes", SubSeq(f.data, 2, f.dlc))
    BY <2>1, <2>2 DEF Answer
  <2> QED BY <1>3, <2>3
<1>6. Answer(f).json = "bytes" /\ Answer(f).value = a
  BY <1>5 DEF Json
<1>7. GetResult(d, f) = ReadAs(d, a)
  BY <1>6, Zenon DEF GetResult, ReadAs
<1> QED BY <1>1, <1>7

\* The entry of a known node stands.
LEMMA RegsSame ==
  ASSUME NodesOK, NEW f, FromPeer(f), PeerKnown, nodes' = UpdateNodes(f)
  PROVE  PeerId \in DOMAIN nodes' /\ nodes'[PeerId] = nodes[PeerId]
<1>1. PICK id, t, old : id = f.source_id /\ t = f.data[1] * 256 + f.data[2] /\ old = nodes[id]
  OBVIOUS
<1>2. id = PeerId /\ id \in DOMAIN nodes /\ old.type = PeerType /\ old.init = TRUE
  BY <1>1 DEF FromPeer, PeerKnown
<1>3. old = [init |-> old.init, type |-> old.type, regs |-> old.regs]
  BY <1>1, <1>2 DEF NodesOK
<1>4. PICK new : new = IF f.type \in {NODE_INFO, NODE_TURNED_ON} THEN NodeInit(old, t) ELSE old
  OBVIOUS
<1>5. nodes' = [i \in DOMAIN nodes \cup {id} |-> IF i = id THEN new ELSE nodes[i]]
  BY <1>1, <1>2, <1>4, Zenon DEF UpdateNodes
<1>6. new = old
  <2>1. CASE Announces(f)
    <3>1. t = PeerType
      BY <1>1, <2>1 DEF FromPeer
    <3>2. new = [old EXCEPT !.init = TRUE]
      BY <1>2, <1>4, <2>1, <3>1 DEF NodeInit, Announces
    <3> QED BY <1>2, <1>3, <3>2
  <2>2. CASE ~Announces(f)
    BY <1>4, <2>2 DEF Announces
  <2> QED BY <2>1, <2>2
<1> QED BY <1>1, <1>2, <1>5, <1>6

\* An entry of the node's stays one.
LEMMA TypedKept ==
  ASSUME NodesOK, NEW f, FromPeer(f), PeerTyped, nodes' = UpdateNodes(f), DOMAIN written' # {} => PeerKnown
  PROVE  PeerTyped'
<1>1. PeerKnown => PeerKnown'
  BY PeerUpdated
<1>2. ASSUME ~PeerKnown, ~Announces(f) PROVE PeerId \in DOMAIN nodes' /\ nodes'[PeerId] = NewNode
  <2>1. PICK id : id = f.source_id
    OBVIOUS
  <2>2. PICK old : old = IF id \in DOMAIN nodes THEN nodes[id] ELSE NewNode
    OBVIOUS
  <2>3. id = PeerId /\ old = NewNode
    BY <1>2, <2>1, <2>2 DEF FromPeer, PeerTyped
  <2>4. nodes' = [i \in DOMAIN nodes \cup {id} |-> IF i = id THEN old ELSE nodes[i]]
    <3>1. f.type \notin {NODE_INFO, NODE_TURNED_ON}
      BY <1>2 DEF Announces
    <3> QED BY <2>1, <2>2, <3>1, Zenon DEF UpdateNodes
  <2> QED BY <2>3, <2>4
<1>3. ASSUME Announces(f) PROVE PeerKnown'
  BY <1>3, PeerUpdated
<1>4. PeerKnown' \/ (PeerId \in DOMAIN nodes' /\ nodes'[PeerId] = NewNode)
  BY <1>1, <1>2, <1>3
<1> QED BY <1>1, <1>4 DEF PeerTyped

\* What does not come from a call is no matter for the request, nor for what was written.
LEMMA OtherTaken ==
  ASSUME NEW f, f.source_id = PeerId, f.type \notin {COMMAND_ERROR, REG_VALUE, NODE_TURNED_ON}
  PROVE  ~Matches(f) /\ NowWritten(f) = written
<1>1. ~Matches(f)
  BY Zenon DEF Matches
<1>2. f.type # NODE_TURNED_ON /\ f.type # REG_VALUE
  OBVIOUS
<1> DEFINE set == {r \in DOMAIN written : r # TargetReg}
           one == [r \in set \cup {TargetReg} |->
                    IF r = TargetReg THEN [dsc |-> nodes[PeerId].regs[r], value |-> request.value]
                    ELSE written[r]]
           Kept(s) == [r \in s |-> written[r]]
<1>3. NowWritten(f) =
        IF f.source_id # PeerId THEN written
        ELSE IF f.type = NODE_TURNED_ON THEN <<>>
        ELSE CASE Matches(f) /\ request.method = "set_register_value" /\ Result(f).json \in Values -> one
               [] Matches(f) /\ request.method = "get_register_value" -> written
               [] OTHER -> IF f.type = REG_VALUE THEN Kept({r \in DOMAIN written : r # f.data[1]})
                           ELSE written
  BY Zenon DEF NowWritten
<1> HIDE DEF set, one, Kept
<1> QED BY <1>1, <1>2, <1>3

\* A reset ends what was written.
LEMMA ResetTaken ==
  ASSUME NEW f, f.source_id = PeerId, f.type = NODE_TURNED_ON
  PROVE  NowWritten(f) = <<>>
  BY Zenon DEF NowWritten

\* An error leaves it.
LEMMA ErrorTaken ==
  ASSUME NEW f, f.source_id = PeerId, f.type = COMMAND_ERROR
  PROVE  NowWritten(f) = written
<1>1. f.type # NODE_TURNED_ON /\ f.type # REG_VALUE
  BY SMT DEF COMMAND_ERROR, NODE_TURNED_ON, REG_VALUE
<1>2. request.method = "set_register_value" => Result(f).json \notin Values
  <2>1. Answer(f).json \in {"NodeException", "MALFORMED_FRAME"}
    BY <1>1 DEF Answer, Json, Error
  <2>2. ASSUME request.method = "set_register_value" PROVE Result(f) = SetResult(nodes[Target].regs[TargetReg], request.value, f)
    BY <2>2, Zenon DEF Result
  <2>3. \A d, v : SetResult(d, v, f) = Answer(f)
    BY <2>1 DEF SetResult
  <2> QED BY <2>1, <2>2, <2>3 DEF Values
<1> DEFINE set == {r \in DOMAIN written : r # TargetReg}
           one == [r \in set \cup {TargetReg} |->
                    IF r = TargetReg THEN [dsc |-> nodes[PeerId].regs[r], value |-> request.value]
                    ELSE written[r]]
           Kept(s) == [r \in s |-> written[r]]
<1>3. NowWritten(f) =
        IF f.source_id # PeerId THEN written
        ELSE IF f.type = NODE_TURNED_ON THEN <<>>
        ELSE CASE Matches(f) /\ request.method = "set_register_value" /\ Result(f).json \in Values -> one
               [] Matches(f) /\ request.method = "get_register_value" -> written
               [] OTHER -> IF f.type = REG_VALUE THEN Kept({r \in DOMAIN written : r # f.data[1]})
                           ELSE written
  BY Zenon DEF NowWritten
<1> HIDE DEF set, one, Kept
<1> QED BY <1>1, <1>2, <1>3

\* A value that is awaited: written by set_register, read by get_register, or changed in
\* another way.
LEMMA ValueTaken ==
  ASSUME NEW f, f.source_id = PeerId, f.type = REG_VALUE, Matches(f), f.data[1] = TargetReg
  PROVE  \/ /\ request.method = "set_register_value" /\ Result(f).json \in Values
            /\ NowWritten(f) =
                 [r \in DOMAIN written \cup {TargetReg} |->
                    IF r = TargetReg THEN [dsc |-> nodes[PeerId].regs[r], value |-> request.value]
                    ELSE written[r]]
         \/ request.method = "get_register_value" /\ NowWritten(f) = written
         \/ /\ request.method # "get_register_value"
            /\ NowWritten(f) = [r \in {q \in DOMAIN written : q # TargetReg} |-> written[r]]
<1>1. f.type # NODE_TURNED_ON
  BY SMT DEF NODE_TURNED_ON, REG_VALUE
<1> DEFINE set == {r \in DOMAIN written : r # TargetReg}
           one == [r \in set \cup {TargetReg} |->
                    IF r = TargetReg THEN [dsc |-> nodes[PeerId].regs[r], value |-> request.value]
                    ELSE written[r]]
           Kept(s) == [r \in s |-> written[r]]
           two == [r \in DOMAIN written \cup {TargetReg} |->
                    IF r = TargetReg THEN [dsc |-> nodes[PeerId].regs[r], value |-> request.value]
                    ELSE written[r]]
<1>2. NowWritten(f) =
        IF f.source_id # PeerId THEN written
        ELSE IF f.type = NODE_TURNED_ON THEN <<>>
        ELSE CASE Matches(f) /\ request.method = "set_register_value" /\ Result(f).json \in Values -> one
               [] Matches(f) /\ request.method = "get_register_value" -> written
               [] OTHER -> IF f.type = REG_VALUE THEN Kept({r \in DOMAIN written : r # f.data[1]})
                           ELSE written
  BY Zenon DEF NowWritten
<1>3. one = two
  <2>1. set \cup {TargetReg} = DOMAIN written \cup {TargetReg}
    OBVIOUS
  <2> QED BY <2>1, Zenon
<1>4. Kept({r \in DOMAIN written : r # f.data[1]}) = [r \in {q \in DOMAIN written : q # TargetReg} |-> written[r]]
  OBVIOUS
<1>5. PICK three : three = [r \in {q \in DOMAIN written : q # TargetReg} |-> written[r]]
  OBVIOUS
<1> HIDE DEF set, one, two, Kept
<1>6. \/ request.method = "set_register_value" /\ Result(f).json \in Values /\ NowWritten(f) = two
      \/ request.method = "get_register_value" /\ NowWritten(f) = written
      \/ request.method # "get_register_value" /\ NowWritten(f) = three
  BY <1>1, <1>2, <1>3, <1>4, <1>5
<1> QED BY <1>5, <1>6, Zenon DEF two

\* The fields of a ticket.
LEMMA TicketFields ==
  /\ Ticket.method = request.method /\ Ticket.id = Target /\ Ticket.reg = TargetReg
  /\ Ticket.value = request.value /\ Ticket.seq = seqnum
  /\ request.method = "set_register_value" => Ticket.dsc = nodes[PeerId].regs[request.reg]
<1>1. PICK dsc : dsc = IF request.method = "set_register_value" THEN nodes[PeerId].regs[request.reg] ELSE 0
  OBVIOUS
<1>2. Ticket = [method |-> request.method, id |-> Target, reg |-> TargetReg, value |-> request.value,
                seq |-> seqnum, dsc |-> dsc]
  BY <1>1, Zenon DEF Ticket
<1>3. PICK m, i, r, v, s : m = request.method /\ i = Target /\ r = TargetReg /\ v = request.value /\ s = seqnum
  OBVIOUS
<1>4. PICK t : t = [method |-> m, id |-> i, reg |-> r, value |-> v, seq |-> s, dsc |-> dsc]
  OBVIOUS
<1>5. t.method = m /\ t.id = i /\ t.reg = r /\ t.value = v /\ t.seq = s /\ t.dsc = dsc
  BY <1>4
<1>6. Ticket = t
  BY <1>2, <1>3, <1>4
<1>7. request.method = "set_register_value" => dsc = nodes[PeerId].regs[request.reg]
  BY <1>1
<1> QED BY <1>3, <1>5, <1>6, <1>7, Zenon

\* The value that was awaited.
LEMMA ToldValue ==
  ASSUME NodesOK, peer \in Contents, PeerTyped, SetKnown, pc = "waiting", NEW f, f.source_id = PeerId,
         f.type = REG_VALUE, Told(Ticket, peer, written, f)
  PROVE  /\ Matches(f) /\ Keeps(peer, NowWritten(f), {}) /\ (DOMAIN NowWritten(f) # {} => PeerKnown)
         /\ request.method = "get_register_value" =>
              /\ NowWritten(f) = written /\ Target = PeerId /\ TargetReg = request.reg
              /\ Tells(f, peer[request.reg])
<1>1. PICK t, r, p : t = Ticket /\ r = TargetReg /\ p = peer[TargetReg]
  OBVIOUS
<1>2. /\ t.method = request.method /\ t.id = Target /\ t.reg = r /\ t.value = request.value /\ t.seq = seqnum
      /\ request.method = "set_register_value" => t.dsc = nodes[PeerId].regs[request.reg]
  BY <1>1, TicketFields, Zenon
<1>3. /\ t.id = PeerId /\ t.method # "node_reset" /\ f.seqnum = t.seq
      /\ r \in DOMAIN peer /\ Holds(f, r, UpTo(p, 7))
      /\ t.method = "set_register_value" => \E b \in SetBytes(t.dsc, t.value) : Took(p, b)
      /\ Keeps(peer, written, IF t.method = "get_register_value" THEN {} ELSE {r})
  <2>1. REG_VALUE # NODE_TURNED_ON /\ REG_VALUE # COMMAND_ERROR
    BY SMT DEF REG_VALUE, NODE_TURNED_ON, COMMAND_ERROR
  <2>2. Told(t, peer, written, f) /\ p = peer[r]
    BY <1>1, Zenon
  <2>3. /\ t.id = PeerId /\ t.method # "node_reset" /\ f.seqnum = t.seq
        /\ t.reg \in DOMAIN peer /\ Holds(f, t.reg, UpTo(peer[t.reg], 7))
        /\ t.method = "set_register_value" => \E b \in SetBytes(t.dsc, t.value) : Took(peer[t.reg], b)
        /\ Keeps(peer, written, IF t.method = "get_register_value" THEN {} ELSE {t.reg})
    BY <2>1, <2>2, Zenon DEF Told
  <2> QED BY <1>2, <2>2, <2>3
<1>4. f.data[1] = r /\ Tells(f, p)
  BY <1>3, Zenon DEF Holds, Tells
<1>5. Matches(f)
  BY <1>1, <1>2, <1>3, <1>4, Zenon DEF Matches
<1>6. p \in Seq(Byte) /\ Target = PeerId
  BY <1>1, <1>2, <1>3 DEF Contents
<1>7. request.method # "dev_method_call" => r = request.reg
  BY <1>1 DEF TargetReg
<1>8. f.data[1] = TargetReg
  BY <1>1, <1>4
<1>9. CASE /\ request.method = "set_register_value" /\ Result(f).json \in Values
           /\ NowWritten(f) =
                [q \in DOMAIN written \cup {TargetReg} |->
                   IF q = TargetReg THEN [dsc |-> nodes[PeerId].regs[q], value |-> request.value]
                   ELSE written[q]]
  <2>1. PICK d, v, w : d = nodes[PeerId].regs[r] /\ v = request.value /\ w = NowWritten(f)
    OBVIOUS
  <2>2. PeerKnown /\ r \in DOMAIN nodes[PeerId].regs /\ Writes(v) /\ Conversion(d, v) # "none" /\ r = request.reg
    BY <1>6, <1>7, <1>9, <2>1 DEF SetKnown
  <2>3. d \in DescType
    BY <2>1, <2>2 DEF NodesOK, RegsOK, PeerKnown
  <2>4. PICK b \in SetBytes(d, v) : Took(p, b)
    BY <1>2, <1>3, <1>9, <2>1, <2>2
  <2>5. SetResult(d, v, f).json \in Values
    <3>1. Result(f) = SetResult(nodes[Target].regs[TargetReg], request.value, f)
      BY <1>9, Zenon DEF Result
    <3> QED BY <1>1, <1>6, <1>9, <2>1, <3>1
  <2>6. Len(p) >= 1
    BY <1>4, <1>6, <2>2, <2>5, SetAnswered
  <2>7. Promised(d, v) => ReadAs(d, UpTo(p, 7)) = Expected(d, v)
    BY <1>4, <1>6, <2>2, <2>3, <2>4, <2>5, WrittenIsRead, Zenon
  <2>8. /\ DOMAIN w = DOMAIN written \cup {r} /\ w[r].dsc = d /\ w[r].value = v
        /\ \A q \in DOMAIN written : q # r => w[q] = written[q]
    <3>1. w = [q \in DOMAIN written \cup {r} |->
                   IF q = r THEN [dsc |-> nodes[PeerId].regs[q], value |-> v] ELSE written[q]]
      BY <1>1, <1>9, <2>1, Zenon
    <3>2. w[r] = [dsc |-> d, value |-> v]
      BY <2>1, <3>1
    <3> QED BY <3>1, <3>2
  <2>9. Keeps(peer, written, {r})
    BY <1>3, <1>2, <1>9
  <2>10. p = peer[r]
    BY <1>1
  <2>11. ASSUME NEW q \in DOMAIN w
         PROVE  /\ q \in DOMAIN peer /\ Len(peer[q]) >= 1
                /\ Promised(w[q].dsc, w[q].value) => ReadAs(w[q].dsc, UpTo(peer[q], 7)) = Expected(w[q].dsc, w[q].value)
    <3>1. CASE q = r
      BY <1>3, <2>6, <2>7, <2>8, <2>10, <3>1
    <3>2. CASE q # r
      <4>1. q \in DOMAIN written \ {r} /\ w[q] = written[q]
        BY <2>8, <2>11, <3>2
      <4> QED BY <2>9, <4>1, Zenon DEF Keeps
    <3> QED BY <3>1, <3>2
  <2>12. Keeps(peer, w, {})
    BY <2>11, Zenon DEF Keeps
  <2> QED BY <1>5, <1>9, <2>1, <2>2, <2>12
<1>10. CASE request.method = "get_register_value" /\ NowWritten(f) = written
  BY <1>1, <1>2, <1>3, <1>4, <1>5, <1>6, <1>7, <1>10 DEF PeerTyped
<1>11. CASE /\ request.method # "get_register_value"
            /\ NowWritten(f) = [q \in {k \in DOMAIN written : k # TargetReg} |-> written[q]]
  <2>1. PICK w : w = NowWritten(f)
    OBVIOUS
  <2>2. DOMAIN w = DOMAIN written \ {r} /\ \A q \in DOMAIN w : w[q] = written[q]
    BY <1>1, <1>11, <2>1
  <2>3. Keeps(peer, written, {r})
    BY <1>2, <1>3, <1>11
  <2>4. Keeps(peer, w, {})
    <3>1. \A q \in DOMAIN w \ {} : q \in DOMAIN written \ {r} /\ w[q] = written[q]
      BY <2>2
    <3> QED BY <2>3, <3>1, Zenon DEF Keeps
  <2>5. DOMAIN w # {} => PeerKnown
    BY <2>2 DEF PeerTyped
  <2> QED BY <1>5, <1>11, <2>1, <2>4, <2>5
<1> QED BY <1>5, <1>8, <1>9, <1>10, <1>11, ValueTaken

\* Any answer of the node's: what was written and is kept is what its registers are read
\* as, and the request is over; if it was a reset, it may also wait for ever.
LEMMA AnswerTaken ==
  ASSUME NodesOK, peer \in Contents, PeerTyped, SetKnown, pc = "waiting", NEW f, FromPeer(f),
         Told(Ticket, peer, written, f), nodes' = UpdateNodes(f), written' = NowWritten(f),
         request' = request, IF Matches(f) THEN Respond(Result(f)) ELSE UNCHANGED <<pc, response>>
  PROVE  /\ pc' = "idle" \/ (pc' = "waiting" /\ request.method = "node_reset")
         /\ Keeps(peer, written', {}) /\ PeerTyped' /\ ReadBackWritten'
<1>1. f.source_id = PeerId /\ request' = request
  BY DEF FromPeer
<1>2. PICK t, r, p : t = Ticket /\ r = TargetReg /\ p = peer[TargetReg]
  OBVIOUS
<1>3. t.method = request.method /\ t.id = Target /\ t.reg = r /\ t.seq = seqnum
  BY <1>2, TicketFields, Zenon
<1>4. Told(t, peer, written, f)
  BY <1>2, Zenon
<1>5. t.id = PeerId
  BY <1>4, Zenon DEF Told
<1>6. Target = PeerId
  BY <1>3, <1>5
<1>7. CASE f.type = NODE_TURNED_ON
  <2>1. written' = <<>>
    BY <1>1, <1>7, ResetTaken
  <2>2. DOMAIN written' = {}
    BY <2>1
  <2>3. Keeps(peer, written', {})
    BY <2>2 DEF Keeps
  <2>4. PeerTyped'
    BY <2>2, TypedKept
  <2>5. ReadBackWritten'
    BY <2>2 DEF ReadBackWritten, ReadsWritten, AsExpected
  <2>6. t.method = "node_reset"
    <3>1. NODE_TURNED_ON # REG_VALUE /\ NODE_TURNED_ON # COMMAND_ERROR
      BY SMT DEF REG_VALUE, NODE_TURNED_ON, COMMAND_ERROR
    <3> QED BY <1>4, <1>7, <3>1, Zenon DEF Told
  <2>7. pc' = "idle" \/ pc' = pc
    BY DEF Respond
  <2> QED BY <1>3, <2>3, <2>4, <2>5, <2>6, <2>7
<1>8. CASE f.type = COMMAND_ERROR
  <2>1. written' = written
    BY <1>1, <1>8, ErrorTaken
  <2>2. f.seqnum = t.seq /\ Keeps(peer, written, {}) /\ (t.method = "get_register_value" => t.reg \notin DOMAIN peer)
    <3>1. COMMAND_ERROR # REG_VALUE /\ COMMAND_ERROR # NODE_TURNED_ON
      BY SMT DEF REG_VALUE, NODE_TURNED_ON, COMMAND_ERROR
    <3> QED BY <1>4, <1>8, <3>1, Zenon DEF Told
  <2>3. Matches(f)
    BY <1>1, <1>3, <1>6, <1>8, <2>2 DEF Matches
  <2>4. pc' = "idle"
    BY <2>3 DEF Respond
  <2>5. PeerTyped'
    <3>1. DOMAIN written' # {} => PeerKnown
      BY <2>1 DEF PeerTyped
    <3> QED BY <3>1, TypedKept
  <2>6. ReadBackWritten'
    <3>1. request.method = "get_register_value" => request.reg \notin DOMAIN written
      <4>1. request.method = "get_register_value" => r = request.reg
        BY <1>2 DEF TargetReg
      <4>2. \A q \in DOMAIN written : q \in DOMAIN peer
        BY <2>2, Zenon DEF Keeps
      <4> QED BY <1>3, <2>2, <4>1, <4>2
    <3> QED BY <1>1, <2>1, <3>1 DEF ReadBackWritten, ReadsWritten, AsExpected
  <2>7. Keeps(peer, written', {})
    BY <2>1, <2>2
  <2> QED BY <2>4, <2>5, <2>6, <2>7
<1>9. CASE f.type = REG_VALUE
  <2>1. /\ Matches(f) /\ Keeps(peer, NowWritten(f), {}) /\ (DOMAIN NowWritten(f) # {} => PeerKnown)
        /\ request.method = "get_register_value" =>
             /\ NowWritten(f) = written /\ Target = PeerId /\ TargetReg = request.reg
             /\ Tells(f, peer[request.reg])
    BY <1>1, <1>9, ToldValue
  <2>2. pc' = "idle" /\ response' = Result(f)
    BY <2>1 DEF Respond
  <2>3. PeerTyped'
    BY <2>1, TypedKept
  <2>4. Keeps(peer, written', {})
    BY <2>1
  <2>5. ReadBackWritten'
    <3>1. SUFFICES ASSUME request.method = "get_register_value", request.reg \in DOMAIN written,
                          nodes'[PeerId].regs[request.reg] = written[request.reg].dsc,
                          Promised(written[request.reg].dsc, written[request.reg].value)
                   PROVE  response' = Expected(written[request.reg].dsc, written[request.reg].value)
      BY <1>1, <2>1, Zenon DEF ReadBackWritten, ReadsWritten, AsExpected, Promised
    <3>2. PICK q, d, v, b, d2 : q = request.reg /\ d = written[request.reg].dsc /\ v = written[request.reg].value
                                /\ b = peer[request.reg] /\ d2 = nodes[PeerId].regs[request.reg]
      OBVIOUS
    <3>3. q \in DOMAIN peer /\ Len(b) >= 1 /\ ReadAs(d, UpTo(b, 7)) = Expected(d, v)
      <4>1. Keeps(peer, written, {}) /\ q \in DOMAIN written \ {}
        BY <2>1, <3>1, <3>2
      <4> QED BY <3>1, <3>2, <4>1, Zenon DEF Keeps
    <3>4. b \in Seq(Byte)
      BY <3>2, <3>3 DEF Contents
    <3>5. d2 = d
      <4>1. PeerKnown
        BY <2>1, <3>1
      <4>2. nodes'[PeerId] = nodes[PeerId]
        BY <4>1, RegsSame
      <4> QED BY <3>1, <3>2, <4>2
    <3>6. response' = GetResult(d2, f)
      <4>1. Result(f) = GetResult(nodes[Target].regs[TargetReg], f)
        BY <3>1 DEF Result
      <4> QED BY <2>1, <2>2, <3>1, <3>2, <4>1
    <3>7. Tells(f, b)
      BY <2>1, <3>1, <3>2
    <3>8. GetResult(d2, f) = ReadAs(d2, UpTo(b, 7))
      BY <1>9, <3>3, <3>4, <3>7, GetAnswered
    <3> QED BY <3>2, <3>3, <3>5, <3>6, <3>8, Zenon
  <2> QED BY <2>2, <2>3, <2>4, <2>5
<1>10. f.type \in {NODE_TURNED_ON, COMMAND_ERROR, REG_VALUE}
  BY <1>4, Zenon DEF Told
<1> QED BY <1>7, <1>8, <1>9, <1>10

-----------------------------------------------------------------------------
(* A request is sent. *)

\* What set_register writes fits into a frame.
LEMMA SetFits ==
  ASSUME NEW d \in DescType, NEW v, Writes(v), Conversion(d, v) # "none", NEW b \in SetBytes(d, v)
  PROVE  b \in Seq(Byte) /\ UpTo(b, 7) = b
<1>1. b \in Seq(Byte)
  BY SetBytesAre DEF Writes
<1>2. Width(d) \in {1, 2, 4} /\ Length(d) \in 1..7 /\ d.size \div 8 \in 0..7
  BY RegisterWidths, Zenon
<1>3. Len(b) \in Nat /\ Len(b) <= 7
  <2>1. Len(b) \in Nat
    BY <1>1, LenProperties
  <2>2. CASE Conversion(d, v) = "integer"
    <3>1. PICK m : b = BigEndian(m, Width(d))
      BY <2>2 DEF SetBytes
    <3>2. PICK n \in {1, 2, 4} : n = Width(d)
      BY <1>2
    <3>3. b = [i \in 1..n |-> Low(Shr(m, 8 * (n - i)), 8)]
      BY <3>1, <3>2 DEF BigEndian
    <3>4. DOMAIN b = 1..n /\ DOMAIN b = 1..Len(b)
      BY <1>1, <3>3, LenProperties
    <3> QED BY <2>1, <3>4, SMT
  <2>3. CASE Conversion(d, v) = "string"
    <3>1. b = UpTo(v.value, d.size \div 8) /\ v.value \in Seq(Byte)
      BY <2>3 DEF SetBytes, Conversion, Writes, ValueOK
    <3>2. PICK n \in Nat : n = d.size \div 8 /\ n <= 7
      BY <1>2
    <3>3. Len(b) = IF Len(v.value) < n THEN Len(v.value) ELSE n
      BY <3>1, <3>2, UpToSays, Zenon
    <3>4. PICK l \in Nat : l = Len(v.value)
      BY <3>1, LenProperties
    <3> QED BY <3>2, <3>3, <3>4, SMT
  <2>4. CASE Conversion(d, v) \notin {"integer", "string"}
    <3>1. b = v.value
      BY <2>4 DEF SetBytes
    <3>2. Len(v.value) = 4 \/ Len(v.value) = Length(d)
      BY <2>4 DEF Conversion, Writes
    <3> QED BY <1>2, <3>1, <3>2
  <2> QED BY <2>1, <2>2, <2>3, <2>4
<1>4. UpTo(b, 7) = SubSeq(b, 1, Len(b))
  <2>1. PICK n \in Nat : n = Len(b) /\ n <= 7
    BY <1>3
  <2>2. (IF n < 7 THEN n ELSE 7) = n
    BY <2>1, SMT
  <2> QED BY <2>1, <2>2 DEF UpTo
<1>5. SubSeq(b, 1, Len(b)) = b
  BY <1>1, SMT
<1> QED BY <1>1, <1>4, <1>5

\* The frame of a call: as Asked says, but for the number.
Calls(r, d, f) ==
  /\ f \in H9Frames /\ f.destination_id = r.id /\ is_unicast(f) /\ f.type \in Numbered
  /\ \/ r.method = "node_reset" /\ f.type = NODE_RESET
     \/ /\ r.method # "node_reset" /\ f.type \in {GET_REG, SET_REG, SET_BIT, CLEAR_BIT}
        /\ r.method = "get_register_value" <=> f.type = GET_REG
        /\ r.method = "set_register_value" => f.type = SET_REG
        /\ \E b : Holds(f, r.reg, b) /\ (r.method = "set_register_value" => b \in SetBytes(d, r.value))

Made(f, r, type, bytes) ==
  /\ f \in H9Frames /\ f.destination_id = r.id /\ is_unicast(f) /\ f.type \in Numbered /\ f.type = type
  /\ \A n \in Byte : \A b \in Seq(Byte) : bytes = <<n>> \o b => Holds(f, n, UpTo(b, 7))

\* The frame of a call to a node, field by field.
LEMMA CallMade ==
  ASSUME NEW r, r.id \in Byte, NEW type \in {SET_REG, GET_REG, SET_BIT, CLEAR_BIT, NODE_RESET},
         NEW bytes \in Seq(Byte), NEW x \in Garbage, NEW f, f = NodeFrame(r, type, bytes, x)
  PROVE  Made(f, r, type, bytes)
<1>1. Blank(x) \in H9Frames
  BY BlankFrame, VirtualAssumption
<1>2. type \in Byte /\ type \in Numbered /\ type < DISCOVER /\ 0 \in Byte
  BY SMT DEF SET_REG, GET_REG, SET_BIT, CLEAR_BIT, NODE_RESET, NODE_UPGRADE, DISCOVER, Byte, Numbered
<1>3. PICK dst \in Byte, zero \in Byte : dst = r.id /\ zero = 0
  BY <1>2
<1>4. f = Unicast(Blank(x), type, zero, dst, bytes)
  BY <1>3 DEF NodeFrame
<1>5. f \in H9Frames /\ f.type = type /\ f.destination_id = dst
  <2>1. PICK ty \in Byte : ty = type
    BY <1>2
  <2>2. PICK h : h = Unicast(Blank(x), ty, zero, dst, bytes)
    OBVIOUS
  <2>3. h \in H9Frames /\ h.type = ty /\ h.destination_id = dst
    BY <1>1, <1>3, <2>1, <2>2, UnicastMade
  <2> QED BY <1>4, <2>1, <2>2, <2>3
<1>6. ASSUME NEW n \in Byte, NEW b \in Seq(Byte), bytes = <<n>> \o b PROVE Holds(f, n, UpTo(b, 7))
  BY <1>1, <1>2, <1>4, <1>6, UnicastSays
<1>7. f.destination_id = r.id /\ is_unicast(f) /\ f.type \in Numbered
  BY <1>2, <1>3, <1>5 DEF is_unicast
<1> QED BY <1>5, <1>6, <1>7, Zenon DEF Made

\* Every method that waits makes the frame it should.
LEMMA CallFrame ==
  ASSUME NodesOK, NEW r, r.bit \in Byte, Writes(r.value), r.method \in NodeMethods \cup {"dev_method_call"},
         NodeRefuses(r) = "none", NEW x \in Garbage, NEW f \in Frames(r, x)
  PROVE  Calls(r, nodes[r.id].regs[r.reg], f)
<1>1. r.id \in DOMAIN nodes /\ r.id \in Byte
  BY DEF NodeRefuses, NodesOK
<1>2. PICK regs : regs = nodes[r.id].regs
  OBVIOUS
<1>3. RegsOK(regs)
  BY <1>1, <1>2 DEF NodesOK
<1>4. /\ GET_REG # NODE_RESET /\ SET_REG # NODE_RESET /\ SET_BIT # NODE_RESET /\ CLEAR_BIT # NODE_RESET
      /\ GET_REG # SET_REG /\ GET_REG # SET_BIT /\ GET_REG # CLEAR_BIT
  BY SMT DEF GET_REG, SET_REG, SET_BIT, CLEAR_BIT, NODE_RESET
<1>5. CASE r.method \in {"set_register_value", "dev_method_call"}
  <2>1. SetRefused(regs, r.reg, r.value) = "none"
    BY <1>1, <1>2, <1>5 DEF NodeRefuses
  <2>2. r.reg \in DOMAIN regs /\ Conversion(regs[r.reg], r.value) # "none"
    BY <2>1 DEF SetRefused
  <2>3. PICK b \in SetBytes(regs[r.reg], r.value) : f = NodeFrame(r, SET_REG, <<r.reg>> \o b, x)
    BY <1>2, <1>5 DEF Frames
  <2>4. PICK n \in Byte, d \in DescType : n = r.reg /\ d = regs[r.reg]
    BY <1>3, <2>2 DEF RegsOK
  <2>5. b \in Seq(Byte) /\ UpTo(b, 7) = b
    BY <2>2, <2>3, <2>4, SetFits
  <2>6. <<n>> \o b \in Seq(Byte)
    BY <2>5, ConcatProperties
  <2>7. /\ f \in H9Frames /\ f.destination_id = r.id /\ is_unicast(f) /\ f.type \in Numbered /\ f.type = SET_REG
        /\ Holds(f, n, UpTo(b, 7))
    <3>1. PICK bytes \in Seq(Byte), type \in {SET_REG, GET_REG, SET_BIT, CLEAR_BIT, NODE_RESET} :
            bytes = <<n>> \o b /\ type = SET_REG
      BY <2>6
    <3>2. f = NodeFrame(r, type, bytes, x)
      BY <2>3, <2>4, <3>1
    <3>3. Made(f, r, type, bytes)
      BY <1>1, <3>2, CallMade
    <3> QED BY <2>5, <3>1, <3>3, Zenon DEF Made
  <2>8. Holds(f, r.reg, b) /\ b \in SetBytes(d, r.value)
    BY <2>3, <2>4, <2>5, <2>7
  <2>9. Calls(r, d, f)
    BY <1>4, <1>5, <2>7, <2>8, Zenon DEF Calls
  <2> QED BY <1>2, <2>4, <2>9
<1>6. ASSUME r.reg \in DOMAIN regs, r.method \notin {"set_register_value", "dev_method_call", "node_reset"},
             NEW type \in {GET_REG, SET_BIT, CLEAR_BIT}, NEW b \in Seq(Byte),
             f = NodeFrame(r, type, <<r.reg>> \o b, x), type = GET_REG <=> r.method = "get_register_value"
      PROVE  Calls(r, nodes[r.id].regs[r.reg], f)
  <2>1. PICK n \in Byte : n = r.reg
    BY <1>3, <1>6 DEF RegsOK
  <2>2. PICK bytes \in Seq(Byte) : bytes = <<n>> \o b
    <3>1. <<n>> \in Seq(Byte)
      OBVIOUS
    <3> QED BY <3>1, ConcatProperties
  <2>3. type \in {SET_REG, GET_REG, SET_BIT, CLEAR_BIT, NODE_RESET}
    OBVIOUS
  <2>4. f = NodeFrame(r, type, bytes, x)
    BY <1>6, <2>1, <2>2
  <2>5. /\ f \in H9Frames /\ f.destination_id = r.id /\ is_unicast(f) /\ f.type \in Numbered /\ f.type = type
        /\ Holds(f, n, UpTo(b, 7))
    <3>1. Made(f, r, type, bytes)
      BY <1>1, <2>3, <2>4, CallMade
    <3> QED BY <2>2, <3>1, Zenon DEF Made
  <2>6. Holds(f, r.reg, UpTo(b, 7))
    BY <2>1, <2>5
  <2> QED BY <1>4, <1>6, <2>5, <2>6, Zenon DEF Calls
<1>7. CASE r.method = "get_register_value"
  <2>1. r.reg \in DOMAIN regs
    <3>1. GetRefused(regs, r.reg) = "none"
      BY <1>1, <1>2, <1>7 DEF NodeRefuses
    <3> QED BY <3>1 DEF GetRefused
  <2>2. f = NodeFrame(r, GET_REG, <<r.reg>>, x)
    BY <1>7 DEF Frames
  <2>3. r.reg \in Byte /\ <<>> \in Seq(Byte)
    BY <1>3, <2>1 DEF RegsOK
  <2>4. <<r.reg>> = <<r.reg>> \o <<>>
    BY <2>3
  <2> QED BY <1>6, <1>7, <2>1, <2>2, <2>3, <2>4
<1>8. CASE r.method \in {"set_register_bit", "clear_register_bit"}
  <2>1. r.reg \in DOMAIN regs
    <3>1. BitRefused(regs, r.reg) = "none"
      BY <1>1, <1>2, <1>8 DEF NodeRefuses
    <3> QED BY <3>1 DEF BitRefused
  <2>2. PICK type \in {SET_BIT, CLEAR_BIT} : f = NodeFrame(r, type, <<r.reg, r.bit>>, x)
    BY <1>8 DEF Frames
  <2>3. PICK n \in Byte, k \in Byte : n = r.reg /\ k = r.bit
    BY <1>3, <2>1 DEF RegsOK
  <2>4. <<k>> \in Seq(Byte) /\ <<n, k>> = <<n>> \o <<k>>
    BY <2>3
  <2> QED BY <1>4, <1>6, <1>8, <2>1, <2>2, <2>3, <2>4
<1>9. CASE r.method = "node_reset"
  <2>1. f = NodeFrame(r, NODE_RESET, <<>>, x) /\ <<>> \in Seq(Byte)
    BY <1>9 DEF Frames
  <2>2. f \in H9Frames /\ f.destination_id = r.id /\ is_unicast(f) /\ f.type \in Numbered /\ f.type = NODE_RESET
    <3>1. PICK bytes \in Seq(Byte), type \in {SET_REG, GET_REG, SET_BIT, CLEAR_BIT, NODE_RESET} :
            bytes = <<>> /\ type = NODE_RESET
      BY <2>1
    <3>2. f = NodeFrame(r, type, bytes, x)
      BY <2>1, <3>1
    <3>3. Made(f, r, type, bytes)
      BY <1>1, <3>2, CallMade
    <3> QED BY <3>1, <3>3, Zenon DEF Made
  <2> QED BY <1>9, <2>2, Zenon DEF Calls
<1> QED BY <1>5, <1>7, <1>8, <1>9 DEF NodeMethods

\* send_frame puts an item on the bus; a loop endpoint puts it on the way back.
LEMMA BusGets ==
  ASSUME EndpointsOK, LinesOK, next_seqnum \in 0..31, NEW f, NEW raw \in BOOLEAN, NEW x \in Garbage,
         Sendable(f, raw), Send(f, raw, x)
  PROVE  \/ RealEndpoints = {} /\ down'["bus"] = down["bus"] /\ up'["bus"] = up["bus"]
         \/ RealEndpoints # {} /\ \E m \in Items :
              /\ m.sent = Stamped(f, raw)
              /\ IF Driver("bus") = "loop" THEN down'["bus"] = down["bus"] /\ up'["bus"] = up["bus"] \o <<m>>
                 ELSE down'["bus"] = down["bus"] \o <<m>> /\ up'["bus"] = up["bus"]
<1>1. "bus" \in Lines /\ (Open("bus") <=> RealEndpoints # {})
  BY DEF Lines, Open
<1>2. PICK g : g = Stamped(f, raw)
  OBVIOUS
<1>3. PICK m : m = OnLine("bus", g, x)
  OBVIOUS
<1>4. /\ down'["bus"] = IF Open("bus") /\ Driver("bus") # "loop" THEN down["bus"] \o <<m>> ELSE down["bus"]
      /\ up'["bus"] = IF Open("bus") /\ Driver("bus") = "loop" THEN up["bus"] \o <<m>> ELSE up["bus"]
  BY <1>1, <1>2, <1>3, Zenon DEF Send
<1>5. ASSUME Open("bus") PROVE m \in Items /\ m.sent = g
  <2>1. g \in FitFrames
    BY <1>2, StampedFits
  <2>2. m \in Items
    BY <1>1, <1>3, <1>5, <2>1, LineItem
  <2> QED BY <1>3, <2>2 DEF OnLine
<1> QED BY <1>1, <1>2, <1>4, <1>5

-----------------------------------------------------------------------------
(* What was written is read back: the invariant, and the steps that leave the bus. *)

\* A request is on the bus and was not answered yet; or it was, and the answer is on its
\* way; or it went to another node, or a reset whose answer was not taken for one.
OnBus ==
  /\ PeerTyped
  /\ \/ pc = "idle" /\ Resting(peer, written, down["bus"], up["bus"])
     \/ /\ pc = "waiting" /\ SetKnown
        /\ \/ Asking(Ticket, peer, written, down["bus"], up["bus"])
           \/ Answering(Ticket, peer, written, down["bus"], up["bus"])
     \/ /\ pc = "waiting" /\ Resting(peer, written, down["bus"], up["bus"])
        /\ request.method = "get_register_value" => request.id # PeerId

\* No bus, or one that sends back what it is given.
OffBus ==
  /\ written = <<>> /\ down["bus"] = <<>>
  /\ \A i \in DOMAIN up["bus"] : up["bus"][i].got.source_id # PeerId

\* The invariant, with no virtual endpoint: before main serves nothing was written.
ReadInv ==
  0 \notin endpoints =>
    /\ step <= 14 => written = <<>> /\ PeerId \notin DOMAIN nodes /\ pc = "idle"
    /\ step = 15 /\ status = "running" => IF BusOnly THEN OnBus ELSE OffBus
    /\ ReadBackWritten

\* Steps after the start leave the kind of bus.
LEMMA BusKept ==
  ASSUME Served
  PROVE  /\ UNCHANGED <<step, endpoints, cfg, threads>> /\ (status' = "running" => status = "running")
         /\ BusOnly' <=> BusOnly
<1>1. UNCHANGED <<step, endpoints, cfg, threads>> /\ (status' = "running" => status = "running")
  BY DEF Served
<1> QED BY <1>1 DEF BusOnly, RealEndpoints, Driver

\* Steps that leave the request and the nodes.
LEMMA TicketKept ==
  ASSUME UNCHANGED <<request, seqnum, nodes, dev>>
  PROVE  Ticket' = Ticket /\ (SetKnown => SetKnown') /\ (PeerKnown => PeerKnown')
<1>1. Target' = Target /\ TargetReg' = TargetReg
  BY DEF Target, TargetReg
<1>2. Ticket' = Ticket
  BY <1>1 DEF Ticket
<1>3. PeerKnown => PeerKnown'
  BY DEF PeerKnown
<1> QED BY <1>1, <1>2, <1>3 DEF SetKnown

\* Neither a read that is over nor a value it could be about.
LEMMA NothingRead ==
  ASSUME pc' # "idle" \/ request'.method # "get_register_value" \/ written' = <<>>
  PROVE  ReadBackWritten'
  BY DEF ReadBackWritten, ReadsWritten, AsExpected

\* Steps that leave the bus and the request.
LEMMA ReadLeft ==
  ASSUME ReadInv, Served, UNCHANGED <<peer, written, request, seqnum, dev, nodes, pc, response>>,
         down'["bus"] = down["bus"], up'["bus"] = up["bus"]
  PROVE  ReadInv'
<1>1. /\ UNCHANGED <<step, endpoints, cfg, threads>> /\ (status' = "running" => status = "running")
      /\ BusOnly' <=> BusOnly
  BY BusKept
<1>2. PICK t, d, u : t = Ticket /\ d = down["bus"] /\ u = up["bus"]
  OBVIOUS
<1>3. Ticket' = t /\ (SetKnown => SetKnown') /\ (PeerKnown => PeerKnown')
  BY <1>2, TicketKept
<1>4. PeerTyped => PeerTyped'
  BY <1>3 DEF PeerTyped
<1>5. OnBus => OnBus'
  <2>1. SUFFICES ASSUME OnBus PROVE OnBus'
    OBVIOUS
  <2>2. \/ pc = "idle" /\ Resting(peer, written, d, u)
        \/ pc = "waiting" /\ SetKnown /\ (Asking(t, peer, written, d, u) \/ Answering(t, peer, written, d, u))
        \/ /\ pc = "waiting" /\ Resting(peer, written, d, u)
           /\ request.method = "get_register_value" => request.id # PeerId
    BY <1>2, <2>1, Zenon DEF OnBus
  <2>3. \/ pc' = "idle" /\ Resting(peer', written', d, u)
        \/ pc' = "waiting" /\ SetKnown' /\ (Asking(t, peer', written', d, u) \/ Answering(t, peer', written', d, u))
        \/ /\ pc' = "waiting" /\ Resting(peer', written', d, u)
           /\ request'.method = "get_register_value" => request'.id # PeerId
    <3> HIDE <2>1
    <3> QED BY <1>3, <2>2
  <2>4. d = down'["bus"] /\ u = up'["bus"] /\ PeerTyped'
    BY <1>2, <1>4, <2>1 DEF OnBus
  <2> QED BY <1>3, <2>3, <2>4, Zenon DEF OnBus, Resting, Asking, Answering
<1>6. OffBus => OffBus'
  BY DEF OffBus
<1>7. ReadBackWritten => ReadBackWritten'
  BY DEF ReadBackWritten, ReadsWritten, AsExpected
<1> QED BY <1>1, <1>5, <1>6, <1>7 DEF ReadInv

\* Requests that are answered at once.
LEMMA ReadAnswered ==
  ASSUME ReadInv, Served, step = 15, pc = "idle", pc' = "idle", request' = NoRequest,
         UNCHANGED <<peer, written>>, down'["bus"] = down["bus"], up'["bus"] = up["bus"],
         PeerTyped => PeerTyped'
  PROVE  ReadInv'
<1>1. /\ UNCHANGED <<step, endpoints, cfg, threads>> /\ (status' = "running" => status = "running")
      /\ BusOnly' <=> BusOnly
  BY BusKept
<1>2. OnBus => OnBus'
  <2>1. SUFFICES ASSUME OnBus PROVE OnBus'
    OBVIOUS
  <2>2. Resting(peer, written, down["bus"], up["bus"])
    BY <2>1 DEF OnBus
  <2>3. Resting(peer', written', down'["bus"], up'["bus"])
    BY <2>2
  <2>4. PeerTyped'
    BY <2>1 DEF OnBus
  <2> QED BY <2>3, <2>4, Zenon DEF OnBus, Resting
<1>3. OffBus => OffBus'
  BY DEF OffBus
<1>4. ReadBackWritten'
  <2>1. request'.method # "get_register_value"
    BY DEF NoRequest
  <2> QED BY <2>1, NothingRead
<1>5. ~(step' <= 14)
  BY <1>1, SMT
<1> QED BY <1>1, <1>2, <1>3, <1>4, <1>5 DEF ReadInv

\* The wait ends: nothing is on the bus any more.
LEMMA ReadTimeout ==
  ASSUME DaemonInv, ReadInv, Timeout
  PROVE  ReadInv'
<1>1. /\ UNCHANGED startVars /\ UNCHANGED <<nodes, peer, down, up, request, written>>
      /\ status = "running" /\ pc = "waiting" /\ Quiet /\ pc' = "idle"
  BY DEF Timeout, Respond
<1>2. Served
  BY <1>1 DEF startVars, Served
<1>3. /\ UNCHANGED <<step, endpoints, cfg, threads>> /\ (status' = "running" => status = "running")
      /\ BusOnly' <=> BusOnly
  BY <1>2, BusKept
<1>4. step \in 1..15
  BY Started DEF DaemonInv, StartOK
<1>5. SUFFICES ASSUME 0 \notin endpoints
               PROVE  step = 15 /\ (IF BusOnly' THEN OnBus' ELSE OffBus') /\ ReadBackWritten'
  <2>1. step' = 15 => ~(step' <= 14)
    BY SMT
  <2> QED BY <1>3, <2>1 DEF ReadInv
<1>6. step = 15
  <2>1. ~(step <= 14)
    BY <1>1, <1>5 DEF ReadInv
  <2> QED BY <1>4, <2>1, SMT
<1>7. IF BusOnly THEN OnBus ELSE OffBus
  BY <1>1, <1>5, <1>6 DEF ReadInv
<1>8. CASE ~BusOnly
  <2>1. OffBus'
    BY <1>1, <1>7, <1>8 DEF OffBus
  <2>2. ReadBackWritten'
    <3>1. written' = <<>>
      BY <1>1, <1>7, <1>8 DEF OffBus
    <3> QED BY <3>1, NothingRead
  <2> QED BY <1>3, <1>6, <1>8, <2>1, <2>2
<1>9. CASE BusOnly
  <2>1. down["bus"] = <<>> /\ up["bus"] = <<>>
    BY <1>1, <1>9 DEF Quiet, BusOnly, Open, Lines
  <2>2. \A S, T : ~HasOne(<<>>, S, T)
    BY EmptyLacks
  <2>3. PICK t, p, w, d, u : t = Ticket /\ p = peer /\ w = written /\ d = down["bus"] /\ u = up["bus"]
    OBVIOUS
  <2>4. ~Asking(t, p, w, d, u) /\ ~Answering(t, p, w, d, u)
    <3>1. d = <<>> /\ u = <<>>
      BY <2>1, <2>3
    <3> QED BY <2>2, <3>1, Zenon DEF Asking, Answering
  <2>5. OnBus
    BY <1>7, <1>9
  <2>6. /\ Resting(p, w, d, u) /\ PeerTyped
        /\ request.method = "get_register_value" => request.id # PeerId
    BY <1>1, <2>3, <2>4, <2>5 DEF OnBus
  <2>7. PeerTyped'
    BY <1>1, <2>6 DEF PeerTyped, PeerKnown
  <2>8. p = peer' /\ w = written' /\ d = down'["bus"] /\ u = up'["bus"]
    BY <1>1, <2>3
  <2>9. OnBus'
    BY <1>1, <2>6, <2>7, <2>8, Zenon DEF OnBus, Resting
  <2>10. ReadBackWritten'
    BY <1>1, <2>6 DEF ReadBackWritten, ReadsWritten, AsExpected
  <2> QED BY <1>3, <1>6, <1>9, <2>9, <2>10
<1> QED BY <1>8, <1>9

-----------------------------------------------------------------------------
(* What was written is read back: the steps of the node and of the API. *)

\* What the node answers is the end of the line.
LEMMA PeerPuts ==
  ASSUME DaemonInv, down["bus"] # <<>>, NEW x \in Garbage, NEW o, o = PeerOutcome(Head(down["bus"]).got),
         SendUp("bus", o.sent, x)
  PROVE  \/ o.sent = <<>> /\ up'["bus"] = up["bus"]
         \/ \E m \in Items : o.sent = <<m.sent>> /\ up'["bus"] = up["bus"] \o <<m>>
<1>1. LinesOK /\ EndpointsOK /\ peer \in Contents /\ "bus" \in Lines
  BY DEF DaemonInv, StartOK, NetOK, Lines
<1>2. PICK f, frames, u : f = Head(down["bus"]).got /\ frames = o.sent /\ u = up["bus"]
  OBVIOUS
<1>3. f \in FitFrames /\ u \in Seq(Items)
  BY <1>1, <1>2, LineHead DEF LinesOK
<1>4. o = PeerOutcome(f) /\ frames = PeerOutcome(f).sent
  BY <1>2
<1>5. frames \in Seq(FitFrames)
  BY <1>1, <1>3, <1>4, PeerFits DEF POutcomes
<1>6. frames = <<>> \/ \E g : frames = <<g>>
  BY <1>4, PeerSends, Zenon
<1>7. PICK on : on = [i \in DOMAIN frames |-> OnLine("bus", frames[i], x)]
  OBVIOUS
<1>8. up'["bus"] = u \o on
  BY <1>1, <1>2, <1>7 DEF SendUp, LinesOK
<1>9. CASE frames = <<>>
  <2>1. on = <<>>
    BY <1>7, <1>9
  <2>2. u \o <<>> = u
    BY <1>3
  <2> QED BY <1>2, <1>8, <1>9, <2>1, <2>2
<1>10. ASSUME NEW g, frames = <<g>>
       PROVE  \E m \in Items : frames = <<m.sent>> /\ up'["bus"] = u \o <<m>>
  <2>1. PICK m : m = OnLine("bus", g, x)
    OBVIOUS
  <2>2. g \in FitFrames
    <3>1. Len(frames) = 1 /\ frames[1] = g
      BY <1>10
    <3>2. frames[1] \in FitFrames
      <4>1. 1 \in 1..Len(frames)
        BY <3>1, SMT
      <4> QED BY <1>5, <4>1, ElementOfSeq
    <3> QED BY <3>1, <3>2
  <2>3. Open("bus")
    BY <1>1 DEF LinesOK
  <2>4. m \in Items
    BY <1>1, <2>1, <2>2, <2>3, LineItem
  <2>5. m.sent = g
    BY <2>1 DEF OnLine
  <2>6. on = <<m>>
    <3>1. DOMAIN frames = 1..1 /\ frames[1] = g
      BY <1>10
    <3>2. on = [i \in 1..1 |-> OnLine("bus", frames[i], x)]
      BY <1>7, <3>1
    <3>3. \A i \in 1..1 : i = 1
      BY SMT
    <3>4. on = [i \in 1..1 |-> m]
      BY <2>1, <3>1, <3>2, <3>3
    <3> QED BY <3>4
  <2> QED BY <1>8, <1>10, <2>4, <2>5, <2>6
<1> QED BY <1>2, <1>6, <1>9, <1>10

\* The node takes a frame: the step of the line to it and of the line from it.
LEMMA ReadPeer ==
  ASSUME DaemonInv, DiscoverInv, ReadInv, PeerStep, UNCHANGED startVars, status = "running"
  PROVE  ReadInv'
<1>1. /\ UNCHANGED <<step, status, endpoints, cfg, threads>> /\ UNCHANGED <<nodes, dev, request, seqnum, pc, response, written>>
      /\ down["bus"] # <<>> /\ down' = [down EXCEPT !["bus"] = Tail(@)]
  BY DEF PeerStep, startVars
<1>2. BusOnly' <=> BusOnly
  BY <1>1 DEF BusOnly, RealEndpoints, Driver
<1>3. LinesOK /\ peer \in Contents /\ "bus" \in Lines /\ step \in 1..15
  BY Started DEF DaemonInv, StartOK, NetOK, Lines
<1>4. step = 15
  <2>1. ~(step <= 14)
    BY <1>1 DEF DiscoverInv, BeforeDiscover
  <2> QED BY <1>3, <2>1, SMT
<1>5. PICK x \in Garbage :
        LET o == PeerOutcome(Head(down["bus"]).got) IN peer' = o.regs /\ SendUp("bus", o.sent, x)
  BY DEF PeerStep
<1>6. PICK o : o = PeerOutcome(Head(down["bus"]).got)
  OBVIOUS
<1>7. peer' = o.regs /\ SendUp("bus", o.sent, x)
  BY <1>5, <1>6
<1>8. PICK t, p, w, d, u, v : t = Ticket /\ p = peer' /\ w = written /\ d = down["bus"] /\ u = up["bus"] /\ v = up'["bus"]
  OBVIOUS
<1>9. d \in Seq(Items) /\ u \in Seq(Items) /\ d # <<>> /\ down'["bus"] = Tail(d) /\ o = PeerOutcome(Head(d).got)
  BY <1>1, <1>3, <1>6, <1>8 DEF LinesOK
<1>10. \/ o.sent = <<>> /\ v = u
       \/ \E m \in Items : o.sent = <<m.sent>> /\ v = u \o <<m>>
  BY <1>1, <1>6, <1>7, <1>8, PeerPuts, Zenon
<1>11. /\ Resting(peer, w, d, u) => Resting(o.regs, w, Tail(d), v)
       /\ Asking(t, peer, w, d, u) => Asking(t, o.regs, w, Tail(d), v) \/ Answering(t, o.regs, w, Tail(d), v)
       /\ Answering(t, peer, w, d, u) => Answering(t, o.regs, w, Tail(d), v)
  BY <1>3, <1>9, <1>10, PeerMoves
<1>12. Ticket' = t /\ (SetKnown => SetKnown') /\ (PeerKnown => PeerKnown')
  BY <1>1, <1>8, TicketKept
<1>13. OnBus => OnBus'
  <2>1. SUFFICES ASSUME OnBus PROVE OnBus'
    OBVIOUS
  <2>2. \/ pc = "idle" /\ Resting(peer, w, d, u)
        \/ pc = "waiting" /\ SetKnown /\ (Asking(t, peer, w, d, u) \/ Answering(t, peer, w, d, u))
        \/ /\ pc = "waiting" /\ Resting(peer, w, d, u)
           /\ request.method = "get_register_value" => request.id # PeerId
    BY <1>8, <2>1, Zenon DEF OnBus
  <2>3. PICK e : e = Tail(d)
    OBVIOUS
  <2>4. \/ pc' = "idle" /\ Resting(p, w, e, v)
        \/ pc' = "waiting" /\ SetKnown' /\ (Asking(t, p, w, e, v) \/ Answering(t, p, w, e, v))
        \/ /\ pc' = "waiting" /\ Resting(p, w, e, v)
           /\ request'.method = "get_register_value" => request'.id # PeerId
    <3> HIDE <2>1
    <3>1. p = o.regs
      BY <1>7, <1>8
    <3> QED BY <1>1, <1>11, <1>12, <2>2, <2>3, <3>1
  <2>5. p = peer' /\ w = written' /\ e = down'["bus"] /\ v = up'["bus"]
    BY <1>1, <1>8, <1>9, <2>3
  <2>6. PeerTyped'
    BY <1>1, <1>12, <2>1 DEF OnBus, PeerTyped
  <2> QED BY <1>12, <2>4, <2>5, <2>6, Zenon DEF OnBus, Resting, Asking, Answering
<1>14. ~OffBus
  BY <1>1 DEF OffBus
<1>15. ReadBackWritten => ReadBackWritten'
  BY <1>1 DEF ReadBackWritten, ReadsWritten, AsExpected
<1>16. ~(step' <= 14)
  BY <1>1, <1>4, SMT
<1> QED BY <1>1, <1>2, <1>4, <1>13, <1>14, <1>15, <1>16 DEF ReadInv

\* A loop endpoint sends back what is not from the node.
LEMMA OffBusSent ==
  ASSUME OffBus, up["bus"] \in Seq(Items), NEW m \in Items, m.sent.source_id # PeerId, written' = written,
         down'["bus"] = down["bus"], up'["bus"] = up["bus"] \o <<m>>
  PROVE  OffBus'
<1>1. PICK u, v : u = up["bus"] /\ v = u \o <<m>>
  OBVIOUS
<1>2. Appended(v, u, m)
  BY <1>1, AppendPlaces
<1>3. PICK n \in Nat : DOMAIN u = 1..n /\ DOMAIN v = 1..(n + 1) /\ (\A i \in 1..n : v[i] = u[i]) /\ v[n + 1] = m
  BY <1>2, Zenon DEF Appended
<1>4. m.got.source_id # PeerId
  BY ItemFields
<1>5. \A i \in 1..(n + 1) : i # n + 1 => i \in 1..n
  BY SMT
<1>6. \A i \in 1..n : u[i].got.source_id # PeerId
  BY <1>1, <1>3 DEF OffBus
<1>7. \A i \in 1..(n + 1) : v[i].got.source_id # PeerId
  BY <1>3, <1>4, <1>5, <1>6, Zenon
<1>8. up'["bus"] = v
  BY <1>1
<1>9. \A i \in DOMAIN up'["bus"] : up'["bus"][i].got.source_id # PeerId
  BY <1>3, <1>7, <1>8, Zenon
<1> QED BY <1>9 DEF OffBus

\* What is not for the node, at the end of the line to it.
LEMMA OnBusSent ==
  ASSUME NEW p, NEW w, NEW d \in Seq(Items), NEW u, Resting(p, w, d, u), NEW m \in Items, m \notin PeersItems
  PROVE  Resting(p, w, d \o <<m>>, u)
<1>1. Lacks(d, PeersItems) /\ Lacks(u, AnswerItems) /\ Keeps(p, w, {})
  BY Zenon DEF Resting
<1>2. Lacks(d \o <<m>>, PeersItems)
  BY <1>1, AppendLacks, Zenon
<1> QED BY <1>1, <1>2, Zenon DEF Resting

\* A frame that main or a client sends.
LEMMA OtherSent ==
  ASSUME OwnRequests, FitRequests, NEW r \in Requests, NEW x \in Garbage, NEW f, NEW raw \in BOOLEAN,
         \/ raw = FALSE /\ f = discover(x)
         \/ r.method = "send_frame" /\ raw = r.raw /\ f = from_json(Blank(x), to_json(r.frame)),
         NEW m \in Items, m.sent = Stamped(f, raw)
  PROVE  m \notin PeersItems /\ m.sent.source_id # PeerId
<1>1. f \in H9Frames
  BY DiscoverSendable, ClientSendable DEF Sendable, FitRequests
<1>2. PICK g : g = m.sent
  OBVIOUS
<1>3. /\ g.type = f.type /\ g.destination_id = f.destination_id
      /\ g.source_id = IF raw THEN f.source_id ELSE BusId
  BY <1>1, <1>2, StampSays, Zenon
<1>4. BusId # PeerId
  BY RequestAssumption
<1>5. CASE raw = FALSE /\ f = discover(x)
  <2>1. f.type = DISCOVER
    BY <1>5 DEF discover, Broadcast, WithData, Blank
  <2>2. ~is_unicast(g)
    BY <1>3, <2>1, SMT DEF is_unicast, DISCOVER
  <2> QED BY <1>2, <1>3, <1>4, <1>5, <2>2, PeersRead, Zenon
<1>6. CASE r.method = "send_frame" /\ raw = r.raw /\ f = from_json(Blank(x), to_json(r.frame))
  <2>1. PICK h : h = r.frame
    OBVIOUS
  <2>2. h \in FitFrames
    BY <2>1 DEF FitRequests
  <2>3. SaysAs(f, h)
    BY <1>6, <2>1, <2>2, ClientSays
  <2>4. f.type = h.type /\ f.source_id = h.source_id /\ (is_unicast(h) => f.destination_id = h.destination_id)
    BY <2>3, Zenon DEF SaysAs
  <2>5. ~(is_unicast(h) /\ h.destination_id = PeerId) /\ (raw => h.source_id # PeerId)
    BY <1>6, <2>1 DEF OwnRequests
  <2>6. is_unicast(g) => is_unicast(h)
    BY <1>3, <2>4 DEF is_unicast
  <2>7. ~(is_unicast(g) /\ g.destination_id = PeerId) /\ g.source_id # PeerId
    BY <1>3, <1>4, <2>4, <2>5, <2>6
  <2> QED BY <1>2, <2>7, PeersRead, Zenon
<1> QED BY <1>5, <1>6

-----------------------------------------------------------------------------
(* What was written is read back: the requests that send a frame. *)

\* Main serves: the kind of bus says what holds of it.
LEMMA ReadServing ==
  ASSUME DaemonInv, ReadInv, Served, step = 15, status = "running",
         BusOnly => (OnBus => OnBus'),
         ~BusOnly => (OffBus => OffBus'),
         ReadBackWritten'
  PROVE  ReadInv'
<1>1. /\ UNCHANGED <<step, endpoints, cfg, threads>> /\ (BusOnly' <=> BusOnly)
  BY BusKept
<1>2. ~(step' <= 14)
  BY <1>1, SMT
<1>3. 0 \notin endpoints => IF BusOnly THEN OnBus ELSE OffBus
  BY DEF ReadInv
<1> QED BY <1>1, <1>2, <1>3 DEF ReadInv

\* The frame of send_frame, or DISCOVER.
LEMMA ReadSent ==
  ASSUME DaemonInv, ReadInv, Served, step = 15, status = "running", pc = "idle", pc' = "idle",
         request'.method # "get_register_value", UNCHANGED <<peer, written, nodes>>,
         NEW x \in Garbage, NEW f, NEW raw \in BOOLEAN, Sendable(f, raw), Send(f, raw, x),
         \A m \in Items : m.sent = Stamped(f, raw) => m \notin PeersItems /\ m.sent.source_id # PeerId
  PROVE  ReadInv'
<1>1. LinesOK /\ EndpointsOK /\ next_seqnum \in 0..31
  BY DEF DaemonInv, StartOK, NetOK
<1>2. PICK d, u, e, v : d = down["bus"] /\ u = up["bus"] /\ e = down'["bus"] /\ v = up'["bus"]
  OBVIOUS
<1>3. d \in Seq(Items) /\ u \in Seq(Items)
  BY <1>1, <1>2 DEF LinesOK, Lines
<1>4. \/ RealEndpoints = {} /\ e = d /\ v = u
      \/ RealEndpoints # {} /\ \E m \in Items :
           /\ m \notin PeersItems /\ m.sent.source_id # PeerId
           /\ IF Driver("bus") = "loop" THEN e = d /\ v = u \o <<m>> ELSE e = d \o <<m>> /\ v = u
  BY <1>1, <1>2, BusGets
<1>5. ASSUME BusOnly, OnBus PROVE OnBus'
  <2>1. Resting(peer, written, d, u) /\ PeerTyped
    BY <1>2, <1>5 DEF OnBus
  <2>2. PICK m \in Items : m \notin PeersItems /\ e = d \o <<m>> /\ v = u
    BY <1>4, <1>5 DEF BusOnly
  <2>3. Resting(peer, written, e, v)
    BY <1>3, <2>1, <2>2, OnBusSent
  <2>4. Resting(peer', written', down'["bus"], up'["bus"])
    BY <1>2, <2>3
  <2>5. PeerTyped'
    BY <2>1 DEF PeerTyped, PeerKnown
  <2> QED BY <2>4, <2>5, Zenon DEF OnBus, Resting
<1>6. ASSUME ~BusOnly, OffBus, 0 \notin endpoints PROVE OffBus'
  <2>1. CASE RealEndpoints = {}
    BY <1>2, <1>4, <1>6, <2>1 DEF OffBus
  <2>2. CASE RealEndpoints # {}
    <3>1. PICK m \in Items : m.sent.source_id # PeerId /\ e = d /\ v = u \o <<m>>
      BY <1>4, <1>6, <2>2 DEF BusOnly
    <3> QED BY <1>2, <1>3, <1>6, <3>1, OffBusSent
  <2> QED BY <2>1, <2>2
<1>7. ReadBackWritten'
  BY NothingRead
<1>8. CASE 0 \notin endpoints
  BY <1>5, <1>6, <1>7, <1>8, ReadServing, Zenon
<1>9. CASE 0 \in endpoints
  BY <1>9, BusKept DEF ReadInv
<1> QED BY <1>8, <1>9

\* discover_nodes and send_frame: their frames are neither to the node nor from it.
LEMMA ReadSends ==
  ASSUME FitRequests, OwnRequests, DaemonInv, ReadInv, NEW r \in Requests, SendsFrame(r)
  PROVE  ReadInv'
<1>1. /\ UNCHANGED startVars /\ UNCHANGED <<peer, nodes, written>> /\ request' = NoRequest
      /\ pc = "idle" /\ pc' = "idle" /\ Serving /\ r.method \in {"discover_nodes", "send_frame"}
  BY DEF SendsFrame, Called, Respond
<1>2. Served /\ status = "running"
  BY <1>1 DEF Served, startVars, Serving, At
<1>3. step = 15
  BY <1>1, Started, ServingLast DEF DaemonInv, StartOK
<1>4. request'.method # "get_register_value"
  BY <1>1 DEF NoRequest
<1>5. PICK x \in Garbage :
        IF r.method = "discover_nodes" THEN Send(discover(x), FALSE, x)
        ELSE Send(from_json(Blank(x), to_json(r.frame)), r.raw, x)
  BY DEF SendsFrame
<1>6. PICK f, raw : IF r.method = "discover_nodes" THEN raw = FALSE /\ f = discover(x)
                    ELSE raw = r.raw /\ f = from_json(Blank(x), to_json(r.frame))
  OBVIOUS
<1>7. Send(f, raw, x)
  BY <1>5, <1>6, Zenon
<1>8. raw \in BOOLEAN
  BY <1>6, RequestFields
<1>9. Sendable(f, raw)
  BY <1>6, RequestFields, DiscoverSendable, ClientSendable DEF FitRequests
<1>10. \/ raw = FALSE /\ f = discover(x)
       \/ r.method = "send_frame" /\ raw = r.raw /\ f = from_json(Blank(x), to_json(r.frame))
  BY <1>1, <1>6
<1>11. \A m \in Items : m.sent = Stamped(f, raw) => m \notin PeersItems /\ m.sent.source_id # PeerId
  BY <1>8, <1>10, OtherSent
<1> QED BY <1>1, <1>2, <1>3, <1>4, <1>7, <1>8, <1>9, <1>11, ReadSent

-----------------------------------------------------------------------------
(* What was written is read back: the requests that wait. *)

\* The frame of a call to the node, numbered, is the one its ticket is about.
LEMMA CallAsked ==
  ASSUME NEW r, NEW d, NEW f, Calls(r, d, f), r.id = PeerId,
         NEW g, g.type = f.type, g.destination_id = f.destination_id,
         \A n, bytes : Holds(f, n, bytes) => Holds(g, n, bytes),
         NEW t, t.method = r.method, t.id = PeerId, t.reg = r.reg, t.value = r.value, t.seq = g.seqnum,
         t.method = "set_register_value" => t.dsc = d
  PROVE  Asked(t, g) /\ is_unicast(g) /\ g.destination_id = PeerId
<1>1. is_unicast(g) /\ g.destination_id = PeerId
  BY DEF Calls, is_unicast
<1>2. CASE r.method = "node_reset" /\ f.type = NODE_RESET
  BY <1>1, <1>2, Zenon DEF Asked
<1>3. CASE /\ r.method # "node_reset" /\ f.type \in {GET_REG, SET_REG, SET_BIT, CLEAR_BIT}
           /\ r.method = "get_register_value" <=> f.type = GET_REG
           /\ r.method = "set_register_value" => f.type = SET_REG
           /\ \E b : Holds(f, r.reg, b) /\ (r.method = "set_register_value" => b \in SetBytes(d, r.value))
  <2>1. PICK b : Holds(f, r.reg, b) /\ (r.method = "set_register_value" => b \in SetBytes(d, r.value))
    BY <1>3, Zenon
  <2>2. Holds(g, t.reg, b)
    BY <2>1, Zenon
  <2>3. t.method = "set_register_value" => b \in SetBytes(t.dsc, t.value)
    BY <2>1
  <2>4. /\ t.method # "node_reset" /\ g.type \in {GET_REG, SET_REG, SET_BIT, CLEAR_BIT}
        /\ t.method = "get_register_value" <=> g.type = GET_REG
        /\ t.method = "set_register_value" => g.type = SET_REG
    BY <1>3
  <2> QED BY <1>1, <2>2, <2>3, <2>4, Zenon DEF Asked
<1> QED BY <1>1, <1>2, <1>3, Zenon DEF Calls

\* The request waiting, as the call leaves it.
LEMMA CallTicket ==
  ASSUME NEW r, request' = r, nodes' = nodes, dev' = dev,
         r.method = "dev_method_call" => r.id = dev.switch_node_id /\ r.reg = ANTENNA_SELECT_REG
  PROVE  /\ Ticket'.method = r.method /\ Ticket'.id = r.id /\ Ticket'.reg = r.reg
         /\ Ticket'.value = r.value /\ Ticket'.seq = seqnum'
         /\ r.method = "set_register_value" => Ticket'.dsc = nodes[PeerId].regs[r.reg]
         /\ Target' = r.id
<1>1. Target' = r.id /\ TargetReg' = r.reg
  BY DEF Target, TargetReg
<1>2. Ticket' = [method |-> r.method, id |-> r.id, reg |-> r.reg, value |-> r.value, seq |-> seqnum',
                 dsc |-> IF r.method = "set_register_value" THEN nodes[PeerId].regs[r.reg] ELSE 0]
  BY <1>1 DEF Ticket
<1> QED BY <1>1, <1>2

\* A set_register that is not refused knows the register of the node.
LEMMA CallKnown ==
  ASSUME PeerTyped, NEW r, request' = r, nodes' = nodes, dev' = dev, Writes(r.value),
         NodeRefuses(r) = "none", Target' = r.id
  PROVE  SetKnown'
<1>1. SUFFICES ASSUME r.method = "set_register_value", r.id = PeerId
               PROVE  /\ PeerKnown' /\ r.reg \in DOMAIN nodes[PeerId].regs
                      /\ Conversion(nodes[PeerId].regs[r.reg], r.value) # "none"
  BY DEF SetKnown
<1>2. PeerId \in DOMAIN nodes /\ SetRefused(nodes[PeerId].regs, r.reg, r.value) = "none"
  BY <1>1 DEF NodeRefuses
<1>3. r.reg \in DOMAIN nodes[PeerId].regs /\ Conversion(nodes[PeerId].regs[r.reg], r.value) # "none"
  BY <1>2 DEF SetRefused
<1>4. nodes[PeerId] # NewNode
  BY <1>3 DEF NewNode
<1>5. PeerKnown
  BY <1>2, <1>4 DEF PeerTyped
<1> QED BY <1>3, <1>5 DEF PeerKnown

\* The call of a method that waits for the answer of a node.
LEMMA ReadCalled ==
  ASSUME DaemonInv, ReadInv, Served, step = 15, status = "running", pc = "idle",
         UNCHANGED <<peer, written, nodes, dev>>,
         NEW r, r.bit \in Byte, Writes(r.value), r.method \in NodeMethods \cup {"dev_method_call"},
         r.method = "dev_method_call" => r.id = dev.switch_node_id /\ r.reg = ANTENNA_SELECT_REG,
         CallNode(r)
  PROVE  ReadInv'
<1>1. LinesOK /\ EndpointsOK /\ next_seqnum \in 0..31 /\ NodesOK
  BY DEF DaemonInv, StartOK, NetOK, KnownOK
<1>2. CASE NodeRefuses(r) # "none"
  <2>1. pc' = "idle" /\ request' = NoRequest /\ UNCHANGED <<down, up>>
    BY <1>2 DEF CallNode, Respond
  <2>2. PeerTyped => PeerTyped'
    BY DEF PeerTyped, PeerKnown
  <2> QED BY <2>1, <2>2, ReadAnswered
<1>3. CASE NodeRefuses(r) = "none"
  <2>1. pc' = "waiting" /\ request' = r
    BY <1>3 DEF CallNode, Await
  <2>2. PICK x \in Garbage : \E f \in Frames(r, x) : Send(f, FALSE, x)
    BY <1>3 DEF CallNode
  <2>3. PICK f \in Frames(r, x) : Send(f, FALSE, x)
    BY <2>2
  <2>4. Sendable(f, FALSE)
    <3>1. ValueOK(r.value)
      BY Zenon DEF Writes
    <3> QED BY <1>1, <1>3, <3>1, NodeFrames
  <2>5. PICK dsc : dsc = nodes[r.id].regs[r.reg]
    OBVIOUS
  <2>6. Calls(r, dsc, f)
    BY <1>1, <1>3, <2>5, CallFrame
  <2>7. PICK g : g = Stamped(f, FALSE)
    OBVIOUS
  <2>8. f \in H9Frames
    BY <2>6 DEF Calls
  <2>9. /\ g.type = f.type /\ g.destination_id = f.destination_id /\ g.source_id = BusId
        /\ \A n, bytes : Holds(f, n, bytes) => Holds(g, n, bytes)
    <3>1. FALSE \in BOOLEAN
      OBVIOUS
    <3> QED BY <2>7, <2>8, <3>1, StampSays, Zenon
  <2>10. seqnum' = g.seqnum
    BY <2>3, <2>7, Zenon DEF Send
  <2>11. PICK d, u, e, v : d = down["bus"] /\ u = up["bus"] /\ e = down'["bus"] /\ v = up'["bus"]
    OBVIOUS
  <2>12. d \in Seq(Items) /\ u \in Seq(Items)
    BY <1>1, <2>11 DEF LinesOK, Lines
  <2>13. \/ RealEndpoints = {} /\ e = d /\ v = u
         \/ RealEndpoints # {} /\ \E m \in Items :
              /\ m.sent = g
              /\ IF Driver("bus") = "loop" THEN e = d /\ v = u \o <<m>> ELSE e = d \o <<m>> /\ v = u
    <3>1. FALSE \in BOOLEAN
      OBVIOUS
    <3> QED BY <1>1, <2>3, <2>4, <2>7, <2>11, <3>1, BusGets, Zenon
  <2>14. BusId # PeerId
    BY RequestAssumption
  <2>15. ASSUME BusOnly, OnBus PROVE OnBus'
    <3>1. Resting(peer, written, d, u) /\ PeerTyped
      BY <2>11, <2>15 DEF OnBus
    <3>2. PICK m \in Items : m.sent = g /\ e = d \o <<m>> /\ v = u
      BY <2>13, <2>15 DEF BusOnly
    <3>3. PeerTyped'
      BY <3>1 DEF PeerTyped, PeerKnown
    <3>4. CASE r.id # PeerId
      <4>1. m \notin PeersItems
        BY <2>6, <2>9, <3>2, <3>4, PeersRead DEF Calls
      <4>2. Resting(peer, written, e, v)
        BY <2>12, <3>1, <3>2, <4>1, OnBusSent
      <4>3. Resting(peer', written', down'["bus"], up'["bus"])
        BY <2>11, <4>2
      <4>4. request'.method = "get_register_value" => request'.id # PeerId
        BY <2>1, <3>4
      <4> QED BY <2>1, <3>3, <4>3, <4>4, Zenon DEF OnBus, Resting
    <3>5. CASE r.id = PeerId
      <4>1. PICK t : t = Ticket'
        OBVIOUS
      <4>2. /\ t.method = r.method /\ t.id = PeerId /\ t.reg = r.reg /\ t.value = r.value
            /\ t.seq = g.seqnum /\ (t.method = "set_register_value" => t.dsc = dsc)
            /\ Target' = r.id
        BY <2>1, <2>5, <2>10, <3>5, <4>1, CallTicket
      <4>3. Asked(t, g) /\ is_unicast(g) /\ g.destination_id = PeerId
        BY <2>6, <2>9, <3>5, <4>2, CallAsked
      <4>4. m \in AskedItems(t) /\ m \in PeersItems
        BY <3>2, <4>3, AskedRead, PeersRead
      <4>5. HasOne(e, PeersItems, AskedItems(t))
        <5>1. Lacks(d, PeersItems) /\ m \in PeersItems \cap AskedItems(t)
          BY <3>1, <4>4 DEF Resting
        <5> QED BY <2>12, <3>2, <5>1, AppendLacks, Zenon
      <4>6. Asking(t, peer, written, e, v)
        BY <3>1, <3>2, <4>5, Zenon DEF Asking, Resting
      <4>7. Asking(Ticket', peer', written', down'["bus"], up'["bus"])
        BY <2>11, <4>1, <4>6
      <4>8. SetKnown'
        BY <1>3, <2>1, <3>1, <4>2, CallKnown
      <4> QED BY <2>1, <3>3, <4>7, <4>8, Zenon DEF OnBus, Asking
    <3> QED BY <3>4, <3>5
  <2>16. ASSUME ~BusOnly, OffBus, 0 \notin endpoints PROVE OffBus'
    <3>1. CASE RealEndpoints = {}
      BY <2>11, <2>13, <2>16, <3>1 DEF OffBus
    <3>2. CASE RealEndpoints # {}
      <4>1. PICK m \in Items : m.sent = g /\ e = d /\ v = u \o <<m>>
        BY <2>13, <2>16, <3>2 DEF BusOnly
      <4>2. m.sent.source_id # PeerId
        BY <2>9, <2>14, <4>1
      <4> QED BY <2>11, <2>12, <2>16, <4>1, <4>2, OffBusSent
    <3> QED BY <3>1, <3>2
  <2>17. ReadBackWritten'
    BY <2>1, NothingRead
  <2>18. CASE 0 \notin endpoints
    BY <2>15, <2>16, <2>17, <2>18, ReadServing, Zenon
  <2>19. CASE 0 \in endpoints
    BY <2>19, BusKept DEF ReadInv
  <2> QED BY <2>18, <2>19
<1> QED BY <1>2, <1>3

-----------------------------------------------------------------------------
(* What was written is read back: the methods of the API. *)

\* Values that clients give.
LEMMA RequestWrites ==
  ASSUME NEW r \in Requests
  PROVE  Writes(r.value)
<1>1. /\ r.value = Json(r.value.json, r.value.value)
      /\ r.value.json = "float" => Len(r.value.value) = 4
  BY ContentsAssumption
<1>2. ValueOK(r.value)
  BY RequestFields
<1> QED BY <1>1, <1>2, Zenon DEF Writes

\* Methods that leave the nodes.
LEMMA ReadKnows ==
  ASSUME DaemonInv, ReadInv, NEW r \in Requests,
         Refuse(r) \/ Reads(r) \/ authenticate(r) \/ get_node_info(r)
  PROVE  ReadInv'
<1>1. /\ UNCHANGED <<peer, written, nodes>> /\ request' = NoRequest /\ Serving
      /\ pc = "idle" /\ pc' = "idle" /\ UNCHANGED <<down, up>>
  BY DEF Refuse, Reads, authenticate, get_node_info, Called, Respond
<1>2. Served
  <2>1. CASE Refuse(r) \/ Reads(r) \/ authenticate(r)
    <3>1. UNCHANGED startVars
      BY <2>1 DEF Refuse, Reads, authenticate
    <3> QED BY <3>1 DEF Served, startVars
  <2>2. CASE get_node_info(r)
    BY <2>2 DEF get_node_info, Abort, Served
  <2> QED BY <2>1, <2>2
<1>3. step = 15
  BY <1>1, Started, ServingLast DEF DaemonInv, StartOK
<1>4. PeerTyped => PeerTyped'
  BY <1>1 DEF PeerTyped, PeerKnown
<1> QED BY <1>1, <1>2, <1>3, <1>4, ReadAnswered

\* The methods of NodeMgr that wait for the answer of a node.
LEMMA ReadCalls ==
  ASSUME DaemonInv, ReadInv, NEW r \in Requests, CallsNode(r)
  PROVE  ReadInv'
<1>1. /\ UNCHANGED startVars /\ UNCHANGED <<peer, written, nodes, dev>> /\ Serving
      /\ pc = "idle" /\ CallNode(r) /\ r.method \in NodeMethods
  BY DEF CallsNode, Called
<1>2. Served /\ status = "running"
  BY <1>1 DEF Served, startVars, Serving, At
<1>3. step = 15
  BY <1>1, Started, ServingLast DEF DaemonInv, StartOK
<1>4. r.bit \in Byte /\ Writes(r.value)
  BY RequestFields, RequestWrites
<1>5. r.method # "dev_method_call"
  BY <1>1 DEF NodeMethods
<1> QED BY <1>1, <1>2, <1>3, <1>4, <1>5, ReadCalled

\* The device's call is one to the node of the antenna switch.
LEMMA ReadDevCall ==
  ASSUME DaemonInv, ReadInv, NEW r \in Requests, dev_method_call(r)
  PROVE  ReadInv'
<1>1. /\ UNCHANGED <<peer, written, nodes, dev>> /\ Serving
      /\ pc = "idle" /\ r.method = "dev_method_call"
  BY DEF dev_method_call, Called
<1>2. Served
  BY DEF dev_method_call, Abort, Served
<1>3. step = 15 /\ status = "running"
  BY <1>1, Started, ServingLast DEF DaemonInv, StartOK, Serving, At
<1>4. PICK q : q = [r EXCEPT !.id = dev.switch_node_id, !.reg = ANTENNA_SELECT_REG]
  OBVIOUS
<1>5. /\ q.bit = r.bit /\ q.value = r.value /\ q.method = r.method
      /\ q.id = dev.switch_node_id /\ q.reg = ANTENNA_SELECT_REG
  <2>1. DOMAIN r = DOMAIN NoRequest
    BY ContentsAssumption
  <2>2. {"bit", "value", "method", "id", "reg"} \subseteq DOMAIN r
    BY <2>1 DEF NoRequest
  <2> QED BY <1>4, <2>2
<1>6. CallNode(q) \/ (UNCHANGED <<down, up>> /\ pc' = "idle" /\ request' = NoRequest)
  BY <1>1, <1>4 DEF dev_method_call, Respond
<1>7. CASE CallNode(q)
  <2>1. q.bit \in Byte /\ Writes(q.value)
    BY <1>5, RequestFields, RequestWrites
  <2> QED BY <1>1, <1>2, <1>3, <1>5, <1>7, <2>1, ReadCalled
<1>8. CASE UNCHANGED <<down, up>> /\ pc' = "idle" /\ request' = NoRequest
  <2>1. PeerTyped => PeerTyped'
    BY <1>1 DEF PeerTyped, PeerKnown
  <2> QED BY <1>1, <1>2, <1>3, <1>8, <2>1, ReadAnswered
<1> QED BY <1>6, <1>7, <1>8

\* A client's requests.
LEMMA ReadServe ==
  ASSUME FitRequests, OwnRequests, DaemonInv, ReadInv, NEW r \in Requests,
         \/ Refuse(r) \/ Reads(r) \/ authenticate(r) \/ get_node_info(r)
         \/ SendsFrame(r) \/ CallsNode(r) \/ dev_method_call(r)
  PROVE  ReadInv'
<1>1. CASE Refuse(r) \/ Reads(r) \/ authenticate(r) \/ get_node_info(r) BY <1>1, ReadKnows, Zenon
<1>2. CASE SendsFrame(r) BY <1>2, ReadSends, Zenon
<1>3. CASE CallsNode(r) BY <1>3, ReadCalls, Zenon
<1>4. CASE dev_method_call(r) BY <1>4, ReadDevCall, Zenon
<1> QED BY <1>1, <1>2, <1>3, <1>4

-----------------------------------------------------------------------------
(* What was written is read back: the bus thread. *)

\* The device of the antenna switch is never another node's.
LEMMA DevStays ==
  ASSUME DevOK, NEW f, dev.switch_node_id = PeerId
  PROVE  UpdateDev(f).switch_node_id = PeerId
<1>1. PICK v : v = RegValueFromFrame(UpdateNodes(f)[PeerId].regs, f)
  OBVIOUS
<1>2. dev = [switch_node_id |-> PeerId, selected |-> dev.selected]
  BY DEF DevOK
<1>3. \/ UpdateDev(f) = dev \/ UpdateDev(f) = [dev EXCEPT !.switch_node_id = PeerId]
      \/ UpdateDev(f) = [dev EXCEPT !.selected = Low(v.value[1], 8)]
  BY <1>1, Zenon DEF UpdateDev
<1> QED BY <1>2, <1>3

\* A frame that is taken leaves the ticket of a request to the node.
LEMMA TicketStays ==
  ASSUME NodesOK, DevOK, NEW f, FromPeer(f), SetKnown, Target = PeerId,
         nodes' = UpdateNodes(f), dev' = UpdateDev(f), UNCHANGED <<request, seqnum>>
  PROVE  Ticket' = Ticket
<1>1. Target' = Target /\ TargetReg' = TargetReg
  BY DevStays DEF Target, TargetReg
<1>2. request.method = "set_register_value" => nodes'[PeerId] = nodes[PeerId]
  BY RegsSame DEF SetKnown
<1> QED BY <1>1, <1>2 DEF Ticket

\* A frame that is taken leaves the register that a set_register is about.
LEMMA SetStays ==
  ASSUME NodesOK, NEW f, FromPeer(f), SetKnown, nodes' = UpdateNodes(f), UNCHANGED request
  PROVE  SetKnown'
<1>1. SUFFICES ASSUME request.method = "set_register_value", request.id = PeerId
               PROVE  /\ PeerKnown' /\ request.reg \in DOMAIN nodes'[PeerId].regs /\ Writes(request.value)
                      /\ Conversion(nodes'[PeerId].regs[request.reg], request.value) # "none"
  BY DEF SetKnown, Target
<1>2. /\ PeerKnown /\ request.reg \in DOMAIN nodes[PeerId].regs /\ Writes(request.value)
      /\ Conversion(nodes[PeerId].regs[request.reg], request.value) # "none"
  BY <1>1 DEF SetKnown, Target
<1>3. PeerId \in DOMAIN nodes' /\ nodes'[PeerId] = nodes[PeerId]
  BY <1>2, RegsSame
<1> QED BY <1>2, <1>3 DEF PeerKnown

\* A request that is on the bus, or its answer, is one to the node.
LEMMA TicketOfPeer ==
  ASSUME NEW t, NEW p, NEW w, NEW d, NEW u, Asking(t, p, w, d, u) \/ Answering(t, p, w, d, u)
  PROVE  t.id = PeerId
<1>1. CASE Asking(t, p, w, d, u)
  <2>1. PICK k : d[k] \in PeersItems \cap AskedItems(t)
    BY <1>1 DEF Asking, HasOne
  <2> QED BY <2>1 DEF AskedItems, Asked
<1>2. CASE Answering(t, p, w, d, u)
  <2>1. PICK k : u[k] \in AnswerItems \cap ToldItems(t, p, w)
    BY <1>2 DEF Answering, HasOne
  <2> QED BY <2>1 DEF ToldItems, Told
<1> QED BY <1>1, <1>2

\* The bus thread takes what is no answer.
LEMMA OtherHandled ==
  ASSUME NodesOK, DevOK, OnBus, NEW u \in Seq(Items), u # <<>>, u = up["bus"], Head(u) \notin AnswerItems,
         NEW f, f = Head(u).got, FromPeer(f),
         up'["bus"] = Tail(u), down' = down, UNCHANGED <<peer, request, seqnum>>,
         nodes' = UpdateNodes(f), dev' = UpdateDev(f), written' = NowWritten(f),
         IF Matches(f) THEN Respond(Result(f)) ELSE UNCHANGED <<pc, response>>
  PROVE  OnBus' /\ (ReadBackWritten => ReadBackWritten')
<1>1. Head(u) \in Items
  BY HeadTailProperties
<1>2. f.source_id = PeerId /\ f.type \notin {COMMAND_ERROR, REG_VALUE, NODE_TURNED_ON}
  BY <1>1 DEF FromPeer, AnswerItems
<1>3. UNCHANGED <<pc, response, written>>
  BY <1>2, OtherTaken
<1>4. PeerTyped
  BY DEF OnBus
<1>5. PeerTyped'
  <2>1. DOMAIN written' # {} => PeerKnown
    BY <1>3, <1>4 DEF PeerTyped
  <2> QED BY <1>4, <2>1, TypedKept
<1>6. PICK t, p, w, d, e : t = Ticket /\ p = peer /\ w = written /\ d = down["bus"] /\ e = Tail(u)
  OBVIOUS
<1>7. /\ Lacks(u, AnswerItems) => Lacks(e, AnswerItems)
      /\ \A T : HasOne(u, AnswerItems, T) => HasOne(e, AnswerItems, T)
  BY <1>6, TailLacks, TailHasOne
<1>8. /\ Resting(p, w, d, u) => Resting(p, w, d, e)
      /\ Asking(t, p, w, d, u) => Asking(t, p, w, d, e)
      /\ Answering(t, p, w, d, u) => Answering(t, p, w, d, e)
  BY <1>7, Zenon DEF Resting, Asking, Answering
<1>9. \/ pc = "idle" /\ Resting(p, w, d, u)
      \/ pc = "waiting" /\ SetKnown /\ (Asking(t, p, w, d, u) \/ Answering(t, p, w, d, u))
      \/ /\ pc = "waiting" /\ Resting(p, w, d, u)
         /\ request.method = "get_register_value" => request.id # PeerId
  BY <1>6, Zenon DEF OnBus
<1>10. SetKnown => SetKnown'
  BY SetStays
<1>11. SetKnown /\ (Asking(t, p, w, d, u) \/ Answering(t, p, w, d, u)) => Ticket' = t
  <2>1. SUFFICES ASSUME SetKnown, Asking(t, p, w, d, u) \/ Answering(t, p, w, d, u)
                 PROVE  Ticket' = t
    OBVIOUS
  <2>2. t.id = PeerId
    BY <2>1, TicketOfPeer
  <2>3. Target = PeerId
    BY <1>6, <2>2, TicketFields
  <2> QED BY <1>6, <2>1, <2>3, TicketStays
<1>12. p = peer' /\ w = written' /\ d = down'["bus"] /\ e = up'["bus"]
  BY <1>3, <1>6
<1>13. OnBus'
  <2>1. CASE pc = "idle" /\ Resting(p, w, d, u)
    BY <1>3, <1>5, <1>8, <1>12, <2>1, Zenon DEF OnBus, Resting
  <2>2. CASE pc = "waiting" /\ SetKnown /\ (Asking(t, p, w, d, u) \/ Answering(t, p, w, d, u))
    <3>1. t = Ticket' /\ SetKnown' /\ pc' = "waiting"
      BY <1>3, <1>10, <1>11, <2>2
    <3>2. Asking(t, p, w, d, e) \/ Answering(t, p, w, d, e)
      BY <1>8, <2>2
    <3>3. \/ Asking(Ticket', peer', written', down'["bus"], up'["bus"])
          \/ Answering(Ticket', peer', written', down'["bus"], up'["bus"])
      BY <1>12, <3>1, <3>2
    <3> QED BY <1>5, <3>1, <3>3, Zenon DEF OnBus, Asking, Answering
  <2>3. CASE /\ pc = "waiting" /\ Resting(p, w, d, u)
             /\ request.method = "get_register_value" => request.id # PeerId
    <3>1. /\ pc' = "waiting" /\ Resting(peer', written', down'["bus"], up'["bus"])
          /\ request'.method = "get_register_value" => request'.id # PeerId
      BY <1>3, <1>8, <1>12, <2>3
    <3> QED BY <1>5, <3>1, Zenon DEF OnBus, Resting
  <2> QED BY <1>9, <2>1, <2>2, <2>3, Zenon
<1>14. DOMAIN written # {} => nodes'[PeerId] = nodes[PeerId]
  BY <1>4, RegsSame DEF PeerTyped
<1>15. ReadBackWritten => ReadBackWritten'
  BY <1>3, <1>14 DEF ReadBackWritten, ReadsWritten, AsExpected
<1> QED BY <1>13, <1>15

\* The bus thread takes the answer.
LEMMA AnswerHandled ==
  ASSUME NodesOK, peer \in Contents, OnBus, NEW u \in Seq(Items), u # <<>>, u = up["bus"],
         Head(u) \in AnswerItems, NEW f, f = Head(u).got, FromPeer(f),
         up'["bus"] = Tail(u), down' = down, UNCHANGED <<peer, request>>,
         nodes' = UpdateNodes(f), written' = NowWritten(f),
         IF Matches(f) THEN Respond(Result(f)) ELSE UNCHANGED <<pc, response>>
  PROVE  OnBus' /\ ReadBackWritten'
<1>1. PICK t, p, w, d, e : t = Ticket /\ p = peer /\ w = written /\ d = down["bus"] /\ e = Tail(u)
  OBVIOUS
<1>2. ~Lacks(u, AnswerItems)
  BY TailLacks
<1>3. /\ PeerTyped /\ pc = "waiting" /\ SetKnown /\ Answering(t, p, w, d, u)
  <2>1. \/ pc = "idle" /\ Resting(p, w, d, u)
        \/ pc = "waiting" /\ SetKnown /\ (Asking(t, p, w, d, u) \/ Answering(t, p, w, d, u))
        \/ /\ pc = "waiting" /\ Resting(p, w, d, u)
           /\ request.method = "get_register_value" => request.id # PeerId
    BY <1>1, Zenon DEF OnBus
  <2>2. ~Resting(p, w, d, u) /\ ~Asking(t, p, w, d, u)
    BY <1>2, Zenon DEF Resting, Asking
  <2>3. PeerTyped
    BY DEF OnBus
  <2> QED BY <2>1, <2>2, <2>3, Zenon
<1>4. Lacks(d, PeersItems) /\ HasOne(u, AnswerItems, ToldItems(t, p, w))
  BY <1>3, Zenon DEF Answering
<1>5. Head(u) \in ToldItems(t, p, w) /\ Lacks(e, AnswerItems)
  BY <1>1, <1>4, TailHasOne
<1>6. Told(Ticket, peer, written, f)
  BY <1>1, <1>5 DEF ToldItems
<1>7. /\ pc' = "idle" \/ (pc' = "waiting" /\ request.method = "node_reset")
      /\ Keeps(peer, written', {}) /\ PeerTyped' /\ ReadBackWritten'
  <2>1. request' = request
    OBVIOUS
  <2> QED BY <1>3, <1>6, <2>1, AnswerTaken, Zenon
<1>8. Resting(peer', written', down'["bus"], up'["bus"])
  <2>1. PICK w2 : w2 = written'
    OBVIOUS
  <2>2. Resting(p, w2, d, e)
    BY <1>1, <1>4, <1>5, <1>7, <2>1, Zenon DEF Resting
  <2> QED BY <1>1, <2>1, <2>2
<1>9. pc' = "waiting" => request'.method = "node_reset"
  BY <1>7
<1> QED BY <1>7, <1>8, <1>9, Zenon DEF OnBus, Resting

\* A frame is taken from a loop endpoint: it is not from the node.
LEMMA OffHandled ==
  ASSUME OffBus, NEW u \in Seq(Items), u # <<>>, u = up["bus"], up'["bus"] = Tail(u), down' = down,
         NEW f, f = Head(u).got, written' = written \/ written' = NowWritten(f)
  PROVE  OffBus' /\ ReadBackWritten'
<1>1. \A j \in DOMAIN Tail(u) : \E i \in DOMAIN u : Tail(u)[j] = u[i]
  BY TailPlaces, Zenon
<1>2. \A i \in DOMAIN u : u[i].got.source_id # PeerId
  BY DEF OffBus
<1>3. \A j \in DOMAIN Tail(u) : Tail(u)[j].got.source_id # PeerId
  BY <1>1, <1>2, Zenon
<1>4. f.source_id # PeerId
  <2>1. 1 \in DOMAIN u /\ Head(u) = u[1]
    BY LenProperties, EmptySeq, SMT
  <2> QED BY <1>2, <2>1
<1>5. NowWritten(f) = written
  BY <1>4, Zenon DEF NowWritten
<1>6. written' = <<>> /\ down'["bus"] = <<>>
  BY <1>5 DEF OffBus
<1>7. OffBus'
  BY <1>3, <1>6 DEF OffBus
<1> QED BY <1>6, <1>7, NothingRead

\* The bus thread: every frame that it takes.
LEMMA ReadReceive ==
  ASSUME DaemonInv, DiscoverInv, ReadInv, NEW l \in Lines, Receive(l)
  PROVE  ReadInv'
<1>1. Served
  BY DEF Receive, Abort, Served
<1>2. /\ UNCHANGED <<step, endpoints, cfg, threads>> /\ (status' = "running" => status = "running")
      /\ BusOnly' <=> BusOnly
  BY <1>1, BusKept
<1>3. LinesOK /\ NodesOK /\ DevOK /\ peer \in Contents /\ step \in 1..15
  BY Started DEF DaemonInv, StartOK, NetOK, KnownOK
<1>4. /\ down' = down /\ Open(l) /\ up[l] # <<>> /\ up' = [up EXCEPT ![l] = Tail(@)]
      /\ UNCHANGED <<peer, request, seqnum>> /\ status = "running"
  BY DEF Receive
<1>5. CASE 0 \in endpoints
  BY <1>2, <1>5 DEF ReadInv
<1>6. CASE 0 \notin endpoints
  <2>1. l = "bus"
    BY <1>4, <1>6 DEF Open, Lines
  <2>2. step = 15 /\ NodeMgrAttached
    BY <1>3, <1>4, <2>1, SMT DEF DiscoverInv, BeforeDiscover
  <2>3. PICK u : u = up["bus"]
    OBVIOUS
  <2>4. u \in Seq(Items) /\ u # <<>> /\ up'["bus"] = Tail(u)
    BY <1>3, <1>4, <2>1, <2>3 DEF LinesOK, Lines
  <2>5. PICK f : f = Head(u).got
    OBVIOUS
  <2>6. \/ DevThrows(f) /\ Abort /\ UNCHANGED <<nodes, dev, pc, response, written>>
        \/ /\ nodes' = UpdateNodes(f) /\ dev' = UpdateDev(f) /\ written' = NowWritten(f)
           /\ IF Matches(f) THEN Respond(Result(f)) ELSE UNCHANGED <<pc, response>>
           /\ status' = status
    BY <2>1, <2>2, <2>3, <2>5, Zenon DEF Receive
  <2>7. (IF BusOnly THEN OnBus ELSE OffBus) /\ ReadBackWritten
    BY <1>4, <1>6, <2>2 DEF ReadInv
  <2>8. ~(step' <= 14)
    BY <1>2, <2>2, SMT
  <2>9. CASE Abort /\ UNCHANGED <<nodes, dev, pc, response, written>>
    <3>1. status' # "running"
      BY <2>9 DEF Abort
    <3>2. ReadBackWritten'
      BY <1>4, <2>7, <2>9 DEF ReadBackWritten, ReadsWritten, AsExpected
    <3> QED BY <2>8, <3>1, <3>2 DEF ReadInv
  <2>10. CASE /\ nodes' = UpdateNodes(f) /\ dev' = UpdateDev(f) /\ written' = NowWritten(f)
              /\ IF Matches(f) THEN Respond(Result(f)) ELSE UNCHANGED <<pc, response>>
    <3>1. CASE ~BusOnly
      <4>1. OffBus
        BY <2>7, <3>1
      <4>2. OffBus' /\ ReadBackWritten'
        BY <1>4, <2>3, <2>4, <2>5, <2>10, <4>1, OffHandled
      <4> QED BY <1>2, <2>8, <3>1, <4>2 DEF ReadInv
    <3>2. CASE BusOnly
      <4>1. OnBus
        BY <2>7, <3>2
      <4>2. FromPeer(f)
        <5>1. \A i \in DOMAIN u : FromPeer(u[i].got)
          BY <1>4, <2>2, <2>3, <3>2, Zenon DEF DiscoverInv, AfterDiscover
        <5>2. 1 \in DOMAIN u /\ Head(u) = u[1]
          BY <2>4, LenProperties, EmptySeq, SMT
        <5> QED BY <2>5, <5>1, <5>2
      <4>3. CASE Head(u) \notin AnswerItems
        <5>1. OnBus' /\ ReadBackWritten'
          BY <1>3, <1>4, <2>3, <2>4, <2>5, <2>7, <2>10, <4>1, <4>2, <4>3, OtherHandled
        <5> QED BY <1>2, <2>8, <3>2, <5>1 DEF ReadInv
      <4>4. CASE Head(u) \in AnswerItems
        <5>1. OnBus' /\ ReadBackWritten'
          BY <1>3, <1>4, <2>3, <2>4, <2>5, <2>10, <4>1, <4>2, <4>4, AnswerHandled
        <5> QED BY <1>2, <2>8, <3>2, <5>1 DEF ReadInv
      <4> QED BY <4>3, <4>4
    <3> QED BY <3>1, <3>2
  <2> QED BY <2>6, <2>9, <2>10
<1> QED BY <1>5, <1>6

-----------------------------------------------------------------------------
(* What was written is read back: the start, and every step. *)

\* Steps of main before DISCOVER: nothing was written, and nobody asked.
LEMMA ReadStarts ==
  ASSUME DaemonInv, ReadInv, endpoints \subseteq endpoints', step' <= 14, step <= 14,
         UNCHANGED <<written, nodes, pc>>
  PROVE  ReadInv'
<1>1. SUFFICES ASSUME 0 \notin endpoints' PROVE ReadInv'
  BY DEF ReadInv
<1>2. 0 \notin endpoints
  BY <1>1
<1>3. written = <<>> /\ PeerId \notin DOMAIN nodes /\ pc = "idle"
  BY <1>2 DEF ReadInv
<1>4. written' = <<>> /\ PeerId \notin DOMAIN nodes' /\ pc' = "idle"
  BY <1>3
<1>5. step' # 15
  BY SMT
<1>6. ReadBackWritten'
  BY <1>4, NothingRead
<1> QED BY <1>4, <1>5, <1>6 DEF ReadInv

\* main sends DISCOVER: the lines were empty.
LEMMA ReadDiscovers ==
  ASSUME DaemonInv, DiscoverInv, ReadInv, DaemonDiscovers
  PROVE  ReadInv'
<1>1. step = 14 /\ step' = 15 /\ UNCHANGED <<endpoints, cfg, threads>>
  BY Started, MainPositions DEF DaemonInv, StartOK, DaemonDiscovers
<1>2. UNCHANGED <<peer, written, nodes, pc>>
  BY DEF DaemonDiscovers
<1>3. PICK x \in Garbage : Send(discover(x), FALSE, x)
  BY DEF DaemonDiscovers
<1>4. down["bus"] = <<>> /\ up["bus"] = <<>>
  BY <1>1, SMT DEF DiscoverInv, BeforeDiscover
<1>5. BusOnly' <=> BusOnly
  BY <1>1 DEF BusOnly, RealEndpoints, Driver
<1>6. SUFFICES ASSUME 0 \notin endpoints
               PROVE  (IF BusOnly THEN OnBus' ELSE OffBus') /\ ReadBackWritten'
  <2>1. ~(step' <= 14)
    BY <1>1, SMT
  <2> QED BY <1>1, <1>5, <2>1 DEF ReadInv
<1>7. written = <<>> /\ PeerId \notin DOMAIN nodes /\ pc = "idle"
  BY <1>1, <1>6, SMT DEF ReadInv
<1>8. ReadBackWritten'
  BY <1>2, <1>7, NothingRead
<1>9. PICK f : f = discover(x)
  OBVIOUS
<1>10. Sendable(f, FALSE) /\ f.type = DISCOVER /\ f \in H9Frames
  <2>1. f.type = DISCOVER
    BY <1>9 DEF discover, Broadcast, WithData, Blank
  <2>2. Sendable(f, FALSE)
    BY <1>9, DiscoverSendable, Zenon
  <2> QED BY <2>1, <2>2 DEF Sendable
<1>11. PICK g : g = Stamped(f, FALSE)
  OBVIOUS
<1>12. g.type = DISCOVER /\ g.source_id = BusId
  <2>1. FALSE \in BOOLEAN
    OBVIOUS
  <2> QED BY <1>10, <1>11, <2>1, StampSays, Zenon
<1>13. \A m \in Items : m.sent = g => m \notin PeersItems /\ m.sent.source_id # PeerId
  <2>1. ~is_unicast(g)
    BY <1>12, SMT DEF is_unicast, DISCOVER
  <2>2. BusId # PeerId
    BY RequestAssumption
  <2> QED BY <1>12, <2>1, <2>2, PeersRead
<1>14. PICK e, v : e = down'["bus"] /\ v = up'["bus"]
  OBVIOUS
<1>15. PICK z : z = <<>>
  OBVIOUS
<1>16. z \in Seq(Items) /\ DOMAIN z = {}
  BY <1>15
<1>17. \/ RealEndpoints = {} /\ e = z /\ v = z
       \/ RealEndpoints # {} /\ \E m \in Items :
            /\ m.sent = g
            /\ IF Driver("bus") = "loop" THEN e = z /\ v = z \o <<m>> ELSE e = z \o <<m>> /\ v = z
  <2>1. LinesOK /\ EndpointsOK /\ next_seqnum \in 0..31
    BY DEF DaemonInv, StartOK, NetOK
  <2>2. FALSE \in BOOLEAN
    OBVIOUS
  <2>3. z = down["bus"] /\ z = up["bus"] /\ Send(f, FALSE, x)
    BY <1>3, <1>4, <1>9, <1>15
  <2> QED BY <1>10, <1>11, <1>14, <2>1, <2>2, <2>3, BusGets, Zenon
<1>18. ASSUME BusOnly PROVE OnBus'
  <2>1. PICK m \in Items : m.sent = g /\ e = z \o <<m>> /\ v = z
    BY <1>17, <1>18 DEF BusOnly
  <2>2. PICK p, w : p = peer /\ w = written
    OBVIOUS
  <2>3. Resting(p, w, z, z)
    <3>1. DOMAIN w = {}
      BY <1>7, <2>2
    <3>2. Lacks(z, PeersItems) /\ Lacks(z, AnswerItems)
      BY <1>16 DEF Lacks
    <3> QED BY <3>1, <3>2 DEF Resting, Keeps
  <2>4. Resting(p, w, e, v)
    BY <1>13, <1>16, <2>1, <2>3, OnBusSent
  <2>5. Resting(peer', written', down'["bus"], up'["bus"])
    BY <1>2, <1>14, <2>2, <2>4
  <2>6. PeerTyped'
    BY <1>2, <1>7 DEF PeerTyped
  <2>7. pc' = "idle"
    BY <1>2, <1>7
  <2> QED BY <2>5, <2>6, <2>7, Zenon DEF OnBus, Resting
<1>19. ASSUME ~BusOnly PROVE OffBus'
  <2>1. written' = <<>>
    BY <1>2, <1>7
  <2>2. CASE RealEndpoints = {}
    BY <1>14, <1>15, <1>16, <1>17, <2>1, <2>2 DEF OffBus
  <2>3. CASE RealEndpoints # {}
    <3>1. PICK m \in Items : m.sent = g /\ e = z /\ v = z \o <<m>>
      BY <1>6, <1>17, <1>19, <2>3 DEF BusOnly
    <3>2. v = <<m>>
      BY <1>15, <3>1
    <3>3. m.got.source_id # PeerId
      BY <1>13, <3>1, ItemFields
    <3>4. \A i \in DOMAIN v : v[i].got.source_id # PeerId
      BY <3>2, <3>3
    <3> QED BY <1>14, <1>15, <2>1, <3>1, <3>4 DEF OffBus
  <2> QED BY <2>2, <2>3
<1> QED BY <1>8, <1>18, <1>19

\* Every step of the daemon.
LEMMA ReadStep ==
  ASSUME FitRequests, OwnRequests, DaemonInv, DiscoverInv, ReadInv, [Next]_daemonVars
  PROVE  ReadInv'
<1>1. LinesOK /\ step \in 1..15 /\ endpoints \subseteq endpoints'
  BY Started, StartStep DEF DaemonInv, StartOK, NetOK
<1>2. CASE StartNext /\ UNCHANGED requestVars
  <2>1. step <= 12 /\ step' \in {step, step + 1}
    BY <1>1, <1>2, MainPositions
  <2>2. UNCHANGED <<written, nodes, pc>>
    BY <1>2 DEF requestVars
  <2>3. step <= 14 /\ step' <= 14
    BY <1>1, <2>1, SMT
  <2> QED BY <1>1, <2>2, <2>3, ReadStarts
<1>3. CASE DaemonConfigures
  <2>1. step = 13 /\ step' = 14 /\ UNCHANGED <<written, nodes, pc>>
    BY <1>1, <1>3, MainPositions DEF DaemonConfigures
  <2>2. step <= 14 /\ step' <= 14
    BY <2>1, SMT
  <2> QED BY <1>1, <2>1, <2>2, ReadStarts
<1>4. CASE DaemonDiscovers
  BY <1>4, ReadDiscovers
<1>5. ASSUME NEW l \in Lines, Receive(l) PROVE ReadInv'
  BY <1>5, ReadReceive
<1>6. CASE status = "running" /\ PeerStep /\ UNCHANGED startVars
  BY <1>6, ReadPeer
<1>7. CASE (CreateVirtualNode \/ VirtualNodeStep) /\ UNCHANGED startVars
  <2>1. Served /\ UNCHANGED <<peer, written, request, seqnum, dev, nodes, pc, response>>
    BY <1>7 DEF CreateVirtualNode, VirtualNodeStep, Served, startVars
  <2>2. down'["bus"] = down["bus"] /\ up'["bus"] = up["bus"]
    BY <1>1, <1>7 DEF CreateVirtualNode, VirtualNodeStep, SendUp, LinesOK, Lines
  <2> QED BY <2>1, <2>2, ReadLeft
<1>8. CASE Connect \/ Idle \/ UNCHANGED daemonVars
  <2>1. /\ UNCHANGED <<peer, written, request, seqnum, dev, nodes, pc, response, down, up>>
        /\ UNCHANGED startVars
    BY <1>8 DEF Connect, Idle, daemonVars, requestVars
  <2>2. Served
    BY <2>1 DEF Served, startVars
  <2> QED BY <2>1, <2>2, ReadLeft
<1>9. CASE Timeout
  BY <1>9, ReadTimeout
<1>10. ASSUME NEW r \in Requests,
              \/ Refuse(r) \/ Reads(r) \/ authenticate(r) \/ get_node_info(r)
              \/ SendsFrame(r) \/ CallsNode(r) \/ dev_method_call(r)
       PROVE  ReadInv'
  BY <1>10, ReadServe, Zenon
<1> QED BY <1>2, <1>3, <1>4, <1>5, <1>6, <1>7, <1>8, <1>9, <1>10, Zenon DEF Next, Serve

\* Node::set_register and get_register, for any description of any node on a real bus
\* without a virtual endpoint, any values and any number of requests: a register that
\* was set through the API is read back with the value it was set to, through both
\* conversions of Node, both directions of the driver and the node. Other frames that
\* clients send are not for that node, nor do they say they are from it.
THEOREM RegistersReadBack ==
  ASSUME FitRequests, OwnRequests
  PROVE  Spec => [](0 \notin endpoints => ReadBackWritten)
<1>1. Init => DaemonInv /\ DiscoverInv /\ ReadInv
  <2>1. Init => DaemonInv
    BY DaemonStart
  <2>2. Init => DiscoverInv
    BY DEF Init, StartInit, RequestInit, DiscoverInv, BeforeDiscover, AfterDiscover
  <2>3. ASSUME Init PROVE ReadInv
    <3>1. written = <<>> /\ nodes = <<>> /\ pc = "idle" /\ step = 1 /\ request = NoRequest
      BY <2>3 DEF Init, StartInit, RequestInit
    <3>2. step # 15 /\ PeerId \notin DOMAIN nodes
      BY <3>1
    <3>3. ReadBackWritten
      BY <3>1 DEF ReadBackWritten, ReadsWritten, AsExpected, NoRequest
    <3> QED BY <3>1, <3>2, <3>3 DEF ReadInv
  <2> QED BY <2>1, <2>2, <2>3
<1>2. DaemonInv /\ DiscoverInv /\ ReadInv /\ [Next]_daemonVars => DaemonInv' /\ DiscoverInv' /\ ReadInv'
  BY DaemonStep, SearchStep, ReadStep, Zenon
<1>3. ReadInv => (0 \notin endpoints => ReadBackWritten)
  BY DEF ReadInv
<1> QED BY <1>1, <1>2, <1>3, PTL DEF Spec
=============================================================================

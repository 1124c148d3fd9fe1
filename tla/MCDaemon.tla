------------------------------ MODULE MCDaemon ------------------------------
(* Command lines and configuration files of every outcome; an antenna switch *)
(* on the real bus, a virtual node of another type; requests of every method. *)
EXTENDS Daemon

MCPyModule == <<97, 98>>

Arg == [bad |-> FALSE, help |-> FALSE, daemonize |-> FALSE, foreground |-> FALSE,
        pidfile |-> FALSE, logfile |-> FALSE]
S(driver) == [driver |-> driver, complete |-> TRUE]
Bad(driver) == [driver |-> driver, complete |-> FALSE]
Config == [readable |-> TRUE, daemonize |-> FALSE, pidfile |-> FALSE, setuid |-> FALSE,
           setgid |-> FALSE, virtual |-> "absent", endpoints |-> <<>>]
With(sections) == [Config EXCEPT !.endpoints = sections]
StartWith(a, c, r) == [args |-> a, cfg |-> c, root |-> r]
Background == [Arg EXCEPT !.daemonize = TRUE, !.pidfile = TRUE]
Foreground == [Arg EXCEPT !.daemonize = TRUE, !.foreground = TRUE, !.logfile = TRUE]
Dropping == [With(<<S("SocketCAN")>>) EXCEPT !.setuid = TRUE, !.setgid = TRUE, !.pidfile = TRUE]
Virtual == [Config EXCEPT !.virtual = "complete", !.daemonize = TRUE]
MCStarts ==
  {StartWith([Arg EXCEPT !.bad = TRUE], With(<<S("loop")>>), FALSE),
   StartWith([Arg EXCEPT !.help = TRUE], With(<<S("loop")>>), FALSE)}
  \cup {StartWith(Background, c, FALSE) :
          c \in {[Config EXCEPT !.readable = FALSE], Config,
                 [With(<<S("udp")>>) EXCEPT !.virtual = "no id"],
                 With(<<Bad("SLCAN")>>), With(<<S("other")>>), With(<<Bad("SocketCAN"), S("virtual")>>)}}
  \cup {StartWith(Background, With(<<Bad("SocketCAN"), S("SLCAN")>>), FALSE),
        StartWith(Background, Dropping, TRUE), StartWith(Foreground, Dropping, FALSE),
        StartWith(Arg, [Virtual EXCEPT !.endpoints = <<S("virtual"), Bad("SocketCAN"), S("virtual")>>], FALSE),
        StartWith(Foreground, With(<<S("loop")>>), FALSE), StartWith(Arg, With(<<S("udp")>>), FALSE)}

Reg(type, n) == RegisterDsc(type, n, TRUE, TRUE)
Uint(n) == Reg("uint", n)
Zeros(n) == [i \in 1..n |-> 0]
MCPeerRegs == [r \in {4, 10, 11, 12, 13, 14, 15, 17} |->
                 CASE r = 4  -> <<2>>     [] r = 10 -> Zeros(1) [] r = 11 -> Zeros(2)
                   [] r = 12 -> Zeros(6)  [] r = 13 -> Zeros(4) [] r = 14 -> Zeros(2)
                   [] r = 15 -> Zeros(6)  [] r = 17 -> Zeros(1)]
MCRegs == [r \in {9, 10, 11, 12, 13, 14, 15, 16, 17} |->
             CASE r = 9 -> Uint(8) [] r = 10 -> Uint(8) [] r = 11 -> Uint(16)
               [] r = 12 -> Reg("str", 48)
               [] r = 13 -> Reg("float", 32)
               [] r = 14 -> Uint(12)
               [] r = 15 -> Uint(48)
               [] r = 16 -> RegisterDsc("uint", 8, FALSE, FALSE)
               [] r = 17 -> Reg("int", 8)]
MCOtherRegs == [r \in {10, 11} |-> Reg("str", 48)]
TypeRegs(t, regs) == [u \in {t} |-> regs]
MCFiles == {TypeRegs(5, MCRegs), TypeRegs(5, MCOtherRegs), Unreadable}

Req(method) == [NoRequest EXCEPT !.method = method]
Get(id, r) == [Req("get_register_value") EXCEPT !.id = id, !.reg = r]
Set(id, r, v) == [Req("set_register_value") EXCEPT !.id = id, !.reg = r, !.value = v]
Bit(op, r, b) == [Req(op) EXCEPT !.id = PeerId, !.reg = r, !.bit = b]
Ask(method, id) == [Req(method) EXCEPT !.id = id]
DevCall(d, m) == [Req("dev_method_call") EXCEPT !.dev = d, !.dmethod = m, !.value = Integer(2)]
NewVirtualId == [Unicast(Blank(0), SET_REG, 0, VirtualId, <<4, 3, 33>>) EXCEPT !.seqnum = 7]
MCRequests ==
  {Req("get_version"), Req("get_nodes_list"), Req("authenticate"),
   Req("discover_nodes"), Req("no_such_method"), [Req("node_reset") EXCEPT !.bad = TRUE],
   Ask("get_node_info", PeerId), Ask("get_registers_list", PeerId), Ask("get_registers_list", 99),
   Ask("node_reset", PeerId), Ask("node_reset", VirtualId),
   [Req("get_dev_status") EXCEPT !.dev = Dev], [Req("get_dev_description") EXCEPT !.dev = "other"],
   DevCall(Dev, "select_antenna"), DevCall(Dev, "none"), DevCall("other", "select_antenna"),
   [Req("send_frame") EXCEPT !.frame = NewVirtualId],
   Get(PeerId, 10), Get(PeerId, 11), Get(PeerId, 12), Get(PeerId, 13), Get(PeerId, 14),
   Get(PeerId, 15), Get(PeerId, 16), Get(PeerId, 17), Get(VirtualId, 3), Get(VirtualId, 4), Get(VirtualId, 10),
   Set(PeerId, 10, Integer(258)), Set(PeerId, 11, Integer(258)), Set(PeerId, 14, Integer(4097)),
   Set(PeerId, 17, Integer(5)), Set(PeerId, 17, Integer(-1)), Set(PeerId, 17, Json("array", <<7>>)),
   Set(PeerId, 12, Json("string", <<97, 98, 99, 100, 101, 102, 103>>)),
   Set(PeerId, 13, Json("float", <<63, 128, 0, 1>>)), Set(PeerId, 13, Integer(1)),
   Set(PeerId, 15, Json("array", <<1, 2, 3, 4, 5, 6>>)), Set(PeerId, 11, Json("array", <<1, 2>>)),
   Set(PeerId, 12, Json("array", <<97, 98, 0, 99, 0, 0>>)),
   Set(PeerId, 10, Json("string", <<97>>)), Set(VirtualId, 4, Integer(33)),
   Bit("set_register_bit", 11, 9), Bit("clear_register_bit", 12, 0)}

\* One register of one kind, set and read over a real bus.
MCOneStart == {StartWith(Arg, With(<<S("udp")>>), FALSE)}
OneFile(d) == {TypeRegs(5, [r \in {11} |-> d])}
OneReg(n) == [r \in {11} |-> Zeros(n)]
SetAndGet(v) == {Req("authenticate"), Set(PeerId, 11, v), Get(PeerId, 11)}
MCSignedFiles == OneFile(Reg("int", 8))
MCSignedRegs == OneReg(1)
MCSignedRequests == SetAndGet(Integer(-1))
MC32Files == OneFile(Uint(32))
MC32Regs == OneReg(4)
MC32Requests == SetAndGet(Integer(258))
MC20Files == OneFile(Reg("bool", 20))
MC20Regs == OneReg(3)
MC20Requests == SetAndGet(Json("array", <<0, 1, 2>>))
MC48Files == OneFile(Reg("bool", 48))
MC48Regs == OneReg(6)
MC48Requests == SetAndGet(Json("array", <<0, 0, 0, 0, 1, 2>>))

\* The hypotheses of the proofs about frames and registers hold here.
ASSUME MCFitRequests == FitRequests
ASSUME MCOwnRequests == OwnRequests
=============================================================================

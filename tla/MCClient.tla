------------------------------ MODULE MCClient ------------------------------
(* Every program with every way to find its connection; two states of the    *)
(* daemon, in which registers and bits have other numbers; small images.     *)
EXTENDS Client

Reg(name, number, bits) == [name |-> name, number |-> number, bits |-> bits]
MCWorlds ==
  <<[nodes |-> ("switch" :> 2), regs |-> (2 :> <<Reg("ant", 10, <<"a", "b">>), Reg("id", 4, <<>>)>>),
     devs |-> ("sw" :> {"select"})],
    [nodes |-> ("switch" :> 2) @@ ("atu" :> 3),
     regs |-> (2 :> <<Reg("ant", 11, <<"a">>), Reg("new", 10, <<"b", "a">>)>>) @@ (3 :> <<>>),
     devs |-> Empty]>>

L(cmd) == [NoLine EXCEPT !.cmd = cmd]
SwitchLine(cmd, reg, bit) == [L(cmd) EXCEPT !.node = Ref("switch", 0), !.reg = reg, !.bit = bit]
Complete(token, n, r) == [L("complete") EXCEPT !.token = token, !.node = n, !.reg = r, !.dev = "sw"]
MCLines ==
  {L("clear_cache"), L("syntax error"), L("get_tcp_clients"),
   [L("node_reset") EXCEPT !.node = Ref("atu", 0)],
   SwitchLine("get_register_value", Ref("ant", 0), Ref("", 0)),
   SwitchLine("set_register_bit", Ref("", 10), Ref("a", 0)),
   SwitchLine("toggle_register_bit", Ref("new", 0), Ref("b", 0)),
   Complete("node", Ref("", 0), Ref("", 0)), Complete("dev", Ref("", 0), Ref("", 0)),
   Complete("method", Ref("", 0), Ref("", 0)), Complete("reg", Ref("", 3), Ref("", 0)),
   Complete("bit", Ref("switch", 0), Ref("ant", 0)), Complete("grammar", Ref("", 0), Ref("", 0))}

Start(prog) == [prog |-> prog, args |-> "ok", connect |-> NoConnection, F |-> FALSE,
                given |-> Absent, user |-> Absent, system |-> Absent, opt |-> NoOptions]
Uri(u) == [NoConnection EXCEPT !.uri = u]
Title(t) == [NoConnection EXCEPT !.title = t]
Section(t, u, src) == [title |-> t, uri |-> u, source_id |-> src]
UserFile == Config("ok", "home", 7, <<Section("lab", URI("udp"), 9), Section("home", NoURI, 8)>>)

Line(type, address, data) == [type |-> type, address |-> address, data |-> data, crc |-> TRUE]
MCFile == <<Line(0, 0, <<1, 2, 3>>), Line(4, 0, <<0, 0>>), Line(0, 14, <<4, 5, 6>>), Line(1, 0, <<>>)>>
MCFiles == {MCFile, <<Line(0, 3, <<9>>), Line(4, 0, <<0, 2>>), Line(0, 0, <<7>>)>>,
            <<Line(0, 9, <<1>>), Line(0, 0, <<2>>)>>, <<[MCFile[1] EXCEPT !.crc = FALSE], MCFile[3]>>}
\* A line behind a segment address, at 32 and not at 16.
MCSegmentFile == <<MCFile[1], Line(2, 0, <<0, 1>>), Line(0, 16, <<4, 5>>), Line(1, 0, <<>>)>>
Up(file, dst, b) == [NoOptions EXCEPT !.ihex = file, !.dst = dst, !.noupgrademsg = b]
Uploads == {[Start("h9fwupload") EXCEPT !.opt = o, !.connect = c] :
              o \in {Up(f, 2, FALSE) : f \in MCFiles} \cup {Up(MCFile, 2, TRUE), Up(MCFile, 258, FALSE)},
              c \in {NoConnection, Uri(URI("socketcan"))}}
With(prog, opts) == {[Start(prog) EXCEPT !.opt = o] : o \in opts}
MCStarts ==
  Uploads
  \cup {[Start(p) EXCEPT !.args = a] : p \in Programs, a \in {"bad", "help"}}
  \cup {[Start("h9fwupload") EXCEPT !.opt = [Up(<<>>, 2, FALSE) EXCEPT !.readable = FALSE]]}
  \cup {Start("h9cli"), [Start("h9cli") EXCEPT !.connect = Uri([URI("slcan") EXCEPT !.host = FALSE])]}
  \cup With("h9stats", {NoOptions, [NoOptions EXCEPT !.json = TRUE], [NoOptions EXCEPT !.oneshot = TRUE]})
  \cup {[Start("h9send") EXCEPT !.connect = c, !.F = f, !.user = UserFile, !.system = UserFile,
                                !.opt = [NoOptions EXCEPT !.dst = IF r THEN 2 ELSE 3, !.repeat = r]] :
          c \in {NoConnection, Title("lab"), Title("none"), Uri([URI("udp") EXCEPT !.host = FALSE]),
                 Uri([URI("h9d") EXCEPT !.valid = FALSE]), Uri(URI("other"))},
          f \in BOOLEAN, r \in BOOLEAN}
  \cup {[s EXCEPT !.connect = c] :
          s \in With("h9sniffer", {NoOptions, [NoOptions EXCEPT !.extended = TRUE, !.types = {"GET_REG"}],
                                   [NoOptions EXCEPT !.ids = {3}]}),
          c \in {NoConnection, Uri(URI("pipe"))}}
MCSegments == {[Start("h9fwupload") EXCEPT !.opt = Up(MCSegmentFile, 2, FALSE), !.connect = c] :
                 c \in {NoConnection, Uri(URI("socketcan"))}}
MCRestarts == {[Start("h9fwupload") EXCEPT !.opt = Up(MCFile, 2, FALSE)]}
MCNoise == {Frame("NODE_INFO", 3, 0, <<0, 6>>), Frame("GET_REG", 2, 3, <<10>>),
            Frame("PAGE_FILL_NEXT", 3, 2, <<>>)}
=============================================================================

------------------------------ MODULE CliCache ------------------------------
(***************************************************************************)
(* CliCache (src/h9cli/cli_cache.cc): what h9cli remembers of the nodes,   *)
(* registers, bits and devices the daemon has reported.  An answer carries *)
(* the state of the daemon it was given in, one of Worlds.                 *)
(***************************************************************************)
EXTENDS Naturals, Sequences, Maps

CONSTANT
  Worlds   \* sequence of [nodes : name -> id, regs : id -> sequence of registers,
           \*              devs : name -> methods]; register: [name, number, bits]

ASSUME WorldsAssumption ==
  /\ Len(Worlds) \in Nat \ {0}
  /\ \A w \in 1..Len(Worlds) : \A n \in DOMAIN Worlds[w].regs : \A i \in DOMAIN Worlds[w].regs[n] :
       Worlds[w].regs[n][i].bits \in Seq(STRING)

NoCache ==
  [node_name_to_id |-> Empty, node_list |-> {}, dev_list |-> {}, dev_method_list |-> Empty,
   registries_list |-> Empty, name_to_number |-> Empty, bits_list |-> Empty,
   bits_name_to_number |-> Empty]

\* Answers: a result, or an error, whose result is null and lists nothing.
Reported(m) == m.kind = "response"

refresh_node(c, m) ==
  LET nodes == IF Reported(m) THEN Worlds[m.world].nodes ELSE Empty
  IN [c EXCEPT !.node_list = DOMAIN nodes, !.node_name_to_id = nodes]

refresh_dev(c, m) ==
  [c EXCEPT !.dev_list = IF Reported(m) THEN DOMAIN Worlds[m.world].devs ELSE {}]

\* refresh_register: lists and numbers of the node are cleared, an error leaves
\* them there and empty; the numbers of its bits are overwritten, not cleared.
Index(s) == [x \in {s[i] : i \in DOMAIN s} |-> (CHOOSE i \in DOMAIN s : s[i] = x) - 1]
refresh_register(c, id, m) ==
  LET regs == IF Reported(m) THEN Worlds[m.world].regs[id] ELSE <<>>
      names == {regs[i].name : i \in DOMAIN regs}
      Named(x) == CHOOSE r \in {regs[i] : i \in DOMAIN regs} : r.name = x
      Numbered(k) == CHOOSE r \in {regs[i] : i \in DOMAIN regs} : r.number = k
      numbers == {regs[i].number : i \in DOMAIN regs}
      old == IF Has(c.bits_name_to_number, id) THEN c.bits_name_to_number[id] ELSE Empty
      bits == [k \in {x \in numbers : Numbered(x).bits # <<>>} |->
                 Over(Index(Numbered(k).bits), IF Has(old, k) THEN old[k] ELSE Empty)]
  IN [c EXCEPT !.registries_list = Put(@, id, names),
               !.name_to_number = Put(@, id, [x \in names |-> Named(x).number]),
               !.bits_list = Put(@, id, [k \in numbers |-> Numbered(k).bits]),
               !.bits_name_to_number = IF bits = Empty THEN @ ELSE Put(@, id, Over(bits, old))]

refresh_dev_method(c, dev, m) ==
  [c EXCEPT !.dev_method_list = Put(@, dev, Worlds[m.world].devs[dev])]

\* Lookups: what the cache has, or what the parser gets for an unknown name.
get_node_id_by_name(c, name) ==
  IF Has(c.node_name_to_id, name) THEN c.node_name_to_id[name] ELSE 65535
get_register_number_by_name(c, id, name) ==
  IF Has(c.name_to_number, id) /\ Has(c.name_to_number[id], name)
  THEN c.name_to_number[id][name] ELSE 0
get_bit_number_by_name(c, id, reg, name) ==
  IF Has(c.bits_name_to_number, id) /\ Has(c.bits_name_to_number[id], reg)
       /\ Has(c.bits_name_to_number[id][reg], name)
  THEN c.bits_name_to_number[id][reg][name] ELSE 255

\* When a lookup or a completion asks the daemon first.
StaleNode(c, name) == ~Has(c.node_name_to_id, name)
StaleRegister(c, id, name) == ~Has(c.name_to_number, id) \/ ~Has(c.name_to_number[id], name)
StaleBit(c, id, reg) == ~Has(c.bits_name_to_number, id) \/ ~Has(c.bits_name_to_number[id], reg)
StaleList(c, l) ==
  CASE l.token = "node"   -> c.node_list = {}
    [] l.token = "dev"    -> c.dev_list = {}
    [] l.token = "reg"    -> ~Has(c.registries_list, l.node.num)
    [] l.token = "bit"    -> ~Has(c.bits_list, l.node.num)
    [] l.token = "method" -> ~Has(c.dev_method_list, l.dev)

\* Mutant: the numbers of bits survive.
clearKeepsBits(c) == [NoCache EXCEPT !.bits_name_to_number = c.bits_name_to_number]

clear(c) == NoCache
=============================================================================

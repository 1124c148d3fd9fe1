------------------------------ MODULE NodeDesc ------------------------------
(***************************************************************************)
(* The descriptions of the nodes and the registers made from them:         *)
(* NodeDescLoader (src/common/node_desc_loader.cc), Node::init and         *)
(* Node::load_description (src/h9d/node.cc) and                            *)
(* NodeMgr::reload_nodes_description (src/h9d/node_mgr.cc).                *)
(*                                                                         *)
(* main loads the description file while NodeMgr's update thread already   *)
(* initialises nodes; later the threads of the clients reload it.  Nothing *)
(* guards the table of types or the registers of a node, so the threads    *)
(* are interleaved where one of them holds what it read: between the       *)
(* emptying and the filling of the table, and between the copy that        *)
(* load_description takes from it and the loop that stores it.             *)
(***************************************************************************)
EXTENDS NodeRegister, Maps

CONSTANTS
  Ids,         \* ids of the nodes
  Infos,       \* what they may announce: type and version
  Files,       \* contents the description file may have, see NodeRegister
  Clients,     \* threads of the clients
  MaxInits, MaxReloads, MaxEdits

Threads == Clients \cup {"main", "update"}

ASSUME NodeDescAssumption ==
  /\ Ids \subseteq Byte /\ Infos \subseteq [type : Word \ {0}, version : Nat]
  /\ \A f \in Files \ {Unreadable} : \A t \in DOMAIN f :
       DOMAIN f[t] \subseteq Nat /\ \A r \in DOMAIN f[t] : f[t][r] \in DescType
  /\ Clients \cap {"main", "update"} = {}
  /\ {MaxInits, MaxReloads, MaxEdits} \subseteq Nat

VARIABLES
  file,        \* the description file
  types,       \* NodeDescLoader::types
  node,        \* NodeMgr::nodes: id -> [init, info, regs] (the register_map)
  thread,      \* thread -> [pc, id, desc, todo]: the node it loads, the copy of
               \* its type's registers, and the nodes its loop has still to visit
  running,     \* the daemon has not crashed
  inits, reloads, edits,
  early,       \* history: nodes whose registers were copied before main loaded the file
  torn         \* history: nodes for which a copy was still to be stored when the
               \* table or the type changed

vars == <<file, types, node, thread, running, inits, reloads, edits, early, torn>>

NoInfo == [type |-> 0, version |-> 0]
At(pc, id, desc, todo) == [pc |-> pc, id |-> id, desc |-> desc, todo |-> todo]
Resting == At("idle", 0, Empty, {})

Init ==
  /\ file \in Files /\ types = Empty
  /\ node = [i \in Ids |-> [init |-> FALSE, info |-> NoInfo, regs |-> Empty]]
  /\ thread = [th \in Threads |-> IF th = "main" THEN [Resting EXCEPT !.pc = "load"] ELSE Resting]
  /\ running = TRUE /\ inits = 0 /\ reloads = 0 /\ edits = 0
  /\ early = {} /\ torn = {}

Loaded == thread["main"].pc = "idle"
Writes(th, i) == thread[th].pc = "writing" /\ thread[th].id = i

\* Some thread is about to store in node i what is not in described.
Tears(i, described) ==
  \E th \in Threads : /\ Writes(th, i)
                      /\ \E r \in DOMAIN thread[th].desc :
                           ~Has(described, r) \/ described[r] # thread[th].desc[r]
Torn(ts) == {i \in Ids : Tears(i, get_node_register_by_type(ts, node[i].info.type))}

\* NodeDescLoader::load_file into the table there is: types and registers are
\* added to it or replaced.
Filled(ts, f) ==
  LET new == load_file(f)
  IN [t \in DOMAIN ts \cup DOMAIN new |->
        Over(get_node_register_by_type(new, t), get_node_register_by_type(ts, t))]

-----------------------------------------------------------------------------
(* Loading. *)

\* main calls load_nodes_description.
MainLoads ==
  /\ running /\ ~Loaded
  /\ types' = Filled(types, file) /\ torn' = torn \cup Torn(types')
  /\ thread' = [thread EXCEPT !["main"] = Resting]
  /\ UNCHANGED <<file, node, running, inits, reloads, edits, early>>

\* The update thread handles NODE_INFO or NODE_TURNED_ON of node i: Node::init
\* up to load_description, which it does not reach if it was told this before.
NodeInit(i, info) ==
  /\ running /\ thread["update"].pc = "idle" /\ inits < MaxInits
  /\ inits' = inits + 1
  /\ IF node[i].info = info
     THEN node' = [node EXCEPT ![i].init = TRUE] /\ UNCHANGED <<thread, torn>>
     ELSE /\ node' = [node EXCEPT ![i] =
               [init |-> TRUE, info |-> info,
                regs |-> IF @.info.type \in {0, info.type} THEN @.regs ELSE Empty]]
          /\ thread' = [thread EXCEPT !["update"] = At("description", i, Empty, {})]
          /\ torn' = IF Tears(i, get_node_register_by_type(types, info.type))
                     THEN torn \cup {i} ELSE torn
  /\ UNCHANGED <<file, types, running, reloads, edits, early>>

\* Node::load_description up to its last loop: the standard registers, and a copy
\* of those of the type.
CopyDescription(th, i, todo) ==
  /\ node' = [node EXCEPT ![i].regs = std_register]
  /\ thread' = [thread EXCEPT ![th] =
       At("writing", i, get_node_register_by_type(types, node[i].info.type), todo)]
  /\ early' = IF Loaded THEN early \ {i} ELSE early \cup {i}
  /\ torn' = IF \E u \in Threads \ {th} : Writes(u, i) THEN torn ELSE torn \ {i}

InitLoads ==
  /\ running /\ thread["update"].pc = "description"
  /\ CopyDescription("update", thread["update"].id, {})
  /\ UNCHANGED <<file, types, running, inits, reloads, edits>>

\* The last loop of load_description.
StoreDescription(th) ==
  /\ running /\ thread[th].pc = "writing"
  /\ node' = [node EXCEPT ![thread[th].id].regs = Over(thread[th].desc, @)]
  /\ thread' = [thread EXCEPT ![th] =
       IF th = "update" \/ @.todo = {} THEN Resting ELSE At("nodes", 0, Empty, @.todo)]
  /\ UNCHANGED <<file, types, running, inits, reloads, edits, early, torn>>

-----------------------------------------------------------------------------
(* Reloading, in the thread of a client. *)

\* NodeDescLoader::reload empties the table; main serves after it has loaded it.
Reload(c) ==
  /\ running /\ Loaded /\ thread[c] = Resting /\ reloads < MaxReloads
  /\ reloads' = reloads + 1
  /\ types' = Empty /\ torn' = torn \cup Torn(types')
  /\ thread' = [thread EXCEPT ![c] = At("empty", 0, Empty, Ids)]
  /\ UNCHANGED <<file, node, running, inits, edits, early>>

ReloadFile(c) ==
  /\ running /\ thread[c].pc = "empty"
  /\ types' = Filled(types, file) /\ torn' = torn \cup Torn(types')
  /\ thread' = [thread EXCEPT ![c].pc = "nodes"]
  /\ UNCHANGED <<file, node, running, inits, reloads, edits, early>>

\* Mutant: a node that is being initialised is left to the update thread.
VisitQuiet(c, i) ==
  LET todo == thread[c].todo \ {i}
  IN /\ running /\ thread[c].pc = "nodes"
     /\ i \in thread[c].todo /\ \A j \in thread[c].todo : i <= j
     /\ IF node[i].init /\ ~Writes("update", i) THEN CopyDescription(c, i, todo)
        ELSE /\ thread' = [thread EXCEPT ![c] = IF todo = {} THEN Resting ELSE [@ EXCEPT !.todo = todo]]
             /\ UNCHANGED <<node, early, torn>>
     /\ UNCHANGED <<file, types, running, inits, reloads, edits>>

\* One round of the loop over the nodes: those that are initialised load again.
Visit(c, i) ==
  LET todo == thread[c].todo \ {i}
  IN /\ running /\ thread[c].pc = "nodes"
     /\ i \in thread[c].todo /\ \A j \in thread[c].todo : i <= j
     /\ IF node[i].init THEN CopyDescription(c, i, todo)
        ELSE /\ thread' = [thread EXCEPT ![c] = IF todo = {} THEN Resting ELSE [@ EXCEPT !.todo = todo]]
             /\ UNCHANGED <<node, early, torn>>
     /\ UNCHANGED <<file, types, running, inits, reloads, edits>>

\* Somebody edits the file.
EditFile ==
  /\ running /\ edits < MaxEdits
  /\ file' \in Files \ {file} /\ edits' = edits + 1
  /\ UNCHANGED <<types, node, thread, running, inits, reloads, early, torn>>

-----------------------------------------------------------------------------
(* Two threads in the same std::map, one of which changes it, may end the
   daemon: the table while it is filled, the registers of a node while they are
   stored, also by a client's thread that only reads them. *)

Filling == {th \in Threads : thread[th].pc \in {"load", "empty"}}
Race ==
  \/ \E th \in Filling : \E u \in Threads \ {th} : thread[u].pc \in {"load", "empty", "nodes", "description"}
  \/ \E th \in Threads : /\ thread[th].pc = "writing"
                         /\ \E u \in Threads \ {th} : Writes(u, thread[th].id) \/ thread[u] = Resting
Crash ==
  /\ running /\ Race /\ running' = FALSE
  /\ UNCHANGED <<file, types, node, thread, inits, reloads, edits, early, torn>>

\* No thread is at work.
Settled == running /\ \A th \in Threads : thread[th].pc = "idle"
Idle == (~running \/ Settled) /\ UNCHANGED vars

Next ==
  \/ MainLoads \/ InitLoads \/ EditFile \/ Crash \/ Idle
  \/ \E i \in Ids, info \in Infos : NodeInit(i, info)
  \/ \E th \in Threads : StoreDescription(th)
  \/ \E c \in Clients : Reload(c) \/ ReloadFile(c) \/ \E i \in Ids : Visit(c, i)
Spec == Init /\ [][Next]_vars

-----------------------------------------------------------------------------
(* Properties *)

DescRegs(regs) == DOMAIN regs \subseteq 10..255 /\ \A r \in DOMAIN regs : regs[r] \in DescType

\* Types of the table, of the nodes' registers and of what the threads hold: only
\* registers 10 to 255 come from a file, whoever loads it.
TypeOK ==
  /\ file \in Files /\ \A t \in DOMAIN types : DescRegs(types[t])
  /\ \A i \in Ids : /\ node[i].init \in BOOLEAN /\ node[i].info \in Infos \cup {NoInfo}
                    /\ DOMAIN node[i].regs \subseteq 1..255
                    /\ \A r \in DOMAIN node[i].regs : node[i].regs[r] \in DescType
  /\ \A th \in Threads :
       /\ thread[th].pc \in {"load", "description", "empty", "nodes", "writing", "idle"}
       /\ thread[th].todo \subseteq Ids /\ DescRegs(thread[th].desc)
       /\ thread[th].pc \in {"description", "writing"} => thread[th].id \in Ids
  /\ running \in BOOLEAN /\ early \subseteq Ids /\ torn \subseteq Ids

\* Some thread loads node i, or will.
Loading(i) ==
  \E th \in Threads : \/ i \in thread[th].todo \/ Writes(th, i)
                      \/ thread[th].pc = "description" /\ thread[th].id = i

Described(i) == node[i].regs = load_description(types, node[i].info.type)

\* An initialised node whose load is over has the registers of its type in the
\* table as last filled, however the threads interleaved: a node that init has
\* reached in the middle of a reload is seen by the loop of reload (_init is set
\* first), or copies the table that was filled. There are two exceptions, and a
\* load of the node by itself ends both: its registers were copied before main
\* loaded the file, or a copy of them was still to be stored when a reload changed
\* the table or an announcement the type.
RegistersLoaded ==
  \A i \in Ids : node[i].init /\ ~Loading(i) /\ i \notin early \cup torn => Described(i)

\* doc/API.md:354: reload_nodes_description reloads the files of descriptions from
\* disk. Once it has answered and no thread is at work, every initialised node has
\* the registers that the table has for its type.
ReloadTakes ==
  Settled /\ reloads > 0 => \A i \in Ids : node[i].init => Described(i)

\* doc/API.md:464: get_registers_list gives all registers of a node with their
\* descriptions from the file. Once main has loaded it and no thread is at work,
\* this is what the registers of an initialised node are.
NodesDescribed == Settled => \A i \in Ids : node[i].init => Described(i)

\* doc/API.md:354 again: what a reload leaves in the table is a file as it was on
\* disk at some time, not a mixture of two.
TableIsFile == Settled => \E f \in Files : types = load_file(f)
=============================================================================

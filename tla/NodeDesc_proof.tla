--------------------------- MODULE NodeDesc_proof ---------------------------
(***************************************************************************)
(* The registers of nodes, for any description files, nodes, clients and   *)
(* announcements: however the threads that load and reload descriptions    *)
(* interleave, the registers of a node whose load is over are those of its *)
(* type, up to the nodes the history sets aside.                           *)
(***************************************************************************)
EXTENDS NodeDesc, TLAPS

\* What the thread of main, of updates and of a client may be doing: only clients
\* loop over nodes, and one that has emptied the table has all of them before it.
ThreadOK ==
  /\ thread["main"].todo = {} /\ thread["update"].todo = {}
  /\ thread["main"].pc \in {"load", "idle"}
  /\ thread["update"].pc \in {"idle", "description", "writing"}
  /\ \A c \in Clients : /\ thread[c].pc \in {"empty", "nodes", "writing", "idle"}
                        /\ thread[c].pc = "empty" => thread[c].todo = Ids

\* Nodes and threads are records.
Shape ==
  /\ DOMAIN node = Ids
  /\ \A i \in Ids : node[i] = [init |-> node[i].init, info |-> node[i].info, regs |-> node[i].regs]
  /\ DOMAIN thread = Threads
  /\ \A th \in Threads : thread[th] = At(thread[th].pc, thread[th].id, thread[th].desc, thread[th].todo)

\* The registers that the table has for the type of node i.
Of(i) == get_node_register_by_type(types, node[i].info.type)

\* The entries of map e are entries of map d.
Within(e, d) == \A r \in DOMAIN e : Has(d, r) /\ d[r] = e[r]

\* Registers regs are the standard ones and some of description d.
Partly(regs, d) ==
  /\ DOMAIN std_register \subseteq DOMAIN regs /\ DOMAIN regs \subseteq DOMAIN std_register \cup DOMAIN d
  /\ \A r \in DOMAIN regs : regs[r] = IF r \in DOMAIN d THEN d[r] ELSE std_register[r]

\* Some thread has still to copy the description of node i.
Awaits(i) ==
  \/ \E th \in Threads : i \in thread[th].todo
  \/ thread["update"].pc = "description" /\ thread["update"].id = i

\* A node is initialised when it was told its type; until main has loaded the file,
\* its registers were copied early.
InitOK ==
  /\ \A i \in Ids : node[i].init <=> node[i].info # NoInfo
  /\ ~Loaded => \A i \in Ids : node[i].init => i \in early \/ Awaits(i)

\* What is still to be stored in a node belongs to its description now.
StoresOK == \A i \in Ids \ torn : ~Tears(i, Of(i))

\* Registers regs of node i, of description d: what is missing is about to be stored.
RegsFor(i, regs, d) ==
  /\ Partly(regs, d)
  /\ regs = Over(d, std_register) \/ \E th \in Threads : Writes(th, i) /\ thread[th].desc = d
KeptOK ==
  \A i \in Ids : node[i].init /\ ~Awaits(i) /\ i \notin early \cup torn => RegsFor(i, node[i].regs, Of(i))

LoadInv == TypeOK /\ ThreadOK /\ Shape /\ InitOK /\ StoresOK /\ KeptOK

-----------------------------------------------------------------------------
(* Registers. *)

\* The standard registers are 1 to 5.
LEMMA StdRegisters ==
  /\ DOMAIN std_register = 1..5
  /\ \A r \in 1..5 : std_register[r] \in DescType
<1>1. DOMAIN std_register = 1..5
  BY DEF std_register
<1>2. \A r \in 1..5 : std_register[r] \in DescType
  BY SMT DEF std_register, RegisterDsc, DescType
<1> QED BY <1>1, <1>2

\* Described registers are not standard ones.
LEMMA Apart ==
  ASSUME NEW d, DescRegs(d)
  PROVE  \A r \in DOMAIN std_register : r \notin DOMAIN d
<1>1. \A r \in 1..5 : r \notin 10..255
  BY SMT
<1> QED BY <1>1, StdRegisters DEF DescRegs

LEMMA StdPartly ==
  ASSUME NEW d, DescRegs(d)
  PROVE  Partly(std_register, d)
BY Apart DEF Partly

\* Storing entries of the description keeps part of it, storing all gives all.
LEMMA Stored ==
  ASSUME NEW d, NEW regs, Partly(regs, d), NEW e, Within(e, d)
  PROVE  /\ Partly(Over(e, regs), d)
         /\ Over(d, regs) = Over(d, std_register)
         /\ regs = Over(d, std_register) => Over(e, regs) = regs
<1>1. Partly(Over(e, regs), d)
  BY DEF Partly, Within, Over, Has
<1>2. Over(d, regs) = Over(d, std_register)
  <2>1. DOMAIN d \cup DOMAIN regs = DOMAIN d \cup DOMAIN std_register
    BY DEF Partly
  <2>2. \A r \in DOMAIN d \cup DOMAIN regs :
          (IF Has(d, r) THEN d[r] ELSE regs[r]) = (IF Has(d, r) THEN d[r] ELSE std_register[r])
    BY DEF Partly, Has
  <2> QED BY <2>1, <2>2 DEF Over
<1>3. ASSUME regs = Over(d, std_register) PROVE Over(e, regs) = regs
  <2>1. DOMAIN regs = DOMAIN d \cup DOMAIN std_register
    BY <1>3 DEF Over
  <2>2. DOMAIN e \cup DOMAIN regs = DOMAIN d \cup DOMAIN std_register
    BY <2>1 DEF Within, Has
  <2>3. \A r \in DOMAIN d \cup DOMAIN std_register :
          (IF Has(e, r) THEN e[r] ELSE regs[r]) = (IF Has(d, r) THEN d[r] ELSE std_register[r])
    BY <1>3, <2>1 DEF Within, Has, Over
  <2> QED BY <1>3, <2>2, <2>3 DEF Over
<1> QED BY <1>1, <1>2, <1>3

\* load_description: the standard registers under those of the type.
LEMMA LoadedAre ==
  ASSUME NEW ts, NEW t
  PROVE  load_description(ts, t) = Over(get_node_register_by_type(ts, t), std_register)
<1>1. PICK d : d = get_node_register_by_type(ts, t)
  OBVIOUS
<1>2. DOMAIN std_register \cup DOMAIN d = DOMAIN d \cup DOMAIN std_register
  OBVIOUS
<1> QED BY <1>1, <1>2, Zenon DEF load_description, Over, Has

\* What a file gives for a type.
LEMMA FileRegs ==
  ASSUME NEW f \in Files
  PROVE  \A t \in DOMAIN load_file(f) : DescRegs(load_file(f)[t])
<1>1. CASE f = Unreadable
  BY <1>1 DEF load_file
<1>2. CASE f # Unreadable
  <2>1. SUFFICES ASSUME NEW t \in DOMAIN f
                 PROVE  DescRegs([r \in {q \in DOMAIN f[t] : q >= 10 /\ q <= 255} |-> f[t][r]])
    BY <1>2 DEF load_file
  <2>2. DOMAIN f[t] \subseteq Nat /\ \A r \in DOMAIN f[t] : f[t][r] \in DescType
    BY <1>2, <2>1, NodeDescAssumption
  <2>3. {q \in DOMAIN f[t] : q >= 10 /\ q <= 255} \subseteq 10..255
    BY <2>2, SMT
  <2> QED BY <2>2, <2>3 DEF DescRegs
<1> QED BY <1>1, <1>2

\* No registers are registers.
LEMMA NoRegs == DescRegs(<<>>) /\ DescRegs(Empty)
  BY DEF DescRegs, Empty

\* Registers of a type, in a table.
LEMMA TypeRegs ==
  ASSUME NEW ts, \A t \in DOMAIN ts : DescRegs(ts[t]), NEW t
  PROVE  DescRegs(get_node_register_by_type(ts, t))
BY NoRegs DEF get_node_register_by_type

\* A table that was filled.
LEMMA FilledRegs ==
  ASSUME NEW ts, \A t \in DOMAIN ts : DescRegs(ts[t]), NEW f \in Files
  PROVE  \A t \in DOMAIN Filled(ts, f) : DescRegs(Filled(ts, f)[t])
<1>1. ASSUME NEW a, DescRegs(a), NEW b, DescRegs(b) PROVE DescRegs(Over(a, b))
  BY <1>1 DEF DescRegs, Over, Has
<1>2. PICK new : new = load_file(f)
  OBVIOUS
<1>3. \A t : DescRegs(get_node_register_by_type(new, t)) /\ DescRegs(get_node_register_by_type(ts, t))
  BY <1>2, FileRegs, TypeRegs, Zenon
<1>4. Filled(ts, f) = [t \in DOMAIN ts \cup DOMAIN new |->
                         Over(get_node_register_by_type(new, t), get_node_register_by_type(ts, t))]
  BY <1>2, Zenon DEF Filled
<1> QED BY <1>1, <1>3, <1>4, Zenon
-----------------------------------------------------------------------------
(* Types. *)

\* The parts of TypeOK about the registers.
NodeTypes ==
  \A i \in Ids : /\ node[i].init \in BOOLEAN /\ node[i].info \in Infos \cup {NoInfo}
                 /\ DOMAIN node[i].regs \subseteq 1..255
                 /\ \A r \in DOMAIN node[i].regs : node[i].regs[r] \in DescType
TypesType == \A t \in DOMAIN types : DescRegs(types[t])
ThreadType(th) ==
  /\ thread[th].pc \in {"load", "description", "empty", "nodes", "writing", "idle"}
  /\ thread[th].todo \subseteq Ids /\ DescRegs(thread[th].desc)
  /\ thread[th].pc \in {"description", "writing"} => thread[th].id \in Ids

LEMMA Types ==
  TypeOK <=> /\ file \in Files /\ TypesType /\ NodeTypes /\ \A th \in Threads : ThreadType(th)
             /\ running \in BOOLEAN /\ early \subseteq Ids /\ torn \subseteq Ids
BY DEF TypeOK, TypesType, NodeTypes, ThreadType

\* Threads are different from each other.
LEMMA Apartness ==
  /\ "main" \in Threads /\ "update" \in Threads /\ Clients \subseteq Threads
  /\ \A th \in Threads : th = "main" \/ th = "update" \/ th \in Clients
  /\ \A c \in Clients : c # "main" /\ c # "update"
BY NodeDescAssumption DEF Threads

\* The fields of what a thread is at.
LEMMA AtFields ==
  ASSUME NEW pc, NEW id, NEW desc, NEW todo
  PROVE  /\ At(pc, id, desc, todo).pc = pc /\ At(pc, id, desc, todo).id = id
         /\ At(pc, id, desc, todo).desc = desc /\ At(pc, id, desc, todo).todo = todo
         /\ Resting.pc = "idle" /\ Resting.id = 0 /\ Resting.desc = Empty /\ Resting.todo = {}
BY DEF At, Resting

\* load_description up to its loop.
LEMMA Copied ==
  ASSUME Shape, NEW th \in Threads, NEW i \in Ids, NEW todo, CopyDescription(th, i, todo)
  PROVE  /\ Shape'
         /\ node'[i].init = node[i].init /\ node'[i].info = node[i].info /\ node'[i].regs = std_register
         /\ \A j \in Ids : j # i => node'[j] = node[j]
         /\ thread'[th] = At("writing", i, Of(i), todo)
         /\ \A u \in Threads : u # th => thread'[u] = thread[u]
<1>1. node' = [node EXCEPT ![i].regs = std_register] /\ thread' = [thread EXCEPT ![th] = At("writing", i, Of(i), todo)]
  BY DEF CopyDescription, Of
<1>2. DOMAIN node' = Ids /\ \A j \in Ids : j # i => node'[j] = node[j]
  BY <1>1 DEF Shape
<1>3. node'[i] = [init |-> node[i].init, info |-> node[i].info, regs |-> std_register]
  <2>1. node'[i] = [node[i] EXCEPT !.regs = std_register]
    BY <1>1 DEF Shape
  <2>2. node[i] = [init |-> node[i].init, info |-> node[i].info, regs |-> node[i].regs]
    BY DEF Shape
  <2> QED BY <2>1, <2>2
<1>4. DOMAIN thread' = Threads /\ thread'[th] = At("writing", i, Of(i), todo)
      /\ \A u \in Threads : u # th => thread'[u] = thread[u]
  BY <1>1 DEF Shape
<1>5. \A j \in Ids : node'[j] = [init |-> node'[j].init, info |-> node'[j].info, regs |-> node'[j].regs]
  <2>1. ASSUME NEW j \in Ids, j # i
        PROVE  node'[j] = [init |-> node'[j].init, info |-> node'[j].info, regs |-> node'[j].regs]
    BY <1>2, <2>1 DEF Shape
  <2> QED BY <1>3, <2>1
<1>6. \A u \in Threads : thread'[u] = At(thread'[u].pc, thread'[u].id, thread'[u].desc, thread'[u].todo)
  BY <1>4, AtFields DEF Shape
<1> QED BY <1>2, <1>3, <1>4, <1>5, <1>6 DEF Shape

\* A thread goes on to x, and nothing happens to the nodes.
LEMMA ThreadMoves ==
  ASSUME Shape, NEW th \in Threads, NEW x, x = At(x.pc, x.id, x.desc, x.todo),
         thread' = [thread EXCEPT ![th] = x], node' = node
  PROVE  /\ Shape' /\ thread'[th] = x
         /\ \A u \in Threads : u # th => thread'[u] = thread[u]
<1>1. DOMAIN thread' = Threads /\ thread'[th] = x /\ \A u \in Threads : u # th => thread'[u] = thread[u]
  BY DEF Shape
<1>2. \A u \in Threads : thread'[u] = At(thread'[u].pc, thread'[u].id, thread'[u].desc, thread'[u].todo)
  BY <1>1 DEF Shape
<1> QED BY <1>1, <1>2 DEF Shape

\* What a thread does after it has stored a description.
AfterStore(th) ==
  IF th = "update" \/ thread[th].todo = {} THEN Resting ELSE At("nodes", 0, Empty, thread[th].todo)

\* The loop of load_description.
LEMMA StoreSteps ==
  ASSUME Shape, TypeOK, NEW th \in Threads, StoreDescription(th)
  PROVE  \E i \in Ids :
           /\ Writes(th, i) /\ Shape'
           /\ node'[i].init = node[i].init /\ node'[i].info = node[i].info
           /\ node'[i].regs = Over(thread[th].desc, node[i].regs)
           /\ \A j \in Ids : j # i => node'[j] = node[j]
           /\ thread'[th] = AfterStore(th) /\ \A u \in Threads : u # th => thread'[u] = thread[u]
           /\ types' = types /\ file' = file /\ running' = running /\ early' = early /\ torn' = torn
<1>1. PICK i \in Ids : i = thread[th].id
  BY Types DEF StoreDescription, ThreadType
<1>2. Writes(th, i)
  BY <1>1 DEF StoreDescription, Writes
<1>3. node' = [node EXCEPT ![i].regs = Over(thread[th].desc, node[i].regs)]
  BY <1>1 DEF StoreDescription
<1>4. DOMAIN node' = Ids /\ \A j \in Ids : j # i => node'[j] = node[j]
  BY <1>3 DEF Shape
<1>5. node'[i] = [init |-> node[i].init, info |-> node[i].info, regs |-> Over(thread[th].desc, node[i].regs)]
  <2>1. node'[i] = [node[i] EXCEPT !.regs = Over(thread[th].desc, node[i].regs)]
    BY <1>3 DEF Shape
  <2>2. node[i] = [init |-> node[i].init, info |-> node[i].info, regs |-> node[i].regs]
    BY DEF Shape
  <2> QED BY <2>1, <2>2
<1>6. thread' = [thread EXCEPT ![th] = AfterStore(th)]
  BY DEF StoreDescription, AfterStore
<1>7. DOMAIN thread' = Threads /\ thread'[th] = AfterStore(th) /\ \A u \in Threads : u # th => thread'[u] = thread[u]
  BY <1>6 DEF Shape
<1>8. \A j \in Ids : node'[j] = [init |-> node'[j].init, info |-> node'[j].info, regs |-> node'[j].regs]
  <2>1. ASSUME NEW j \in Ids, j # i
        PROVE  node'[j] = [init |-> node'[j].init, info |-> node'[j].info, regs |-> node'[j].regs]
    BY <1>4, <2>1 DEF Shape
  <2> QED BY <1>5, <2>1
<1>9. \A u \in Threads : thread'[u] = At(thread'[u].pc, thread'[u].id, thread'[u].desc, thread'[u].todo)
  BY <1>7 DEF Shape, AfterStore, At, Resting
<1>10. Shape'
  BY <1>4, <1>7, <1>8, <1>9 DEF Shape
<1>11. types' = types /\ file' = file /\ running' = running /\ early' = early /\ torn' = torn
  BY DEF StoreDescription
<1> QED BY <1>2, <1>4, <1>5, <1>7, <1>10, <1>11

\* One round of the loop of reload_nodes_description over a node that has not been
\* told its type.
AfterVisit(c, i) ==
  LET todo == thread[c].todo \ {i} IN IF todo = {} THEN Resting ELSE [thread[c] EXCEPT !.todo = todo]
LEMMA VisitSteps ==
  ASSUME Shape, NEW c \in Clients, NEW i \in Ids, Visit(c, i)
  PROVE  /\ thread[c].pc = "nodes" /\ i \in thread[c].todo
         /\ types' = types /\ file' = file /\ running' = running
         /\ \/ node[i].init /\ CopyDescription(c, i, thread[c].todo \ {i})
            \/ /\ ~node[i].init /\ node' = node /\ early' = early /\ torn' = torn /\ Shape'
               /\ thread'[c].pc \in {"nodes", "idle"} /\ thread'[c].todo = thread[c].todo \ {i}
               /\ thread'[c].desc \in {thread[c].desc, Empty}
               /\ \A u \in Threads : u # c => thread'[u] = thread[u]
<1>1. /\ thread[c].pc = "nodes" /\ i \in thread[c].todo
      /\ types' = types /\ file' = file /\ running' = running
  BY DEF Visit
<1>2. CASE node[i].init
  BY <1>1, <1>2 DEF Visit
<1>3. CASE ~node[i].init
  <2>1. thread' = [thread EXCEPT ![c] = AfterVisit(c, i)] /\ node' = node /\ early' = early /\ torn' = torn
    BY <1>3 DEF Visit, AfterVisit
  <2>2. c \in Threads /\ thread[c] = At(thread[c].pc, thread[c].id, thread[c].desc, thread[c].todo)
    BY Apartness DEF Shape
  <2>3. AfterVisit(c, i) = Resting \/ AfterVisit(c, i) = At("nodes", thread[c].id, thread[c].desc, thread[c].todo \ {i})
    BY <1>1, <2>2 DEF AfterVisit, At
  <2>4. PICK x : x = AfterVisit(c, i)
    OBVIOUS
  <2>5. x = At(x.pc, x.id, x.desc, x.todo)
    BY <2>3, <2>4 DEF At, Resting
  <2>6. x.pc \in {"nodes", "idle"} /\ x.desc \in {thread[c].desc, Empty}
    BY <2>3, <2>4, AtFields
  <2>7. x.todo = thread[c].todo \ {i}
    BY <2>2, <2>4, AtFields DEF AfterVisit, At
  <2>8. Shape' /\ thread'[c] = x /\ \A u \in Threads : u # c => thread'[u] = thread[u]
    BY <2>1, <2>2, <2>4, <2>5, ThreadMoves
  <2> QED BY <1>1, <1>3, <2>1, <2>6, <2>7, <2>8
<1> QED BY <1>2, <1>3
-----------------------------------------------------------------------------
(* The invariant, node by node. *)

StoresNode(i) == i \notin torn => ~Tears(i, Of(i))
KeptNode(i) ==
  node[i].init /\ ~Awaits(i) /\ i \notin early \cup torn => RegsFor(i, node[i].regs, Of(i))
InitNode(i) ==
  /\ node[i].init <=> node[i].info # NoInfo
  /\ ~Loaded /\ node[i].init => i \in early \/ Awaits(i)

LEMMA NodeByNode ==
  /\ StoresOK <=> \A i \in Ids : StoresNode(i)
  /\ KeptOK <=> \A i \in Ids : KeptNode(i)
  /\ InitOK <=> \A i \in Ids : InitNode(i)
BY DEF StoresOK, KeptOK, InitOK, StoresNode, KeptNode, InitNode

\* What is to be stored in a node is the same, or less.
LEMMA StoresSame ==
  ASSUME NEW i \in Ids, StoresNode(i), i \in torn => i \in torn', node'[i].info = node[i].info, types' = types,
         \A th \in Threads : Writes(th, i)' => Writes(th, i) /\ thread'[th].desc = thread[th].desc
  PROVE  StoresNode(i)'
BY Zenon DEF StoresNode, Tears, Of

\* A node that is left alone.
LEMMA NodeSame ==
  ASSUME NEW i \in Ids, StoresNode(i), KeptNode(i), InitNode(i), node'[i] = node[i], types' = types,
         i \in torn <=> i \in torn', i \in early <=> i \in early', Loaded => Loaded', Awaits(i) <=> Awaits(i)',
         \A th \in Threads : /\ Writes(th, i)' <=> Writes(th, i)
                             /\ Writes(th, i) => thread'[th].desc = thread[th].desc
  PROVE  StoresNode(i)' /\ KeptNode(i)' /\ InitNode(i)'
<1>1. StoresNode(i)'
  BY StoresSame, Zenon
<1>2. Of(i)' = Of(i)
  BY DEF Of
<1>3. PICK regs, d : regs = node[i].regs /\ d = Of(i)
  OBVIOUS
<1>4. RegsFor(i, regs, d) => RegsFor(i, regs, d)'
  BY Zenon DEF RegsFor
<1>5. node'[i].regs = regs /\ Of(i)' = d
  BY <1>2, <1>3
<1>6. KeptNode(i)'
  BY <1>3, <1>4, <1>5, Zenon DEF KeptNode
<1>7. InitNode(i)'
  BY Zenon DEF InitNode
<1> QED BY <1>1, <1>6, <1>7

\* Nothing but the file, the counters or running changes.
LEMMA NothingLoaded ==
  ASSUME LoadInv, DOMAIN node' = Ids, \A j \in Ids : node'[j] = node[j], thread' = thread, types' = types,
         early' = early, torn' = torn, file' \in Files, running' \in BOOLEAN
  PROVE  LoadInv'
<1>1. TypeOK'
  <2>1. NodeTypes /\ NodeTypes'
    BY Types, Zenon DEF LoadInv, NodeTypes
  <2> QED BY <2>1 DEF LoadInv, TypeOK, NodeTypes
<1>2. ThreadOK' /\ Shape'
  BY DEF LoadInv, ThreadOK, Shape
<1>3. ASSUME NEW i \in Ids PROVE StoresNode(i)' /\ KeptNode(i)' /\ InitNode(i)'
  <2>1. StoresNode(i) /\ KeptNode(i) /\ InitNode(i)
    BY NodeByNode, Zenon DEF LoadInv
  <2>2. /\ Loaded <=> Loaded'
        /\ Awaits(i) <=> Awaits(i)'
        /\ \A th \in Threads : (Writes(th, i)' <=> Writes(th, i)) /\ thread'[th].desc = thread[th].desc
    BY DEF Loaded, Awaits, Writes
  <2> QED BY <2>1, <2>2, NodeSame, Zenon
<1>4. StoresOK' /\ KeptOK' /\ InitOK'
  BY <1>3, Zenon DEF StoresOK, KeptOK, InitOK, StoresNode, KeptNode, InitNode
<1> QED BY <1>1, <1>2, <1>4 DEF LoadInv

\* Who writes, and which nodes are waited for, when one thread has moved.
LEMMA OneMoved ==
  ASSUME NEW th \in Threads, \A u \in Threads : u # th => thread'[u] = thread[u], NEW j
  PROVE  /\ \A u \in Threads : u # th => (Writes(u, j)' <=> Writes(u, j)) /\ thread'[u].desc = thread[u].desc
         /\ th # "main" => (Loaded <=> Loaded')
         /\ /\ j \in thread[th].todo <=> j \in thread'[th].todo
            /\ th = "update" => ( (thread[th].pc = "description" /\ thread[th].id = j) <=>
                                  (thread'[th].pc = "description" /\ thread'[th].id = j) )
            => (Awaits(j) <=> Awaits(j)')
<1>1. \A u \in Threads : u # th => (Writes(u, j)' <=> Writes(u, j)) /\ thread'[u].desc = thread[u].desc
  BY DEF Writes
<1>2. th # "main" => (Loaded <=> Loaded')
  BY Apartness DEF Loaded
<1>3. ASSUME j \in thread[th].todo <=> j \in thread'[th].todo,
             th = "update" => ( (thread[th].pc = "description" /\ thread[th].id = j) <=>
                                (thread'[th].pc = "description" /\ thread'[th].id = j) )
      PROVE  Awaits(j) <=> Awaits(j)'
  <2>1. \A u \in Threads : j \in thread[u].todo <=> j \in thread'[u].todo
    BY <1>3
  <2>2. (thread["update"].pc = "description" /\ thread["update"].id = j) <=>
        (thread'["update"].pc = "description" /\ thread'["update"].id = j)
    BY <1>3, Apartness
  <2> QED BY <2>1, <2>2, Zenon DEF Awaits
<1> QED BY <1>1, <1>2, <1>3

\* load_description up to its loop, by the update thread or by a client's.
LEMMA CopyKeeps ==
  ASSUME LoadInv, NEW th \in Threads, NEW i \in Ids, NEW todo, CopyDescription(th, i, todo),
         types' = types, file' = file, running' = running,
         \/ th = "update" /\ thread[th].pc = "description" /\ thread[th].id = i /\ todo = {}
         \/ th \in Clients /\ thread[th].pc = "nodes" /\ todo = thread[th].todo \ {i}
  PROVE  LoadInv'
<1>1. /\ Shape'
      /\ node'[i].init = node[i].init /\ node'[i].info = node[i].info /\ node'[i].regs = std_register
      /\ \A j \in Ids : j # i => node'[j] = node[j]
      /\ thread'[th] = At("writing", i, Of(i), todo)
      /\ \A u \in Threads : u # th => thread'[u] = thread[u]
  BY Copied DEF LoadInv
<1>2. thread'[th].pc = "writing" /\ thread'[th].id = i /\ thread'[th].desc = Of(i) /\ thread'[th].todo = todo
  BY <1>1, AtFields
<1>3. thread[th].pc # "writing" /\ todo \subseteq Ids
  BY DEF LoadInv, TypeOK
<1>4. DescRegs(Of(i)) /\ Of(i)' = Of(i)
  BY <1>1, TypeRegs DEF LoadInv, TypeOK, Of
<1>5. TypeOK'
  <2>1. DOMAIN node'[i].regs \subseteq 1..255 /\ \A r \in DOMAIN node'[i].regs : node'[i].regs[r] \in DescType
    <3>1. \A r \in 1..5 : r \in 1..255
      BY SMT
    <3> QED BY <1>1, <3>1, StdRegisters
  <2>2. NodeTypes'
    <3>1. NodeTypes
      BY Types DEF LoadInv
    <3>2. ASSUME NEW j \in Ids
          PROVE  /\ node'[j].init \in BOOLEAN /\ node'[j].info \in Infos \cup {NoInfo}
                 /\ DOMAIN node'[j].regs \subseteq 1..255
                 /\ \A r \in DOMAIN node'[j].regs : node'[j].regs[r] \in DescType
      <4>1. CASE j = i
        BY <1>1, <2>1, <3>1, <4>1, Zenon DEF NodeTypes
      <4>2. CASE j # i
        BY <1>1, <3>1, <4>2, Zenon DEF NodeTypes
      <4> QED BY <4>1, <4>2
    <3> QED BY <3>2, Zenon DEF NodeTypes
  <2>3. \A u \in Threads : ThreadType(u)'
    BY <1>1, <1>2, <1>3, <1>4 DEF ThreadType, LoadInv, TypeOK
  <2>4. early' \subseteq Ids /\ torn' \subseteq Ids
    BY DEF CopyDescription, LoadInv, TypeOK
  <2> QED BY <2>2, <2>3, <2>4 DEF LoadInv, TypeOK, NodeTypes, ThreadType
<1>6. ThreadOK'
  BY <1>1, <1>2, Apartness DEF LoadInv, ThreadOK
<1>7. ASSUME NEW j \in Ids, j # i PROVE StoresNode(j)' /\ KeptNode(j)' /\ InitNode(j)'
  <2>1. StoresNode(j) /\ KeptNode(j) /\ InitNode(j)
    BY NodeByNode, Zenon DEF LoadInv
  <2>2. (j \in early <=> j \in early') /\ (j \in torn <=> j \in torn')
    BY <1>7 DEF CopyDescription
  <2>3. ~Writes(th, j) /\ ~Writes(th, j)'
    BY <1>2, <1>3, <1>7 DEF Writes
  <2>4. j \in thread[th].todo <=> j \in thread'[th].todo
    BY <1>2, <1>7 DEF LoadInv, ThreadOK
  <2>5. th = "update" => ( (thread[th].pc = "description" /\ thread[th].id = j) <=>
                           (thread'[th].pc = "description" /\ thread'[th].id = j) )
    BY <1>2, <1>7, Apartness
  <2>6. th # "main"
    BY Apartness
  <2>7. /\ \A u \in Threads : u # th => (Writes(u, j)' <=> Writes(u, j)) /\ thread'[u].desc = thread[u].desc
        /\ Loaded <=> Loaded'
        /\ Awaits(j) <=> Awaits(j)'
    BY <1>1, <2>4, <2>5, <2>6, OneMoved, Zenon
  <2>8. \A u \in Threads : (Writes(u, j)' <=> Writes(u, j)) /\ (Writes(u, j) => thread'[u].desc = thread[u].desc)
    BY <2>3, <2>7, Zenon
  <2>9. node'[j] = node[j]
    BY <1>1, <1>7
  <2> QED BY <2>1, <2>2, <2>7, <2>8, <2>9, NodeSame, Zenon
<1>8. StoresNode(i)'
  <2>1. SUFFICES ASSUME i \notin torn', NEW u \in Threads, Writes(u, i)', NEW r \in DOMAIN thread'[u].desc
                 PROVE  Has(Of(i), r) /\ Of(i)[r] = thread'[u].desc[r]
    BY <1>4, Zenon DEF StoresNode, Tears
  <2>2. CASE u = th
    BY <1>2, <2>1, <2>2 DEF Has
  <2>3. CASE u # th
    <3>1. thread'[u] = thread[u] /\ Writes(u, i)
      BY <1>1, <2>1, <2>3 DEF Writes
    <3>2. torn' = torn
      BY <2>3, <3>1 DEF CopyDescription
    <3>3. ~Tears(i, Of(i))
      BY <2>1, <3>2 DEF LoadInv, StoresOK
    <3> QED BY <2>1, <3>1, <3>3 DEF Tears
  <2> QED BY <2>2, <2>3
<1>9. KeptNode(i)'
  <2>1. PICK d : d = Of(i)
    OBVIOUS
  <2>2. Partly(std_register, d)
    BY <1>4, <2>1, StdPartly
  <2>3. Writes(th, i)' /\ thread'[th].desc = d
    BY <1>2, <2>1 DEF Writes
  <2>4. RegsFor(i, std_register, d)'
    BY <2>2, <2>3, Zenon DEF RegsFor
  <2> QED BY <1>1, <1>4, <2>1, <2>4, Zenon DEF KeptNode
<1>10. InitNode(i)'
  <2>1. ~Loaded' => i \in early'
    <3>1. th # "main"
      BY Apartness
    <3>2. Loaded <=> Loaded'
      BY <1>1, <3>1, Apartness DEF Loaded
    <3> QED BY <3>2 DEF CopyDescription
  <2>2. InitNode(i)
    BY NodeByNode, Zenon DEF LoadInv
  <2> QED BY <1>1, <2>1, <2>2, Zenon DEF InitNode
<1>11. StoresOK' /\ KeptOK' /\ InitOK'
  <2>1. \A j \in Ids : StoresNode(j)' /\ KeptNode(j)' /\ InitNode(j)'
    BY <1>7, <1>8, <1>9, <1>10, Zenon
  <2> QED BY <2>1, Zenon DEF StoresOK, KeptOK, InitOK, StoresNode, KeptNode, InitNode
<1> QED BY <1>1, <1>5, <1>6, <1>11 DEF LoadInv
\* main loads the file: until then every initialised node was copied early.
LEMMA MainKeeps ==
  ASSUME LoadInv, MainLoads
  PROVE  LoadInv'
<1>1. /\ ~Loaded /\ types' = Filled(types, file) /\ torn' = torn \cup Torn(types')
      /\ thread' = [thread EXCEPT !["main"] = Resting] /\ node' = node
      /\ file' = file /\ running' = running /\ early' = early
  BY DEF MainLoads
<1>2. Shape' /\ thread'["main"] = Resting /\ \A u \in Threads : u # "main" => thread'[u] = thread[u]
  BY <1>1, ThreadMoves, AtFields, Apartness DEF LoadInv, Resting
<1>3. TypesType'
  BY <1>1, FilledRegs DEF LoadInv, TypeOK, TypesType
<1>4. TypeOK'
  <2>1. \A u \in Threads : ThreadType(u)'
    BY <1>2, AtFields, NoRegs DEF ThreadType, LoadInv, TypeOK
  <2>2. torn' \subseteq Ids /\ NodeTypes'
    BY <1>1 DEF LoadInv, TypeOK, Torn, NodeTypes
  <2> QED BY <1>1, <1>3, <2>1, <2>2 DEF LoadInv, TypeOK, TypesType, NodeTypes, ThreadType
<1>5. ThreadOK'
  BY <1>2, AtFields, Apartness DEF LoadInv, ThreadOK
<1>6. ASSUME NEW i \in Ids PROVE StoresNode(i)' /\ KeptNode(i)' /\ InitNode(i)'
  <2>1. StoresNode(i)'
    <3>1. PICK d : d = Of(i)'
      OBVIOUS
    <3>2. i \notin torn' => ~Tears(i, d)
      BY <1>1, <3>1 DEF Torn, Of
    <3>3. \A u \in Threads : Writes(u, i)' => Writes(u, i) /\ thread'[u].desc = thread[u].desc
      BY <1>2, AtFields DEF Writes
    <3>4. i \notin torn' => ~Tears(i, d)'
      BY <3>2, <3>3, Zenon DEF Tears
    <3> QED BY <3>1, <3>4, Zenon DEF StoresNode
  <2>2. Awaits(i) => Awaits(i)'
    <3>1. \A u \in Threads : i \in thread[u].todo => u # "main"
      BY DEF LoadInv, ThreadOK
    <3>2. thread'["update"] = thread["update"]
      BY <1>2, Apartness
    <3> QED BY <1>2, <3>1, <3>2, Zenon DEF Awaits
  <2>3. InitNode(i)
    BY NodeByNode, Zenon DEF LoadInv
  <2>4. Loaded'
    BY <1>2, AtFields DEF Loaded
  <2> QED BY <1>1, <2>1, <2>2, <2>3, <2>4 DEF KeptNode, InitNode
<1>7. StoresOK' /\ KeptOK' /\ InitOK'
  BY <1>6, Zenon DEF StoresOK, KeptOK, InitOK, StoresNode, KeptNode, InitNode
<1> QED BY <1>2, <1>4, <1>5, <1>7 DEF LoadInv

\* Node::init: the load of the node is now waited for.
LEMMA InitKeeps ==
  ASSUME LoadInv, NEW i \in Ids, NEW info \in Infos, NodeInit(i, info)
  PROVE  LoadInv'
<1>1. /\ thread["update"].pc = "idle" /\ file' = file /\ types' = types /\ running' = running /\ early' = early
  BY DEF NodeInit
<1>2. info # NoInfo
  <2>1. info.type \in Word \ {0} /\ NoInfo.type = 0
    BY NodeDescAssumption DEF NoInfo
  <2> QED BY <2>1
<1>3. CASE node[i].info = info
  <2>1. node' = [node EXCEPT ![i].init = TRUE] /\ thread' = thread /\ torn' = torn
    BY <1>3 DEF NodeInit
  <2>2. node[i].init
    BY <1>2, <1>3 DEF LoadInv, InitOK
  <2>3. node[i].init = TRUE
    BY <2>2 DEF LoadInv, TypeOK
  <2>4. DOMAIN node' = Ids /\ \A j \in Ids : j # i => node'[j] = node[j]
    BY <2>1 DEF LoadInv, Shape
  <2>5. node'[i] = node[i]
    <3>1. node'[i] = [node[i] EXCEPT !.init = TRUE]
      BY <2>1 DEF LoadInv, Shape
    <3>2. node[i] = [init |-> node[i].init, info |-> node[i].info, regs |-> node[i].regs]
      BY DEF LoadInv, Shape
    <3> QED BY <2>3, <3>1, <3>2
  <2>6. \A j \in Ids : node'[j] = node[j]
    BY <2>4, <2>5
  <2> QED BY <1>1, <2>1, <2>4, <2>6, NothingLoaded DEF LoadInv, TypeOK
<1>4. CASE node[i].info # info
  <2>1. /\ node' = [node EXCEPT ![i] =
               [init |-> TRUE, info |-> info,
                regs |-> IF node[i].info.type \in {0, info.type} THEN node[i].regs ELSE Empty]]
        /\ thread' = [thread EXCEPT !["update"] = At("description", i, Empty, {})]
        /\ torn' = IF Tears(i, get_node_register_by_type(types, info.type)) THEN torn \cup {i} ELSE torn
    BY <1>4 DEF NodeInit
  <2>2. /\ DOMAIN node' = Ids /\ \A j \in Ids : j # i => node'[j] = node[j]
        /\ node'[i] = [init |-> TRUE, info |-> info,
                       regs |-> IF node[i].info.type \in {0, info.type} THEN node[i].regs ELSE Empty]
    BY <2>1 DEF LoadInv, Shape
  <2>3. node'[i].init = TRUE /\ node'[i].info = info /\ node'[i].regs \in {node[i].regs, Empty}
    BY <2>2
  <2>4. /\ DOMAIN thread' = Threads /\ thread'["update"] = At("description", i, Empty, {})
        /\ \A u \in Threads : u # "update" => thread'[u] = thread[u]
    BY <2>1, Apartness DEF LoadInv, Shape
  <2>5. /\ thread'["update"].pc = "description" /\ thread'["update"].id = i
        /\ thread'["update"].desc = Empty /\ thread'["update"].todo = {}
    BY <2>4, AtFields
  <2>6. Shape'
    <3>1. \A j \in Ids : node'[j] = [init |-> node'[j].init, info |-> node'[j].info, regs |-> node'[j].regs]
      <4>1. ASSUME NEW j \in Ids, j # i
            PROVE  node'[j] = [init |-> node'[j].init, info |-> node'[j].info, regs |-> node'[j].regs]
        BY <2>2, <4>1 DEF LoadInv, Shape
      <4> QED BY <2>2, <4>1
    <3>2. \A u \in Threads : thread'[u] = At(thread'[u].pc, thread'[u].id, thread'[u].desc, thread'[u].todo)
      BY <2>4, AtFields DEF LoadInv, Shape
    <3> QED BY <2>2, <2>4, <3>1, <3>2 DEF Shape
  <2>7. TypeOK'
    <3>1. NodeTypes
      BY Types DEF LoadInv
    <3>2. ASSUME NEW j \in Ids
          PROVE  /\ node'[j].init \in BOOLEAN /\ node'[j].info \in Infos \cup {NoInfo}
                 /\ DOMAIN node'[j].regs \subseteq 1..255
                 /\ \A r \in DOMAIN node'[j].regs : node'[j].regs[r] \in DescType
      <4>1. CASE j = i
        <5>1. DOMAIN Empty = {}
          BY DEF Empty
        <5>2. /\ DOMAIN node'[i].regs \subseteq 1..255
              /\ \A r \in DOMAIN node'[i].regs : node'[i].regs[r] \in DescType
          <6>1. CASE node'[i].regs = node[i].regs
            BY <3>1, <6>1, Zenon DEF NodeTypes
          <6>2. CASE node'[i].regs = Empty
            BY <5>1, <6>2
          <6> QED BY <2>3, <6>1, <6>2
        <5> QED BY <2>3, <4>1, <5>2
      <4>2. CASE j # i
        BY <2>2, <3>1, <4>2, Zenon DEF NodeTypes
      <4> QED BY <4>1, <4>2
    <3>3. \A u \in Threads : ThreadType(u)'
      BY <2>4, <2>5, NoRegs DEF ThreadType, LoadInv, TypeOK
    <3>4. torn' \subseteq Ids
      BY <2>1 DEF LoadInv, TypeOK
    <3> QED BY <1>1, <3>2, <3>3, <3>4 DEF LoadInv, TypeOK, ThreadType
  <2>8. ThreadOK'
    BY <2>4, <2>5, Apartness DEF LoadInv, ThreadOK
  <2>9. ASSUME NEW j \in Ids, j # i PROVE StoresNode(j)' /\ KeptNode(j)' /\ InitNode(j)'
    <3>1. StoresNode(j) /\ KeptNode(j) /\ InitNode(j)
      BY NodeByNode, Zenon DEF LoadInv
    <3>2. (j \in early <=> j \in early') /\ (j \in torn <=> j \in torn')
      BY <1>1, <2>1, <2>9
    <3>3. ~Writes("update", j) /\ ~Writes("update", j)'
      BY <1>1, <2>5 DEF Writes
    <3>4. "update" \in Threads /\ "update" # "main"
      BY Apartness
    <3>5. j \in thread["update"].todo <=> j \in thread'["update"].todo
      BY <2>5 DEF LoadInv, ThreadOK
    <3>6. (thread["update"].pc = "description" /\ thread["update"].id = j) <=>
          (thread'["update"].pc = "description" /\ thread'["update"].id = j)
      BY <1>1, <2>5, <2>9
    <3>7. /\ \A u \in Threads : u # "update" => (Writes(u, j)' <=> Writes(u, j)) /\ thread'[u].desc = thread[u].desc
          /\ Loaded <=> Loaded'
          /\ Awaits(j) <=> Awaits(j)'
      BY <2>4, <3>4, <3>5, <3>6, OneMoved, Zenon
    <3>8. \A u \in Threads : (Writes(u, j)' <=> Writes(u, j)) /\ (Writes(u, j) => thread'[u].desc = thread[u].desc)
      BY <3>3, <3>7, Zenon
    <3>9. node'[j] = node[j]
      BY <2>2, <2>9
    <3> QED BY <1>1, <3>1, <3>2, <3>7, <3>8, <3>9, NodeSame, Zenon
  <2>10. Awaits(i)'
    BY <2>5 DEF Awaits
  <2>11. StoresNode(i)'
    <3>1. PICK d : d = get_node_register_by_type(types, info.type)
      OBVIOUS
    <3>2. Of(i)' = d
      BY <1>1, <2>3, <3>1 DEF Of
    <3>3. i \notin torn' => ~Tears(i, d)
      BY <2>1, <3>1
    <3>4. \A u \in Threads : Writes(u, i)' => Writes(u, i) /\ thread'[u].desc = thread[u].desc
      BY <2>4, <2>5 DEF Writes
    <3>5. i \notin torn' => ~Tears(i, d)'
      BY <3>3, <3>4, Zenon DEF Tears
    <3> QED BY <3>2, <3>5, Zenon DEF StoresNode
  <2>12. KeptNode(i)' /\ InitNode(i)'
    BY <1>2, <2>3, <2>10, Zenon DEF KeptNode, InitNode
  <2>13. StoresOK' /\ KeptOK' /\ InitOK'
    <3>1. \A j \in Ids : StoresNode(j)' /\ KeptNode(j)' /\ InitNode(j)'
      BY <2>9, <2>11, <2>12, Zenon
    <3> QED BY <3>1, Zenon DEF StoresOK, KeptOK, InitOK, StoresNode, KeptNode, InitNode
  <2> QED BY <2>6, <2>7, <2>8, <2>13 DEF LoadInv
<1> QED BY <1>3, <1>4
\* What a loop over the entries of a description leaves.
LEMMA StoreKeeps ==
  ASSUME LoadInv, NEW th \in Threads, StoreDescription(th)
  PROVE  LoadInv'
<1>1. PICK i \in Ids :
           /\ Writes(th, i) /\ Shape'
           /\ node'[i].init = node[i].init /\ node'[i].info = node[i].info
           /\ node'[i].regs = Over(thread[th].desc, node[i].regs)
           /\ \A j \in Ids : j # i => node'[j] = node[j]
           /\ thread'[th] = AfterStore(th) /\ \A u \in Threads : u # th => thread'[u] = thread[u]
           /\ types' = types /\ file' = file /\ running' = running /\ early' = early /\ torn' = torn
  BY StoreSteps, Zenon DEF LoadInv
<1>2. th # "main" /\ thread[th].pc = "writing" /\ thread[th].id = i
  BY <1>1 DEF Writes, LoadInv, ThreadOK
<1>3. /\ thread'[th].pc \in {"idle", "nodes"} /\ thread'[th].desc = Empty
      /\ thread'[th].todo = thread[th].todo /\ (th = "update" => thread'[th].pc = "idle")
  <2>1. th = "update" => thread[th].todo = {}
    BY DEF LoadInv, ThreadOK
  <2>2. CASE th = "update" \/ thread[th].todo = {}
    <3>1. thread'[th] = Resting
      BY <1>1, <2>2 DEF AfterStore
    <3>2. thread'[th].pc = "idle" /\ thread'[th].desc = Empty /\ thread'[th].todo = {}
      BY <3>1, AtFields
    <3> QED BY <2>1, <2>2, <3>2
  <2>3. CASE ~(th = "update" \/ thread[th].todo = {})
    <3>1. thread'[th] = At("nodes", 0, Empty, thread[th].todo)
      BY <1>1, <2>3 DEF AfterStore
    <3>2. thread'[th].pc = "nodes" /\ thread'[th].desc = Empty /\ thread'[th].todo = thread[th].todo
      BY <3>1, AtFields
    <3> QED BY <2>3, <3>2
  <2> QED BY <2>2, <2>3
<1>4. TypeOK'
  <2>1. NodeTypes
    BY Types DEF LoadInv
  <2>2. /\ DOMAIN node'[i].regs \subseteq 1..255
        /\ \A r \in DOMAIN node'[i].regs : node'[i].regs[r] \in DescType
    <3>1. DescRegs(thread[th].desc)
      BY DEF LoadInv, TypeOK
    <3>2. 10..255 \subseteq 1..255
      BY SMT
    <3> QED BY <1>1, <2>1, <3>1, <3>2 DEF NodeTypes, DescRegs, Over, Has
  <2>3. ASSUME NEW j \in Ids
        PROVE  /\ node'[j].init \in BOOLEAN /\ node'[j].info \in Infos \cup {NoInfo}
               /\ DOMAIN node'[j].regs \subseteq 1..255
               /\ \A r \in DOMAIN node'[j].regs : node'[j].regs[r] \in DescType
    <3>1. CASE j = i
      BY <1>1, <2>1, <2>2, <3>1, Zenon DEF NodeTypes
    <3>2. CASE j # i
      BY <1>1, <2>1, <3>2, Zenon DEF NodeTypes
    <3> QED BY <3>1, <3>2
  <2>4. \A u \in Threads : ThreadType(u)'
    BY <1>1, <1>3, NoRegs DEF ThreadType, LoadInv, TypeOK
  <2> QED BY <1>1, <2>3, <2>4 DEF LoadInv, TypeOK, ThreadType
<1>5. ThreadOK'
  BY <1>1, <1>2, <1>3, Apartness DEF LoadInv, ThreadOK
<1>6. ASSUME NEW j \in Ids
      PROVE  /\ \A u \in Threads : u # th => (Writes(u, j)' <=> Writes(u, j)) /\ thread'[u].desc = thread[u].desc
             /\ Loaded <=> Loaded'
             /\ Awaits(j) <=> Awaits(j)'
             /\ ~Writes(th, j)'
  <2>1. th = "update" => ( (thread[th].pc = "description" /\ thread[th].id = j) <=>
                           (thread'[th].pc = "description" /\ thread'[th].id = j) )
    BY <1>2, <1>3
  <2>2. j \in thread[th].todo <=> j \in thread'[th].todo
    BY <1>3
  <2>3. ~Writes(th, j)'
    BY <1>3 DEF Writes
  <2> QED BY <1>1, <1>2, <2>1, <2>2, <2>3, OneMoved, Zenon
<1>7. ASSUME NEW j \in Ids, j # i PROVE StoresNode(j)' /\ KeptNode(j)' /\ InitNode(j)'
  <2>1. StoresNode(j) /\ KeptNode(j) /\ InitNode(j)
    BY NodeByNode, Zenon DEF LoadInv
  <2>2. ~Writes(th, j)
    BY <1>2, <1>7 DEF Writes
  <2>3. \A u \in Threads : (Writes(u, j)' <=> Writes(u, j)) /\ (Writes(u, j) => thread'[u].desc = thread[u].desc)
    BY <1>6, <2>2, Zenon
  <2>4. node'[j] = node[j]
    BY <1>1, <1>7
  <2> QED BY <1>1, <1>6, <2>1, <2>3, <2>4, NodeSame, Zenon
<1>8. StoresNode(i)'
  <2>1. StoresNode(i)
    BY NodeByNode, Zenon DEF LoadInv
  <2>2. \A u \in Threads : Writes(u, i)' => Writes(u, i) /\ thread'[u].desc = thread[u].desc
    BY <1>6, Zenon
  <2> QED BY <1>1, <2>1, <2>2, StoresSame, Zenon
<1>9. InitNode(i)'
  <2>1. InitNode(i)
    BY NodeByNode, Zenon DEF LoadInv
  <2> QED BY <1>1, <1>6, <2>1, Zenon DEF InitNode
<1>10. KeptNode(i)'
  <2>1. PICK regs, d, e : regs = node[i].regs /\ d = Of(i) /\ e = thread[th].desc
    OBVIOUS
  <2>2. Of(i)' = d
    BY <1>1, <2>1 DEF Of
  <2>3. SUFFICES ASSUME node[i].init, ~Awaits(i), i \notin early \cup torn
                 PROVE  RegsFor(i, Over(e, regs), d)'
    BY <1>1, <1>6, <2>1, <2>2, Zenon DEF KeptNode
  <2>4. RegsFor(i, regs, d)
    BY <2>1, <2>3 DEF LoadInv, KeptOK
  <2>5. Within(e, d)
    BY <1>1, <2>1, <2>3 DEF LoadInv, StoresOK, Tears, Within
  <2>6. /\ Partly(Over(e, regs), d) /\ Over(d, regs) = Over(d, std_register)
        /\ regs = Over(d, std_register) => Over(e, regs) = regs
    BY <2>4, <2>5, Stored, Zenon DEF RegsFor
  <2>7. CASE e = d
    BY <2>6, <2>7, Zenon DEF RegsFor
  <2>8. CASE regs = Over(d, std_register)
    BY <2>6, <2>8, Zenon DEF RegsFor
  <2>9. CASE e # d /\ \E u \in Threads : Writes(u, i) /\ thread[u].desc = d
    <3>1. PICK u \in Threads : Writes(u, i) /\ thread[u].desc = d
      BY <2>9
    <3>2. u # th
      BY <2>1, <2>9, <3>1
    <3>3. Writes(u, i)' /\ thread'[u].desc = d
      BY <1>6, <3>1, <3>2, Zenon
    <3> QED BY <2>6, <3>3, Zenon DEF RegsFor
  <2> QED BY <2>4, <2>7, <2>8, <2>9, Zenon DEF RegsFor
<1>11. StoresOK' /\ KeptOK' /\ InitOK'
  <2>1. \A j \in Ids : StoresNode(j)' /\ KeptNode(j)' /\ InitNode(j)'
    BY <1>7, <1>8, <1>9, <1>10, Zenon
  <2> QED BY <2>1, Zenon DEF StoresOK, KeptOK, InitOK, StoresNode, KeptNode, InitNode
<1> QED BY <1>1, <1>4, <1>5, <1>11 DEF LoadInv

\* A client changes the table and has all nodes before it.
LEMMA TableKeeps ==
  ASSUME LoadInv, NEW c \in Clients, thread[c].pc \in {"idle", "empty"},
         \A t \in DOMAIN types' : DescRegs(types'[t]), torn' = torn \cup Torn(types'),
         node' = node, file' = file, running' = running, early' = early,
         NEW x, x = At(x.pc, x.id, x.desc, x.todo), thread' = [thread EXCEPT ![c] = x],
         x.pc \in {"empty", "nodes"}, x.todo = Ids, x.desc \in {Empty, thread[c].desc}
  PROVE  LoadInv'
<1>1. c \in Threads /\ c # "main" /\ c # "update"
  BY Apartness
<1>2. Shape' /\ thread'[c] = x /\ \A u \in Threads : u # c => thread'[u] = thread[u]
  BY <1>1, ThreadMoves DEF LoadInv
<1>3. TypeOK'
  <2>1. \A u \in Threads : ThreadType(u)'
    BY <1>2, NoRegs DEF ThreadType, LoadInv, TypeOK
  <2>2. torn' \subseteq Ids /\ NodeTypes'
    BY DEF LoadInv, TypeOK, Torn, NodeTypes
  <2> QED BY <2>1, <2>2 DEF LoadInv, TypeOK, NodeTypes, ThreadType
<1>4. ThreadOK'
  BY <1>1, <1>2, Apartness DEF LoadInv, ThreadOK
<1>5. ASSUME NEW i \in Ids PROVE StoresNode(i)' /\ KeptNode(i)' /\ InitNode(i)'
  <2>1. Awaits(i)'
    BY <1>1, <1>2 DEF Awaits
  <2>2. StoresNode(i)'
    <3>1. PICK d : d = Of(i)'
      OBVIOUS
    <3>2. i \notin torn' => ~Tears(i, d)
      BY <3>1 DEF Torn, Of
    <3>3. \A u \in Threads : Writes(u, i)' => Writes(u, i) /\ thread'[u].desc = thread[u].desc
      BY <1>2 DEF Writes
    <3>4. i \notin torn' => ~Tears(i, d)'
      BY <3>2, <3>3, Zenon DEF Tears
    <3> QED BY <3>1, <3>4, Zenon DEF StoresNode
  <2>3. InitNode(i)
    BY NodeByNode, Zenon DEF LoadInv
  <2> QED BY <2>1, <2>2, <2>3, Zenon DEF KeptNode, InitNode
<1>6. StoresOK' /\ KeptOK' /\ InitOK'
  BY <1>5, Zenon DEF StoresOK, KeptOK, InitOK, StoresNode, KeptNode, InitNode
<1> QED BY <1>2, <1>3, <1>4, <1>6 DEF LoadInv

\* NodeDescLoader::reload, up to the emptying of the table and from there on.
LEMMA ReloadKeeps ==
  ASSUME LoadInv, NEW c \in Clients, Reload(c)
  PROVE  LoadInv'
<1>1. PICK x : x = At("empty", 0, Empty, Ids)
  OBVIOUS
<1>2. x.pc = "empty" /\ x.desc = Empty /\ x.todo = Ids /\ x = At(x.pc, x.id, x.desc, x.todo)
  BY <1>1, AtFields
<1>3. thread[c].pc = "idle"
  BY AtFields DEF Reload
<1>4. \A t \in DOMAIN types' : DescRegs(types'[t])
  BY DEF Reload, Empty
<1> QED BY <1>1, <1>2, <1>3, <1>4, TableKeeps DEF Reload

LEMMA ReloadFileKeeps ==
  ASSUME LoadInv, NEW c \in Clients, ReloadFile(c)
  PROVE  LoadInv'
<1>1. c \in Threads /\ thread[c].pc = "empty" /\ thread[c].todo = Ids
  BY Apartness DEF ReloadFile, LoadInv, ThreadOK
<1>2. PICK x : x = At("nodes", thread[c].id, thread[c].desc, Ids)
  OBVIOUS
<1>3. x.pc = "nodes" /\ x.desc = thread[c].desc /\ x.todo = Ids /\ x = At(x.pc, x.id, x.desc, x.todo)
  BY <1>2, AtFields
<1>4. thread' = [thread EXCEPT ![c] = x]
  <2>1. thread[c] = At(thread[c].pc, thread[c].id, thread[c].desc, Ids)
    BY <1>1 DEF LoadInv, Shape
  <2>2. [thread[c] EXCEPT !.pc = "nodes"] = x
    BY <1>2, <2>1 DEF At
  <2>3. thread' = [thread EXCEPT ![c] = [thread[c] EXCEPT !.pc = "nodes"]]
    BY DEF ReloadFile
  <2> QED BY <2>2, <2>3
<1>5. \A t \in DOMAIN types' : DescRegs(types'[t])
  <2>1. types' = Filled(types, file) /\ file \in Files /\ \A t \in DOMAIN types : DescRegs(types[t])
    BY DEF ReloadFile, LoadInv, TypeOK
  <2> QED BY <2>1, FilledRegs
<1> QED BY <1>1, <1>3, <1>4, <1>5, TableKeeps DEF ReloadFile

\* The loop over the nodes.
LEMMA VisitKeeps ==
  ASSUME LoadInv, NEW c \in Clients, NEW i \in Ids, Visit(c, i)
  PROVE  LoadInv'
<1>1. /\ thread[c].pc = "nodes" /\ i \in thread[c].todo
      /\ types' = types /\ file' = file /\ running' = running
      /\ \/ node[i].init /\ CopyDescription(c, i, thread[c].todo \ {i})
         \/ /\ ~node[i].init /\ node' = node /\ early' = early /\ torn' = torn /\ Shape'
            /\ thread'[c].pc \in {"nodes", "idle"} /\ thread'[c].todo = thread[c].todo \ {i}
            /\ thread'[c].desc \in {thread[c].desc, Empty}
            /\ \A u \in Threads : u # c => thread'[u] = thread[u]
  BY VisitSteps DEF LoadInv
<1>2. c \in Threads /\ c # "main" /\ c # "update"
  BY Apartness
<1>3. CASE node[i].init /\ CopyDescription(c, i, thread[c].todo \ {i})
  BY <1>1, <1>2, <1>3, CopyKeeps
<1>4. CASE /\ ~node[i].init /\ node' = node /\ early' = early /\ torn' = torn /\ Shape'
           /\ thread'[c].pc \in {"nodes", "idle"} /\ thread'[c].todo = thread[c].todo \ {i}
           /\ thread'[c].desc \in {thread[c].desc, Empty}
           /\ \A u \in Threads : u # c => thread'[u] = thread[u]
  <2>1. \A u \in Threads : ThreadType(u)'
    BY <1>4, NoRegs DEF ThreadType, LoadInv, TypeOK
  <2>2. TypeOK'
    BY <1>1, <1>4, <2>1 DEF LoadInv, TypeOK, ThreadType
  <2>3. ThreadOK'
    BY <1>2, <1>4, Apartness DEF LoadInv, ThreadOK
  <2>4. ASSUME NEW j \in Ids, j # i PROVE StoresNode(j)' /\ KeptNode(j)' /\ InitNode(j)'
    <3>1. StoresNode(j) /\ KeptNode(j) /\ InitNode(j)
      BY NodeByNode, Zenon DEF LoadInv
    <3>2. ~Writes(c, j) /\ ~Writes(c, j)'
      BY <1>1, <1>4 DEF Writes
    <3>3. j \in thread[c].todo <=> j \in thread'[c].todo
      BY <1>4, <2>4
    <3>4. /\ \A u \in Threads : u # c => (Writes(u, j)' <=> Writes(u, j)) /\ thread'[u].desc = thread[u].desc
          /\ Loaded <=> Loaded'
          /\ Awaits(j) <=> Awaits(j)'
      BY <1>2, <1>4, <3>3, OneMoved, Zenon
    <3>5. \A u \in Threads : (Writes(u, j)' <=> Writes(u, j)) /\ (Writes(u, j) => thread'[u].desc = thread[u].desc)
      BY <3>2, <3>4, Zenon
    <3> QED BY <1>1, <1>4, <3>1, <3>4, <3>5, NodeSame, Zenon
  <2>5. StoresNode(i)'
    <3>1. StoresNode(i)
      BY NodeByNode, Zenon DEF LoadInv
    <3>2. ~Writes(c, i)'
      BY <1>4 DEF Writes
    <3>3. \A u \in Threads : Writes(u, i)' => Writes(u, i) /\ thread'[u].desc = thread[u].desc
      BY <1>4, <3>2 DEF Writes
    <3> QED BY <1>1, <1>4, <3>1, <3>3, StoresSame, Zenon
  <2>6. KeptNode(i)' /\ InitNode(i)'
    <3>1. InitNode(i)
      BY NodeByNode, Zenon DEF LoadInv
    <3> QED BY <1>4, <3>1, Zenon DEF KeptNode, InitNode
  <2>7. StoresOK' /\ KeptOK' /\ InitOK'
    <3>1. \A j \in Ids : StoresNode(j)' /\ KeptNode(j)' /\ InitNode(j)'
      BY <2>4, <2>5, <2>6, Zenon
    <3> QED BY <3>1, Zenon DEF StoresOK, KeptOK, InitOK, StoresNode, KeptNode, InitNode
  <2> QED BY <1>4, <2>2, <2>3, <2>7 DEF LoadInv
<1> QED BY <1>1, <1>3, <1>4

\* The start.
LEMMA LoadStarts == Init => LoadInv
<1> SUFFICES ASSUME Init PROVE LoadInv
  OBVIOUS
<1>1. /\ node = [i \in Ids |-> [init |-> FALSE, info |-> NoInfo, regs |-> Empty]]
      /\ thread = [th \in Threads |-> IF th = "main" THEN [Resting EXCEPT !.pc = "load"] ELSE Resting]
      /\ file \in Files /\ types = Empty /\ running = TRUE /\ early = {} /\ torn = {}
  BY DEF Init
<1>2. [Resting EXCEPT !.pc = "load"] = At("load", 0, Empty, {})
  BY DEF Resting, At
<1>3. /\ thread["main"] = At("load", 0, Empty, {})
      /\ \A u \in Threads : u # "main" => thread[u] = Resting
  BY <1>1, <1>2, Apartness
<1>4. \A u \in Threads : /\ thread[u].pc \in {"load", "idle"} /\ (u # "main" => thread[u].pc = "idle")
                          /\ thread[u].todo = {} /\ thread[u].desc = Empty
  BY <1>3, AtFields
<1>5. DOMAIN Empty = {}
  BY DEF Empty
<1>6. Shape
  <2>1. \A u \in Threads : thread[u] = At(thread[u].pc, thread[u].id, thread[u].desc, thread[u].todo)
    <3>1. Resting = At(Resting.pc, Resting.id, Resting.desc, Resting.todo)
      BY AtFields DEF Resting
    <3>2. thread["main"] = At(thread["main"].pc, thread["main"].id, thread["main"].desc, thread["main"].todo)
      BY <1>3, AtFields
    <3> QED BY <1>3, <3>1, <3>2
  <2> QED BY <1>1, <2>1 DEF Shape
<1>7. TypeOK
  BY <1>1, <1>4, <1>5, NoRegs DEF TypeOK
<1>8. ThreadOK
  BY <1>3, <1>4, AtFields, Apartness DEF ThreadOK
<1>9. \A i \in Ids : node[i].init = FALSE /\ node[i].info = NoInfo
  BY <1>1
<1>10. StoresOK
  BY <1>4 DEF StoresOK, Tears, Writes
<1> QED BY <1>6, <1>7, <1>8, <1>9, <1>10 DEF LoadInv, KeptOK, InitOK

\* Every step.
LEMMA LoadNext == LoadInv /\ [Next]_vars => LoadInv'
<1> SUFFICES ASSUME LoadInv, [Next]_vars PROVE LoadInv'
  OBVIOUS
<1>1. DOMAIN node = Ids /\ file \in Files /\ running \in BOOLEAN
  BY DEF LoadInv, Shape, TypeOK
<1>2. CASE MainLoads
  BY <1>2, MainKeeps
<1>3. CASE InitLoads
  <2>1. PICK i \in Ids : i = thread["update"].id
    BY <1>3, Apartness DEF InitLoads, LoadInv, TypeOK
  <2>2. CopyDescription("update", i, {}) /\ types' = types /\ file' = file /\ running' = running
        /\ thread["update"].pc = "description" /\ thread["update"].id = i
    BY <1>3, <2>1 DEF InitLoads
  <2> QED BY <2>2, Apartness, CopyKeeps
<1>4. CASE EditFile
  <2>1. /\ node' = node /\ thread' = thread /\ types' = types /\ early' = early /\ torn' = torn
        /\ file' \in Files /\ running' = running
    BY <1>4 DEF EditFile
  <2> QED BY <1>1, <2>1, NothingLoaded
<1>5. CASE Crash
  <2>1. /\ node' = node /\ thread' = thread /\ types' = types /\ early' = early /\ torn' = torn
        /\ file' = file /\ running' = FALSE
    BY <1>5 DEF Crash
  <2> QED BY <1>1, <2>1, NothingLoaded
<1>6. CASE Idle \/ UNCHANGED vars
  <2>1. /\ node' = node /\ thread' = thread /\ types' = types /\ early' = early /\ torn' = torn
        /\ file' = file /\ running' = running
    BY <1>6 DEF Idle, vars
  <2> QED BY <1>1, <2>1, NothingLoaded
<1>7. ASSUME NEW i \in Ids, NEW info \in Infos, NodeInit(i, info) PROVE LoadInv'
  BY <1>7, InitKeeps
<1>8. ASSUME NEW th \in Threads, StoreDescription(th) PROVE LoadInv'
  BY <1>8, StoreKeeps
<1>9. ASSUME NEW c \in Clients, Reload(c) PROVE LoadInv'
  BY <1>9, ReloadKeeps
<1>10. ASSUME NEW c \in Clients, ReloadFile(c) PROVE LoadInv'
  BY <1>10, ReloadFileKeeps
<1>11. ASSUME NEW c \in Clients, NEW i \in Ids, Visit(c, i) PROVE LoadInv'
  BY <1>11, VisitKeeps
<1> QED BY <1>2, <1>3, <1>4, <1>5, <1>6, <1>7, <1>8, <1>9, <1>10, <1>11 DEF Next

\* The types of NodeDesc: for any files, nodes and clients, the table and the nodes'
\* registers hold described registers only, and of a file only 10 to 255
\* (NodeDescLoader::load_file).
THEOREM TypeCorrect == Spec => []TypeOK
<1>1. LoadInv => TypeOK
  BY DEF LoadInv
<1> QED BY <1>1, LoadStarts, LoadNext, PTL DEF Spec

\* Node::load_description against NodeDescLoader::reload: for any files, nodes,
\* announcements and clients that reload at any time, a node whose load is over has
\* the registers of its type in the table as last filled, unless they were copied
\* before main loaded the file, or a copy that was still to be stored was overtaken.
THEOREM LoadedRegisters == Spec => []RegistersLoaded
<1>1. LoadInv => RegistersLoaded
  <2>1. SUFFICES ASSUME LoadInv, NEW i \in Ids, node[i].init, ~Loading(i), i \notin early \cup torn
                 PROVE  Described(i)
    BY DEF RegistersLoaded
  <2>2. ~Awaits(i) /\ \A th \in Threads : ~Writes(th, i)
    BY <2>1, Apartness DEF Loading, Awaits
  <2>3. RegsFor(i, node[i].regs, Of(i))
    BY <2>1, <2>2 DEF LoadInv, KeptOK
  <2>4. node[i].regs = Over(Of(i), std_register)
    BY <2>2, <2>3, Zenon DEF RegsFor
  <2> QED BY <2>4, LoadedAre DEF Described, Of
<1> QED BY <1>1, LoadStarts, LoadNext, PTL DEF Spec
=============================================================================

------------------------------ MODULE NodeMgr ------------------------------
(***************************************************************************)
(* Nodes and devices of h9d (src/h9d/node_mgr.cc, node.cc, dev.cc,         *)
(* dev_workers.cc, dev_loader.cc, src/devs/).  The bus thread queues       *)
(* received frames; the update thread creates and initialises Node objects *)
(* and queues a task for every device that depends on the source node; the *)
(* workers run the tasks, change the device and tell the observers of the  *)
(* clients.  Meanwhile the main thread still adds the configured devices,  *)
(* which creates Node objects too.                                         *)
(*                                                                         *)
(* nodes[] is read and written without a lock, so each access is a step.   *)
(* A register value is the data of the device AntennaSwitch; the other     *)
(* devices keep only the id of their node.                                 *)
(***************************************************************************)
EXTENDS Naturals, Sequences, FiniteSets

CONSTANTS
  Nodes,      \* node ids on the bus, all <= H9Frame::ID_MAX_VALUE
  NodeType,   \* the type each node announces
  NoNode,     \* 0xffff, the node of a device that has found none
  NDevs,      \* dev sections of devs_configuration
  DevType,    \* type of each section
  DevNodes,   \* its node_ids, a sequence: validate_node_id refuses a larger id
  Workers,    \* threads of DevWorkers
  Observers,  \* DevStatusObservers of clients
  Values,     \* values of ANTENNA_SELECT_REG
  Scripts     \* bound: the sequences of frames the bus may bring

\* The sections, in file order.
Devs == 1..NDevs

\* The frames devices tell apart: NODE_INFO stands for NODE_TURNED_ON too, REG_VALUE
\* for a frame of either type with ANTENNA_SELECT_REG, BROADCAST0 for
\* NODE_SPECIFIC_BROADCAST0; the others, such as COMMAND_ERROR, change no device.
Kinds == {"NODE_INFO", "REG_VALUE", "COMMAND_ERROR", "BROADCAST0"}
Frames == [src : Nodes, kind : Kinds, value : Values]

Types == {"AntennaSwitch", "ATU", "PowerSwitch", "ThunderSwitch", "unknown"}

ASSUME NodeMgrAssumption ==
  /\ NodeType \in [Nodes -> {"antenna_switch", "other"}]
  /\ NoNode \notin Nodes
  /\ NDevs \in Nat
  /\ DevType \in [Devs -> Types]
  /\ DevNodes \in [Devs -> Seq(Nodes)]
  /\ IsFiniteSet(Workers)
  /\ Values \subseteq Nat /\ 0 \in Values
  /\ Scripts \subseteq Seq(Frames)

VARIABLES
  received,       \* frames received so far: source, kind, value
  bpc,            \* bus thread: "idle", or "notify" between push and notify_one
  frame_queue,    \* positions in received of the frames queued for the update thread
  due,            \* the time next_task has passed
  upc,            \* update thread: where it is
  frame,          \* its frame, a position in received
  batch,          \* tasks it is about to queue
  locked,         \* the Node object whose dependent_devices_mtx it holds, if any
  nodes,          \* nodes[id]: nullptr, or the thread that created the object
  node_type,      \* of each Node object once it is initialised
  dependent_devices,  \* of each Node object
  mpc,            \* main thread: where it is
  adding, ids,    \* the section it adds, and the node ids of it that are left
  devs_map,       \* sections whose device is in devs_map
  task_queue, sema, \* DevWorkers
  wpc, task,      \* each worker: where it is, and its task
  state,          \* the dev state it emits
  node_id,        \* of each device: switch_node_id, atu_id, switch_id
  selected,       \* AntennaSwitchDev::selected_antenna
  obs,            \* each observer: "none", "attached" or "deleted"
  emitting,       \* observers each worker goes through, dev_status_observer_mtx shared
  notified,       \* history: what each observer was told last of each device, if anything
  expected,       \* history: each device had its tasks been run in order
  disturbed       \* history: devices run by two workers at once or whose node
                  \* object was replaced

busVars    == <<received, bpc, frame_queue>>
updateVars == <<due, upc, frame, batch, locked>>
nodeVars   == <<nodes, node_type, dependent_devices>>
mainVars   == <<mpc, adding, ids, devs_map>>
queueVars  == <<task_queue, sema>>
workVars   == <<wpc, task, state>>
devVars    == <<node_id, selected>>
obsVars    == <<obs, emitting, notified>>
vars == <<busVars, updateVars, nodeVars, mainVars, queueVars, workVars, devVars,
          obsVars, expected, disturbed>>

Null == "nullptr"
Creators == {"main", "update"}
Objects == Nodes \X Creators

\* A task is a device and the frame it is about; PERIODIC_TASK has none.
NoFrame == 0
Periodic(d) == [dev |-> d, no |-> NoFrame]
Update(d, f) == [dev |-> d, no |-> f]
NoTask == [dev |-> 0, no |-> NoFrame]

Init ==
  /\ received = <<>> /\ bpc = "idle" /\ frame_queue = <<>>
  /\ due = FALSE /\ upc = "wait" /\ frame = NoFrame /\ batch = <<>>
  /\ locked = {}
  /\ nodes = [n \in Nodes |-> Null]
  /\ node_type = [o \in Objects |-> Null]
  /\ dependent_devices = [o \in Objects |-> <<>>]
  /\ mpc = "open" /\ adding = 0 /\ ids = <<>> /\ devs_map = {}
  /\ task_queue = <<>> /\ sema = 0
  /\ wpc = [w \in Workers |-> "idle"]
  /\ task = [w \in Workers |-> NoTask]
  /\ state = [w \in Workers |-> 0]
  /\ node_id = [d \in Devs |-> NoNode]
  /\ selected = [d \in Devs |-> 0]
  /\ obs = [o \in Observers |-> "none"]
  /\ emitting = [w \in Workers |-> {}]
  /\ notified = [o \in Observers |-> [d \in Devs |-> {}]]
  /\ expected = [d \in Devs |-> [node |-> NoNode, value |-> 0]]
  /\ disturbed = {}

-----------------------------------------------------------------------------
(* The bus thread. *)

\* NodeMgr::on_frame_recv: the frame is pushed under the lock ...
OnFrameRecv(f) ==
  /\ bpc = "idle"
  /\ received' = Append(received, f)
  /\ \E s \in Scripts : Len(received) < Len(s) /\ SubSeq(s, 1, Len(received) + 1) = received'
  /\ frame_queue' = Append(frame_queue, Len(received) + 1)
  /\ bpc' = "notify"
  /\ UNCHANGED <<updateVars, nodeVars, mainVars, queueVars, workVars, devVars, obsVars,
                 expected, disturbed>>

\* Mutant: the condition variable is not signalled.
NotifyNobody ==
  /\ bpc = "notify"
  /\ bpc' = "idle"
  /\ UNCHANGED <<received, frame_queue, updateVars, nodeVars, mainVars, queueVars, workVars,
                 devVars, obsVars, expected, disturbed>>

\* ... and notify_one follows after the unlock: a sleeping thread looks again.
NotifyOne ==
  /\ bpc = "notify"
  /\ bpc' = "idle"
  /\ upc' = IF upc = "asleep" THEN "wait" ELSE upc
  /\ UNCHANGED <<received, frame_queue, due, frame, batch, locked, nodeVars, mainVars,
                 queueVars, workVars, devVars, obsVars, expected, disturbed>>

-----------------------------------------------------------------------------
(* The update thread. *)

\* 30 seconds pass. Bound: not before the devices are loaded, the frames are there
\* (queued, or taken) and the last period's tasks are done.
Deadline ==
  /\ ~due
  /\ received \in Scripts
  /\ mpc = "serving"
  /\ \A i \in DOMAIN task_queue : task_queue[i].no # NoFrame
  /\ \A w \in Workers : task[w].no = NoFrame => task[w] = NoTask
  /\ batch # <<>> => frame # NoFrame
  /\ due' = TRUE
  /\ UNCHANGED <<busVars, upc, frame, batch, locked, nodeVars, mainVars, queueVars, workVars, devVars,
                 obsVars, expected, disturbed>>

\* front and pop.
Pop ==
  /\ frame' = Head(frame_queue)
  /\ frame_queue' = Tail(frame_queue)
  /\ upc' = "check"

\* wait_until under the lock: the predicate is looked at before the thread sleeps.
WaitUntil ==
  /\ upc = "wait"
  /\ IF frame_queue # <<>>
     THEN Pop
     ELSE upc' = "asleep" /\ UNCHANGED <<frame, frame_queue>>
  /\ UNCHANGED <<received, bpc, due, batch, locked, nodeVars, mainVars, queueVars, workVars, devVars,
                 obsVars, expected, disturbed>>

\* A sequence of the elements of a finite set, each once.
Listing(S) == CHOOSE s \in [1..Cardinality(S) -> S] : \A i, j \in DOMAIN s : s[i] = s[j] => i = j

\* The wait times out. With frames there the result is still true; otherwise
\* period_dev_update queues a task for every device.
TimedOut ==
  /\ upc = "asleep" /\ due
  /\ IF frame_queue # <<>>
     THEN Pop /\ UNCHANGED <<due, batch>>
     ELSE /\ due' = FALSE
          /\ batch' = [i \in 1..Cardinality(devs_map) |-> Periodic(Listing(devs_map)[i])]
          /\ upc' = IF devs_map = {} THEN "wait" ELSE "push"
          /\ frame' = NoFrame
          /\ UNCHANGED frame_queue
  /\ UNCHANGED <<received, bpc, locked, nodeVars, mainVars, queueVars, workVars, devVars, obsVars,
                 expected, disturbed>>

Source == received[frame].src
Kind == received[frame].kind

\* The sections that depend on a node.
DependentOn(n) == {d \in Devs : \E i \in DOMAIN DevNodes[d] : DevNodes[d][i] = n}

\* if (nodes[id] == nullptr), and next what follows it.
CheckNode ==
  /\ upc = "check"
  /\ upc' = IF nodes[Source] = Null THEN "create" ELSE "init"
  /\ UNCHANGED <<busVars, due, frame, batch, locked, nodeVars, mainVars, queueVars, workVars, devVars,
                 obsVars, expected, disturbed>>

\* nodes[id] = create_node(id) in thread t: whatever nodes[id] is by now is lost.
Create(n, t) ==
  /\ nodes' = [nodes EXCEPT ![n] = t]
  /\ disturbed' = IF nodes[n] = Null THEN disturbed ELSE disturbed \cup DependentOn(n)
  /\ UNCHANGED <<node_type, dependent_devices>>

CreateNode ==
  /\ upc = "create"
  /\ Create(Source, "update")
  /\ upc' = "init"
  /\ UNCHANGED <<busVars, due, frame, batch, locked, mainVars, queueVars, workVars, devVars, obsVars,
                 expected>>

\* NODE_INFO and NODE_TURNED_ON: Node::init sets the type and with it the registers.
InitNode ==
  /\ upc = "init"
  /\ upc' = "dispatch"
  /\ node_type' = IF Kind = "NODE_INFO"
                  THEN [node_type EXCEPT ![<<Source, nodes[Source]>>] = NodeType[Source]]
                  ELSE node_type
  /\ UNCHANGED <<busVars, due, frame, batch, locked, nodes, dependent_devices, mainVars, queueVars,
                 workVars, devVars, obsVars, expected, disturbed>>

\* Node::on_frame_recv takes dependent_devices_mtx and queues a task per device.
Dispatch ==
  /\ upc = "dispatch"
  /\ LET devs == dependent_devices[<<Source, nodes[Source]>>]
     IN /\ batch' = [i \in DOMAIN devs |-> Update(devs[i], frame)]
        /\ upc' = IF devs = <<>> THEN "wait" ELSE "push"
        /\ locked' = IF devs = <<>> THEN {} ELSE {<<Source, nodes[Source]>>}
  /\ UNCHANGED <<busVars, due, frame, nodeVars, mainVars, queueVars, workVars, devVars, obsVars,
                 expected, disturbed>>

\* History: device d after a task about frame f, had all earlier ones been run.
After(d, f) ==
  IF f = NoFrame \/ DevType[d] # "AntennaSwitch" THEN expected[d]
  ELSE LET r == received[f] IN
       CASE r.kind = "NODE_INFO" /\ NodeType[r.src] = "antenna_switch" -> [expected[d] EXCEPT !.node = r.src]
         [] r.kind = "REG_VALUE" /\ expected[d].node = r.src -> [expected[d] EXCEPT !.value = r.value]
         [] OTHER -> expected[d]

\* Mutant: release comes before push.
PushLate ==
  /\ upc = "push"
  /\ sema' = sema + 1
  /\ upc' = "release"
  /\ UNCHANGED <<busVars, due, frame, batch, locked, nodeVars, mainVars, task_queue, workVars, devVars,
                 obsVars, expected, disturbed>>

\* DevWorkers::update_dev_state, dev_periodic_task: push under the lock ...
Push ==
  /\ upc = "push"
  /\ task_queue' = Append(task_queue, Head(batch))
  /\ expected' = [expected EXCEPT ![Head(batch).dev] = After(Head(batch).dev, Head(batch).no)]
  /\ upc' = "release"
  /\ UNCHANGED <<busVars, due, frame, batch, locked, nodeVars, mainVars, sema, workVars, devVars, obsVars,
                 disturbed>>

\* ... then release.
Release ==
  /\ upc = "release"
  /\ sema' = sema + 1
  /\ batch' = Tail(batch)
  /\ upc' = IF Tail(batch) = <<>> THEN "wait" ELSE "push"
  /\ locked' = IF Tail(batch) = <<>> THEN {} ELSE locked
  /\ UNCHANGED <<busVars, due, frame, nodeVars, mainVars, task_queue, workVars, devVars, obsVars,
                 expected, disturbed>>

UpdateThread ==
  \/ WaitUntil \/ TimedOut \/ CheckNode \/ CreateNode \/ InitNode
  \/ Dispatch \/ Push \/ Release

-----------------------------------------------------------------------------
(* The main thread: DevLoader::load_file and NodeMgr::add_dev. *)

\* cfg_parse: a file that cannot be read or parsed configures no device.
LoadFile ==
  /\ mpc = "open"
  /\ mpc' \in {"load", "serving"}
  /\ UNCHANGED <<busVars, updateVars, nodeVars, adding, ids, devs_map, queueVars, workVars,
                 devVars, obsVars, expected, disturbed>>

\* The next section. create_dev knows no device of an unknown type; titles are
\* unique, so add_dev always finds the name free.
AddDev ==
  /\ mpc = "load"
  /\ adding + 1 \in Devs
  /\ adding' = adding + 1
  /\ IF DevType[adding + 1] = "unknown"
     THEN UNCHANGED <<mpc, ids, devs_map>>
     ELSE /\ devs_map' = devs_map \cup {adding + 1}
          /\ ids' = DevNodes[adding + 1]
          /\ mpc' = IF ids' = <<>> THEN "load" ELSE "check"
  /\ UNCHANGED <<busVars, updateVars, nodeVars, queueVars, workVars, devVars, obsVars, expected,
                 disturbed>>

\* if (nodes[node] == nullptr)
CheckDependency ==
  /\ mpc = "check"
  /\ mpc' = IF nodes[Head(ids)] = Null THEN "create" ELSE "depend"
  /\ UNCHANGED <<busVars, updateVars, nodeVars, adding, ids, devs_map, queueVars, workVars,
                 devVars, obsVars, expected, disturbed>>

CreateDependency ==
  /\ mpc = "create"
  /\ Create(Head(ids), "main")
  /\ mpc' = "depend"
  /\ UNCHANGED <<busVars, updateVars, adding, ids, devs_map, queueVars, workVars, devVars,
                 obsVars, expected>>

\* Node::add_dependent_devices, behind the mutex of that Node object.
AddDependent ==
  /\ mpc = "depend"
  /\ LET o == <<Head(ids), nodes[Head(ids)]>>
     IN /\ o \notin locked
        /\ dependent_devices' = [dependent_devices EXCEPT ![o] = Append(@, adding)]
  /\ ids' = Tail(ids)
  /\ mpc' = IF Tail(ids) = <<>> THEN "load" ELSE "check"
  /\ UNCHANGED <<busVars, updateVars, nodes, node_type, adding, devs_map, queueVars, workVars,
                 devVars, obsVars, expected, disturbed>>

\* After the last section the server runs.
Serve ==
  /\ mpc = "load"
  /\ adding + 1 \notin Devs
  /\ mpc' = "serving"
  /\ UNCHANGED <<busVars, updateVars, nodeVars, adding, ids, devs_map, queueVars, workVars,
                 devVars, obsVars, expected, disturbed>>

MainThread ==
  LoadFile \/ AddDev \/ CheckDependency \/ CreateDependency \/ AddDependent \/ Serve

-----------------------------------------------------------------------------
(* The workers of DevWorkers. *)

Running(w) == wpc[w] \notin {"idle", "take"}

\* Mutant: the worker does not wait for a task.
AcquireFree(w) ==
  /\ wpc[w] = "idle"
  /\ sema' = sema - 1
  /\ wpc' = [wpc EXCEPT ![w] = "take"]
  /\ UNCHANGED <<busVars, updateVars, nodeVars, mainVars, task_queue, task, state, devVars,
                 obsVars, expected, disturbed>>

\* sema.acquire()
Acquire(w) ==
  /\ wpc[w] = "idle"
  /\ sema > 0
  /\ sema' = sema - 1
  /\ wpc' = [wpc EXCEPT ![w] = "take"]
  /\ UNCHANGED <<busVars, updateVars, nodeVars, mainVars, task_queue, task, state, devVars,
                 obsVars, expected, disturbed>>

\* front and pop under the lock.
Take(w) ==
  /\ wpc[w] = "take"
  /\ task_queue # <<>>
  /\ task' = [task EXCEPT ![w] = Head(task_queue)]
  /\ task_queue' = Tail(task_queue)
  /\ wpc' = [wpc EXCEPT ![w] = "run"]
  /\ disturbed' = IF \E x \in Workers : Running(x) /\ task[x].dev = Head(task_queue).dev
                  THEN disturbed \cup {Head(task_queue).dev}
                  ELSE disturbed
  /\ UNCHANGED <<busVars, updateVars, nodeVars, mainVars, sema, state, devVars, obsVars, expected>>

\* on_dev_info: the antenna switch looks at the type, the thunder switch has none.
InfoTaken(d, n) ==
  \/ DevType[d] \in {"ATU", "PowerSwitch"}
  \/ DevType[d] = "AntennaSwitch" /\ NodeType[n] = "antenna_switch"

\* get_reg_value_from_frame knows the register (of a described type), and
\* on_dev_register_value finds it is the switch's and a new value.
IsNewValue(d, r) ==
  /\ DevType[d] = "AntennaSwitch"
  /\ node_type[<<r.src, nodes[r.src]>>] = "antenna_switch"
  /\ node_id[d] = r.src
  /\ r.value # selected[d]

\* The end of a task, and of the worker's turn.
Done(w) ==
  /\ wpc' = [wpc EXCEPT ![w] = "idle"]
  /\ task' = [task EXCEPT ![w] = NoTask]
  /\ state' = [state EXCEPT ![w] = 0]

\* periodic_task only logs; update_dev_state looks at the kind of the frame.
Run(w) ==
  /\ wpc[w] = "run"
  /\ LET d == task[w].dev
         r == received[task[w].no]
         update == task[w].no # NoFrame
     IN IF update /\ r.kind = "NODE_INFO"
        THEN /\ node_id' = IF InfoTaken(d, r.src) THEN [node_id EXCEPT ![d] = r.src] ELSE node_id
             /\ Done(w)
        ELSE IF update /\ r.kind = "REG_VALUE" /\ IsNewValue(d, r)
        THEN /\ wpc' = [wpc EXCEPT ![w] = "set"]
             /\ UNCHANGED <<node_id, task, state>>
        ELSE IF update /\ r.kind = "BROADCAST0" /\ DevType[d] = "ATU"
        THEN /\ wpc' = [wpc EXCEPT ![w] = "emit"]
             /\ UNCHANGED <<node_id, task, state>>
        ELSE Done(w) /\ UNCHANGED node_id
  /\ UNCHANGED <<busVars, updateVars, nodeVars, mainVars, queueVars, selected, obsVars, expected,
                 disturbed>>

\* Mutant: a value is kept only if it is larger.
SetLarger(w) ==
  /\ wpc[w] = "set"
  /\ LET v == received[task[w].no].value IN
     selected' = [selected EXCEPT ![task[w].dev] = IF v > @ THEN v ELSE @]
  /\ wpc' = [wpc EXCEPT ![w] = "read"]
  /\ UNCHANGED <<busVars, updateVars, nodeVars, mainVars, queueVars, task, state, node_id, obsVars,
                 expected, disturbed>>

\* selected_antenna = tmp
SetSelected(w) ==
  /\ wpc[w] = "set"
  /\ selected' = [selected EXCEPT ![task[w].dev] = received[task[w].no].value]
  /\ wpc' = [wpc EXCEPT ![w] = "read"]
  /\ UNCHANGED <<busVars, updateVars, nodeVars, mainVars, queueVars, task, state, node_id, obsVars,
                 expected, disturbed>>

\* get_dev_state
ReadState(w) ==
  /\ wpc[w] = "read"
  /\ state' = [state EXCEPT ![w] = selected[task[w].dev]]
  /\ wpc' = [wpc EXCEPT ![w] = "emit"]
  /\ UNCHANGED <<busVars, updateVars, nodeVars, mainVars, queueVars, task, devVars, obsVars,
                 expected, disturbed>>

\* emit_dev_state: dev_status_observer_mtx shared ...
EmitBegin(w) ==
  /\ wpc[w] = "emit"
  /\ emitting' = [emitting EXCEPT ![w] = {o \in Observers : obs[o] = "attached"}]
  /\ wpc' = [wpc EXCEPT ![w] = "deliver"]
  /\ UNCHANGED <<busVars, updateVars, nodeVars, mainVars, queueVars, task, state, devVars, obs,
                 notified, expected, disturbed>>

\* Mutant: an ATU's report waits for an answer of the node that never comes.
EmitEndWaits(w) ==
  /\ wpc[w] = "deliver"
  /\ DevType[task[w].dev] # "ATU"
  /\ notified' = [o \in Observers |->
                    IF o \in emitting[w] THEN [notified[o] EXCEPT ![task[w].dev] = {state[w]}]
                    ELSE notified[o]]
  /\ emitting' = [emitting EXCEPT ![w] = {}]
  /\ Done(w)
  /\ UNCHANGED <<busVars, updateVars, nodeVars, mainVars, queueVars, devVars, obs, expected,
                 disturbed>>

\* ... on_dev_state_update of every observer, and the unlock.
EmitEnd(w) ==
  /\ wpc[w] = "deliver"
  /\ notified' = [o \in Observers |->
                    IF o \in emitting[w] THEN [notified[o] EXCEPT ![task[w].dev] = {state[w]}]
                    ELSE notified[o]]
  /\ emitting' = [emitting EXCEPT ![w] = {}]
  /\ Done(w)
  /\ UNCHANGED <<busVars, updateVars, nodeVars, mainVars, queueVars, devVars, obs, expected,
                 disturbed>>

Worker(w) ==
  \/ Acquire(w) \/ Take(w) \/ Run(w) \/ SetSelected(w) \/ ReadState(w)
  \/ EmitBegin(w) \/ EmitEnd(w)

-----------------------------------------------------------------------------
(* The observers of clients. *)

Emitter == \E w \in Workers : wpc[w] = "deliver"

\* DevStatusObserver::DevStatusObserver: the lock is exclusive.
Attach(o) ==
  /\ mpc = "serving"
  /\ obs[o] = "none"
  /\ ~Emitter
  /\ obs' = [obs EXCEPT ![o] = "attached"]
  /\ UNCHANGED <<busVars, updateVars, nodeVars, mainVars, queueVars, workVars, devVars, emitting,
                 notified, expected, disturbed>>

\* Mutant: the list is changed without its lock.
DetachUnlocked(o) ==
  /\ obs[o] = "attached"
  /\ obs' = [obs EXCEPT ![o] = "deleted"]
  /\ UNCHANGED <<busVars, updateVars, nodeVars, mainVars, queueVars, workVars, devVars, emitting,
                 notified, expected, disturbed>>

\* DevStatusObserver::detach, and the delete that follows it in the client's thread.
Detach(o) ==
  /\ obs[o] = "attached"
  /\ ~Emitter
  /\ obs' = [obs EXCEPT ![o] = "deleted"]
  /\ UNCHANGED <<busVars, updateVars, nodeVars, mainVars, queueVars, workVars, devVars, emitting,
                 notified, expected, disturbed>>

Next ==
  \/ \E f \in Frames : OnFrameRecv(f)
  \/ NotifyOne
  \/ Deadline
  \/ UpdateThread
  \/ MainThread
  \/ \E w \in Workers : Worker(w)
  \/ \E o \in Observers : Attach(o) \/ Detach(o)

Spec == Init /\ [][Next]_vars

\* Each thread is scheduled: a step it can take stays possible until it is
\* taken, but for the semaphore and the mutexes, which other threads give back.
FairSpec ==
  /\ Spec
  /\ WF_vars(NotifyOne) /\ WF_vars(Deadline)
  /\ WF_vars(UpdateThread) /\ WF_vars(MainThread)
  /\ \A w \in Workers : WF_vars(Worker(w))

-----------------------------------------------------------------------------
(* Properties. *)

\* Types of the state: positions of frames stay within what was received, tasks
\* name configured devices, and the semaphore of DevWorkers never goes below zero.
TypeOK ==
  /\ received \in Seq(Frames)
  /\ bpc \in {"idle", "notify"}
  /\ frame_queue \in Seq(1..Len(received))
  /\ due \in BOOLEAN
  /\ upc \in {"wait", "asleep", "check", "create", "init", "dispatch", "push", "release"}
  /\ frame \in 0..Len(received)
  /\ batch \in Seq([dev : Devs, no : 0..Len(received)])
  /\ locked \subseteq Objects
  /\ nodes \in [Nodes -> Creators \cup {Null}]
  /\ node_type \in [Objects -> {"antenna_switch", "other", Null}]
  /\ dependent_devices \in [Objects -> Seq(Devs)]
  /\ mpc \in {"open", "load", "check", "create", "depend", "serving"}
  /\ adding \in {0} \cup Devs /\ ids \in Seq(Nodes) /\ devs_map \subseteq Devs
  /\ task_queue \in Seq([dev : Devs, no : 0..Len(received)])
  /\ sema \in Nat
  /\ wpc \in [Workers -> {"idle", "take", "run", "set", "read", "emit", "deliver"}]
  /\ task \in [Workers -> [dev : Devs \cup {0}, no : 0..Len(received)]]
  /\ state \in [Workers -> Values]
  /\ node_id \in [Devs -> Nodes \cup {NoNode}]
  /\ selected \in [Devs -> Values]
  /\ obs \in [Observers -> {"none", "attached", "deleted"}]
  /\ emitting \in [Workers -> SUBSET Observers]
  /\ notified \in [Observers -> [Devs -> SUBSET Values]]
  /\ disturbed \subseteq Devs

\* Tasks and semaphore agree at every step of the threads: the count, the workers
\* that have acquired and the task whose release is still due make up the queue.
\* So a worker that acquired always finds a task (task_queue.front() is defined)
\* and no task stays behind an empty semaphore.
SemaphoreCountsTasks ==
  Len(task_queue) =
    sema + Cardinality({w \in Workers : wpc[w] = "take"}) + (IF upc = "release" THEN 1 ELSE 0)

\* wait_until loses no wakeup: the update thread sleeps over a queued frame only
\* until notify_one of the bus thread, which is already on its way.
NoSleepOnFrames == upc = "asleep" /\ frame_queue # <<>> => bpc = "notify"

\* Workers tell observers that still exist: a client that goes away deletes its
\* observer only when no emit_dev_state is going through the list.
NoDeletedObserverTold == \A w \in Workers : \A o \in emitting[w] : obs[o] = "attached"

\* Nothing about device d is left to do.
Settled(d) ==
  /\ \A i \in DOMAIN task_queue : task_queue[i].dev # d
  /\ \A w \in Workers : task[w].dev # d

\* A device shows what the frames of its node said last, and so does the last
\* notification of every observer, although frames pass through three threads:
\* except for a device that two workers ran at once (five of them take tasks
\* from one queue) or whose Node object was created twice at startup.
DevStateIsLatest ==
  \A d \in Devs \ disturbed :
    Settled(d) =>
      /\ selected[d] = expected[d].value
      /\ DevType[d] = "AntennaSwitch" =>
           \A o \in Observers : obs[o] = "attached" => notified[o][d] \subseteq {selected[d]}

\* doc/API.md:704: get_dev_status returns the current state of a device. So once
\* nothing about it is left to do, it is what the frames of its node said last,
\* however many workers there are. Here the only exception is a device one of whose
\* nodes has two Node objects, which the next property is about.
Doubled(n) ==
  \/ nodes[n] = "main" /\ node_type[<<n, "update">>] # Null
  \/ nodes[n] = "update" /\ dependent_devices[<<n, "main">>] # <<>>
DevShowsLatest ==
  \A d \in Devs : Settled(d) /\ (\A n \in Nodes : ~Doubled(n)) => selected[d] = expected[d].value

\* doc/API.md:704 and 765: the state of a device follows its nodes. So once the
\* devices are loaded, each one depends on the Node objects of all its node_ids,
\* those that frames are dispatched to.
DevsHearNodes ==
  mpc = "serving" =>
    \A d \in devs_map : \A i \in DOMAIN DevNodes[d] :
      LET n == DevNodes[d][i]
          devs == dependent_devices[<<n, nodes[n]>>]
      IN \E j \in DOMAIN devs : devs[j] = d

\* A frame is being handled while it, or a task about it, is queued or run.
InHand(f) ==
  \/ \E i \in DOMAIN frame_queue : frame_queue[i] = f
  \/ frame = f /\ upc \notin {"wait", "asleep"}
  \/ \E i \in DOMAIN task_queue : task_queue[i].no = f
  \/ \E w \in Workers : task[w].no = f

\* Every frame received is handled by all the devices that depend on its node:
\* no thread of the three blocks for good.
FramesHandled == received # <<>> ~> \A f \in DOMAIN received : ~InHand(f)

=============================================================================

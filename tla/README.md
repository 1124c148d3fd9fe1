# h9d: TLA+ models, checks and proofs

h9d is a daemon that connects a CAN bus of H9 nodes (through SocketCAN, SLCAN serial
adapters, UDP, virtual and looped-back endpoints) with TCP clients that speak JSON-RPC.
This directory holds TLA+ models of the daemon and its client programs, the TLC
configurations that check them on small instances, and TLAPS proofs of the results that hold
for every instance. `PROJECT.json` maps every definition to the lines it models (paths as in
`src/...`).

## Inventory

| Component | State | Operations | Threads and interactions |
|---|---|---|---|
| Bus, BusFrame, BusEndpoint | send and forward queues, next_seqnum, counters and promise per frame, pending frames per endpoint | send_frame, recv_thread, add_driver | any thread calls send_frame and blocks; one bus thread sends, forwards, reads |
| Epoll | edge of an eventfd, socket readiness | wait, trigger_async_event | one instance per sleeping thread |
| Bus drivers, SlcanDriver | pending_send_count, receive buffer | send_data, recv_data, build and parse | called by the bus thread; acknowledge through a callback, at once or (SLCAN) on a later read |
| RawNode, H9FrameComparator | frame_promise_set, stored frames | get_reg, set_reg, set_bit, clear_bit, reset, on_frame_recv | callers (API threads, device workers) meet the update thread over a promise |
| NodeMgr, Node | frame_queue, nodes[], devs_map, register_map | on_frame_recv, update thread, add_dev, reload, register conversions | the bus thread produces, the update thread consumes, main and API threads read and write |
| DevWorkers, Dev, devices | task_queue, semaphore, device state | update_dev_state, dev_periodic_task, emit_dev_state | five workers |
| TCPServer, TCPClientThread | list of clients, thread flags, notification queue, observers | accept, sweep, requests, notifications, end of a thread | server thread, a thread per client, notifications from the bus thread and the workers |
| API | authenticated | 21 methods | called by client threads; reaches Bus, NodeMgr, TCPServer |
| FrameSubject, observers | observer list | attach, detach, notify | client threads attach and detach, the bus thread notifies |
| VirtualEndpoint, VirtualPyNode | node id, registers | on_frame, reset | own thread behind a socket pair |
| H9Frame | fields, some unset | identifier, serialisation, JSON | everywhere |
| H9dConfigurator, main | options, pid, privileges, endpoints, threads | the calls of main | sequential; creates the threads |
| TCP framing, H9Connector | receive buffer, message ids | send, recv, authentication | client programs and client threads |
| FirmwareUploader | page, fw_idx | page protocol | a separate program against a node's bootloader |
| h9cli, h9send, h9sniffer, h9stats | cache, registry of nodes | commands, loops, filters | sequential, against the daemon or a bus |
| Metrics, Kqueue, dummy driver | | | not modelled |

What is hard here: a queue whose consumer is woken through an edge written outside the lock;
acknowledgements paired with frames by order alone; answers that overtake the knowledge of the
number they are matched by; timeouts that race late answers; threads removed by another thread
that looks at a flag; an edge-triggered event next to a level-triggered socket; maps that several
threads fill without a lock; values that pass through two conversions and a line; a stream cut
anywhere. The list, line by line, is under "hazards" in `PROJECT.json`. What makes each part
correct:

* Bus: no frame is stranded, the promise of a frame is set once and only after every endpoint
  acknowledged, an acknowledgement is about the frame it is counted for, numbers in flight
  differ, send_frame returns.
* RawNode: a promise is never used after its deletion nor set twice, a call gets its own answer
  and misses none, every call returns.
* TCP: queued notifications are sent, the assertions hold, a listing request returns.
* NodeMgr and DevWorkers: no frame, task or wakeup is lost, a device shows the last value, no
  deleted observer is called.
* Start and API: threads and sockets belong to the process that serves; a frame means the same
  at both ends of a line; a register is read back as written; registers follow their descriptions.
* Clients: an answer belongs to its request, a cached name is no older than the last clear, an
  upload ends with the file in the flash.

## Modules

Concurrency of the daemon, one module per group of threads:

* `Bus` models the data bus. The callers' side of `send_frame` is `SendFrame` (push and
  emptiness test, under the mutex), `Trigger` (eventfd, after the unlock) and `Return`. The bus
  thread is a program counter: `Wait`; the drain loop `ForwardPop`, `SendPop`, one of
  `SendSync`, `SendSlcan`, `SkipOrigin` per endpoint, `SendDone`, `DrainEnd`; and the read loop
  `ReadAnswer`, `ReadFrame`, `ReadEnd`, `Deliver`, `ReadDone`. `DriverThrows` ends the daemon.
  The adapter (`wire`, `answers`), the arriving frames (`rx`) and the reuse of memory are
  external.
* `SendService` is what send_frame promises, with no bus thread, events or endpoints. `Bus`
  implements it under the mapping at the end of `Bus`, and `RawNode` is composed with it.
* `RawNode` models the calls to one node: `CreatePromise`, `Send`, `SetComparatorSeqnum` (the
  replay of stored frames), `TakeAnswer`, `Timeout`, `DestroyAfterTimeout`; `OnFrameRecv` is
  the update thread. The four register methods differ only in the bytes they send and share
  their control; `op` is the register, or `Reset`. The node is external: it answers in order,
  with a value, a malformed value or an error, or not at all. Each frame carries as history
  the call it answers.
* `TcpService` models the server thread, the client threads, the observers and their
  notifications. The destructor of a client is three steps (`DeleteObservers`,
  `CloseConnection`, `Join`), taken with the list's mutex held. A failed assertion, and an
  exception that leaves a thread, end the daemon (`"aborted"`).
* `NodeMgr` models the path of a received frame to the devices. The bus thread is `OnFrameRecv`
  (push) and `NotifyOne` (after the unlock); the update thread is `Pop`, `WaitUntil`,
  `TimedOut` (periodic tasks), `CheckNode`, `CreateNode`, `InitNode`, `Dispatch`, `Push`,
  `Release`; a worker is `Acquire`, `Take`, `Run`, the device's reaction (`SetLarger`,
  `SetSelected`, `ReadState`) and `EmitBegin`, `EmitEnd`; main is `LoadFile`, `AddDev`,
  `CheckDependency`, `CreateDependency`, `AddDependent`, `Serve`. `nodes[]` is read and written
  without a lock, so every access is a step of its own, and an object is identified by its
  creator. `expected` and `disturbed` are history.

The daemon as one client sees it, with the data that the modules above abstract from:

* `H9Frame`: the fields with their widths, the 29-bit identifier, the 13 serialised bytes, JSON,
  and what each driver's form keeps of a frame (`Carried`). A field that the code leaves unset
  keeps what the object held before.
* `NodeRegister`: what `Node` makes of a JSON value and of a node's answer, with every error.
* `VirtualNode`: `VirtualEndpoint`, `VirtualPyNode` and the frames of the Python interface.
* `Startup`: the calls of `main` in their order (`Main`), each an action with all its outcomes:
  exit, abort, or the next call.
* `NodeDesc`: the table of descriptions and the registers of the nodes, between the threads that
  load and reload them without a lock: main (`MainLoads`), the update thread (`NodeInit`,
  `InitLoads`, `StoreDescription`) and the threads of the clients (`Reload` empties the table,
  `ReloadFile` fills it, `Visit` is one round of the loop over the nodes, `StoreDescription` the
  loop at the end of `load_description`). A thread holds the copy of the registers of a type that
  it has still to store. What two threads in one `std::map` may do besides is the end of the daemon
  (`Crash`). `early` and `torn` are history.
* `Request`: a request from the API to a node and back: nodes, numbering, the
  lines to the virtual node and to a node on a real bus, the antenna switch. There is one client
  here, and the descriptions do not change after the start.
* `Daemon` composes `Startup` and `Request` and holds the methods of the API.

The client programs:

* `JsonTcp`: the length-prefixed stream, cut anywhere; `ClientConfig`: from the command line and
  the files to a connection; `CliCache`: what h9cli remembers; `FirmwareUpload`: the Intel HEX
  reader, the reaction of the uploader to a frame, and, external, the bootloader; `Maps`: the
  std::map of the last two.
* `Client` composes them: five programs from main to their exits, against a daemon that may stop
  and a node that may restart, give a page up or be silent.

`MCBus`, `MCRawNode`, `MCTcpService`, `MCNodeMgr`, `MCNodeDesc`, `MCDaemon` and `MCClient` give
TLC the sets and symmetries; `Bus_proof`, `RawNode_proof`, `TcpService_proof`, `NodeMgr_proof`,
`NodeDesc_proof`, `H9Frame_proof`, `Daemon_proof` and `Client_proof` hold the theorems.

A definition whose comment begins with "Mutant" is a deliberately wrong variant of the
definition after it. It is used by no specification; it shows that a property can fail.

## Runs

| Run | Result | What it shows |
|---|---|---|
| bus | holds | wakeups, acknowledgements, numbers; `Bus` implements `SendService` |
| bus_fair | holds | no stranded forward, every send_frame returns, every forward happens |
| raw_node | holds | promises, own answers, no missed register answer, every call returns |
| raw_node_reset | `ResetAnswerNotMissed` fails | reset() compares a number that broadcasts never get |
| tcp | holds | queue assertion, notifications of listening peers |
| tcp_stall | `NoStalledNotification` fails | an edge consumed with a request strands notifications |
| tcp_listing | `ListingReturns` fails | the sweep joins a thread that waits for the sweep's mutex |
| node_mgr | holds | no lost wakeup or task, no deleted observer told, devices show the last value, every frame is handled |
| node_desc | holds | registers follow the table in every interleaving, but for early and torn loads |
| daemon | holds | order of the start, endpoints of the bus, frames over every line, registers read back, the node found |
| daemon_read | `ReadBackDocumented` fails | an integer of 32 bits is masked by an undefined shift and read as a float |
| client | holds | answers and requests, the cache of h9cli, the image in the flash, an upload ends |

The four that fail are disagreements between the code and its documents; each is quoted under
"findings".

**Further configurations.** Each of these fails in the property it checks, because a comment, a
document or an assertion says one thing and the code does another. Most state without an exception
what a property of the runs above states with one.

| Configuration | Module | Property that fails | What happens | What is said |
|---|---|---|---|---|
| BusInit.cfg | MCBus | `AckIsAboutFrame` | the CR for the init command (slcan_driver.cc:73) is counted for the first frame, and each answer for the frame after its own while frames are pending; an answer that finds nothing pending is dropped (173) | bus_driver.h:55 "Callback invoked after each frame send attempt." |
| TcpObserver.cfg | MCTcpService | `DeletedObserversDetached` | thread_running is cleared before the observers are detached (tcpclientthread.cc:40), and a sweep for another client deletes the thread's object in between | frameobserver.cc:26 "assert(subject == nullptr);" |
| NodeMgrOrder.cfg | MCNodeMgr | `DevShowsLatest` | two workers run the NODE_INFO and the value of one device in the other order (dev_workers.cc:14), and the value is dropped | doc/API.md:704, get_dev_status returns the current state |
| NodeMgrDouble.cfg | MCNodeMgr | `DevsHearNodes` | the update thread replaces the Node object that main gave the device to (node_mgr.cc:54, 383), and the device hears of that node no more | doc/API.md:765, on_dev_status follows the state; conf/dev.conf:3 "node_ids = {32, 2}" |
| NodeDescReload.cfg | MCNodeDesc | `ReloadTakes` | the update thread, stopped in the loop of load_description (node.cc:81), stores old registers over those of a reload; init returns early ever after (46) | doc/API.md:354, the files are reloaded without a restart |
| NodeDescEarly.cfg | MCNodeDesc | `NodesDescribed` | a node that announces itself before main has loaded the descriptions (h9d.cc:117) keeps the standard registers | doc/API.md:464, all registers of the node with the descriptions of the file |
| NodeDescMix.cfg | MCNodeDesc | `TableIsFile` | two reloads both empty the table, then fill it (node_desc_loader.cc:184) from the file before and after an edit | doc/API.md:354 |
| DaemonReadSigned.cfg | MCDaemon | `ReadBackDocumented` | -1 in an int of 8 bits is read as 255 (node.cc:350) | doc/API.md:490, an int has a sign |
| DaemonRead20.cfg | MCDaemon | `ReadBackDocumented` | a bit field of 20 bits has three bytes where four are expected (node.cc:379), and is never read | doc/API.md:491, a bool has 1 to 48 bits |
| DaemonRead48.cfg | MCDaemon | `ReadAsDocumented` | a bit field of 48 bits is read as an array (node.cc:401) | doc/API.md:559, a bool is read as an integer |
| ClientSegments.cfg | MCClient | `SegmentsUploaded` | the reader skips records of type 02 (h9fwupload.cc:206), data behind one goes to its 16 bit offset, and the upload ends with success | h9fwupload.cc:30 "<Intel HEX file>" |
| ClientRestart.cfg | MCClient | `RestartUploaded` | a node that restarts in the middle of a page is sent the page again with the bytes that come after (firmware_uploader.cc:43), and the upload ends with success | h9fwupload.cc:69 "Uploads a firmware to devices via the H9 bus." |

**Exceptions the properties make.** Each is a behaviour of the code. Where a document promises
otherwise, a run or configuration of its own states the promise without the exception and fails; it
is named here.

* `DevStateIsLatest` leaves out a device that is `disturbed`: two workers ran its tasks at once, so
  the older one may finish last (NodeMgrOrder.cfg), or the Node object it depends on was replaced
  because main and the update thread both created one (NodeMgrDouble.cfg).
* `RegistersLoaded` leaves out a node whose registers were copied before main loaded the
  file (`early`, NodeDescEarly.cfg) and one of which some thread still held a copy when the table or its
  type changed (`torn`, NodeDescReload.cfg). A load of the node by itself ends both. It speaks of the
  table as it is; that this may be a mixture of two files is NodeDescMix.cfg.
* `FrameSurvives` compares of the flags the three bits there are for them on a line. A reply of
  the virtual node leaves its flags unset, so the object may hold more.
* `ReadBackWritten` leaves out what is written in one form and read in another (`Misread`): an
  integral register of 32 bits (daemon_read) or of 17 to 24 bits (DaemonRead20.cfg), and a
  negative number in an int (DaemonReadSigned.cfg). `ReadBackDocumented` is the same property without
  these. Both are about values with a documented outcome (`Documented`): an integer for a float
  register, a float of another size than 32 bits, and raw bytes with more bits than the int they
  stand for have none. More than 32 bits are read as an array, raw bytes, which `Expected` takes as
  it is; that the document says integer is DaemonRead48.cfg. What was written is forgotten when the node
  resets, and when a write is answered with a value of another size.
* `FirmwareIsFile` leaves out a file with extended segment addresses (ClientSegments.cfg) and a node
  that restarted (ClientRestart.cfg). It and `UploadEnds` leave out a node that gave a page up
  (the uploader ignores PAGE_FILL_BREAK), `UploadEnds` also one that restarted; no document of the
  uploader says what it does then.
* `CacheSinceClear` says that a name was reported since the last clear. A bit name that is gone
  from a later answer is still resolved, because `refresh_register` overwrites bits without
  clearing them; no document says how old a cached name may be.

The models contain, with no property about it: the daemon ends on get_node_info of a node it
does not know, and on a call of a device's method before the device has found its node; the
progress bar of h9fwupload divides by the size of an empty image; h9send exits without reading
the daemon's answers, and so may lose its frame, as h9fwupload may its QUIT_BOOTLOADER; a second
subscribe, or a peer that closes while it is sent to, ends the daemon; two threads in one map of
`NodeDesc` may; h9sniffer -e that cannot connect, or whose URI has no host, ends uncaught; a
char register takes no string, which doc/API.md:596 allows; set_register_bit and
clear_register_bit answer an array of bytes, and set_register_value a 32 bit integer as an integer
that get_register_value then gives as a float, where doc/API.md:599 promises one format.

**Bounds.**

* *bus*: two callers and numbers 0..1, so numbers wrap at once and every number can be in use;
  one synchronous and one SLCAN endpoint, the two kinds of acknowledgement; `EventQueueSize` 2
  of 3 sources, so a report can be cut short. *bus_fair*: one caller and two received frames,
  so that forwarding and sending compete.
* *raw_node*: two callers and two numbers: a third request reuses a number while an old answer
  is still under way; `MaxFrames` bounds requests on the wire and frames queued or stored.
* *tcp*: two clients (one can be swept while another ends), two notifications queued, both kinds
  of event, one unread request. `Quiet` separates what listening peers may rely on (tcp) from
  the peers of tcp_stall.
* *node_mgr*: two nodes, three dev sections (an antenna switch and an unknown type behind node
  1, an ATU behind node 2), two workers, as many as can disturb each other, one observer. The bus
  brings one of two scripts of three frames: a node that announces itself and then reports two
  values, and traffic that reaches a device before its node is known.
  NodeMgrOrder.cfg and NodeMgrDouble.cfg have the same instance.
* *node_desc*: two nodes (the loop of a reload has a next one), two types, three contents of the
  file, with a register that only one version has, one that differs, one that is not taken and an
  unreadable file; two clients, two reloads, so that they overlap, two announcements, one edit. The
  three configurations that fail need less, and have less.
* *daemon*: every outcome of every call of main (`MCStarts`), and for the configurations that
  serve a client with the first connection and one request counted in `MaxCalls` 2, out of
  requests to every method with valid, invalid and refused arguments; a virtual node and one
  node behind the first real endpoint, with registers of every type and width; a description
  file that may change or become unreadable; `Garbage` {0, 12}, a zero and a value wider
  than the flags, for memory that is not set. Values are chosen to exceed their width, and int registers are among them.
  *daemon_read*, like DaemonReadSigned.cfg, DaemonRead20.cfg and DaemonRead48.cfg, has one start
  and one register, which is set and read once.
* *client*: one program at a time with every way to find its connection; two states of the
  daemon in which names have other numbers; images with a gap, an extended address, a wrong
  checksum, an address out of order and one beyond the limit; for
  ClientSegments.cfg a line behind a segment address of 16 bytes; pages of 16 bytes, so
  an image needs two transfers per page and can fill the last one partly; three lines typed, two rounds of a loop, at most one fault.

Deadlock is checked where the system cannot stop (bus_fair, raw_node, raw_node_reset,
and the runs of `NodeMgr`, `NodeDesc` and `Daemon`; in the last two the states in which nothing is
asked, or the process has ended, are the action `Idle`). The others contain the end of the daemon or of a program, or peers that
fall silent. Symmetry over callers or clients is used in *bus* and TcpObserver.cfg, which check no
liveness.

**Fairness.** Threads of a running process are scheduled: weak fairness of the bus thread,
callers, server and client threads, and in `NodeMgr` of main, the update thread, each worker,
the notification and the deadline of the timed wait. `Bus` assumes in addition that an adapter
answers each command, that epoll's ready list is served in order, so that no source that keeps
becoming ready is passed over for ever (strong fairness of `Wait` for the eventfd and each SLCAN
socket), and that bytes of a serial line are read in order (strong fairness of `ReadAnswer`).
`RawNode` assumes the liveness of the bus and a timer that expires, never an answer.
`TcpService` assumes that a thread waiting for a mutex which is released again and again gets
it; the counterexample of tcp_listing is a deadlock, not unfairness. `Client` assumes a program
that runs, a daemon that answers while it is up and a node that handles what it received; faults
and other nodes' frames stay free. Callers, peers, users and events are never obliged to act.

## Proofs

All theorems hold for any values of the constants under the ASSUMEs of the modules, which only
give the constants their types, keep identities apart and say that the threads that send are
finitely many. Some theorems have a hypothesis of their own: `AnswerPaired` is about adapters
without an init command, `NumbersInFlight` about a bus with at least one endpoint,
`NotificationsNotStalled` about quiet peers; BusInit.cfg and tcp_stall show that the first
and the last are needed. `DaemonTyped`, `FramesSurvive` and `NodeFound` assume `FitRequests`: a frame that a
client gives to send_frame fits on a line. Nothing in the daemon looks (`H9Frame::is_valid`
returns true), and can_id() cuts a field that is too wide. It holds of the requests of
`MCDaemon`, where TLC evaluates it. `RegistersReadBack` also assumes `OwnRequests`, which holds of
them too: the frames that clients give to send_frame are not for the node that is read, and a raw
one does not say it is from it. A client that writes past the API, or answers in place of the node,
is not what the property is about.

Bus:

* `Bus_proof!TypeCorrect`: TypeOK is not inductive, because `ReadAnswer` takes the head of a
  queue when a counter is positive. `TypeInv` adds `PendingOK` (an SLCAN driver's counter is the
  length of its endpoint's queue, other endpoints have nothing pending) and `CurOK` (what the
  thread holds in each phase).
* `Bus_proof!WakeupSafe`: NoLostWakeup is inductive relative to `TypeInv`. The caller that finds
  the queue empty is at its trigger until the edge exists, and the drain loop ends only with an
  empty queue.
* `Bus_proof!ForwardWakeupSafe`: needs `DrainOK`. The drain loop looks at forward_queue first and
  at send_queue later, so leaving it is safe only because a round that popped nothing found
  both empty.
* `Bus_proof!PromiseSetOnce`: `AckInv` says that the counters of a frame count the endpoints
  that acknowledged it (`CountOK`), that an endpoint holds a frame once and only until it
  acknowledges it (`HoldOK`), that the frame in the thread's hand has not reached the endpoints
  still to come (`CursorOK`), and that a queued frame, and the frame of a call that has returned,
  is known to no endpoint.
* `Bus_proof!AnswerPaired`: an SLCAN endpoint's pending frames are the answers not yet read
  followed by what the adapter has still to carry out (`LineOK`).
* `Bus_proof!BusImplementsSendService`: the initial states and every action, mapped; the
  status of a call follows from `AckInv`.
* `Bus_proof!NumbersInFlight`: `OrderInv` says that all endpoints acknowledge in one order, so
  the frames open at the same time are ordered; `NumbersOK` that the number of an open frame,
  counted on over the numbered frames sent after it, leads to next_seqnum. Fewer open frames than
  numbers then differ by less than a whole turn.

RawNode:

* `RawNode_proof!PromisesSafe`: `CallInv` adds that a promise is allocated exactly while its call
  runs, and that a call which does not know its number has not been answered.
* `RawNode_proof!TypeCorrect`: TypeOK is inductive with the facts of `SendService` about its queue.
* `RawNode_proof!AnswersNotMissed`: `AnswerInv` follows a frame from the node to the call: a frame
  that carries a call carries its number (`FramesOK`), and an answer that a register call was
  shown is stored for it until it knows its number, and is its value afterwards (`AnsweredOK`).
* `RawNode_proof!AnswersOwn`: while no number was reused, every frame under way whose number is a
  live call's is that call's own (`OwnOK`).

TcpService:

* `TcpService_proof!DrainAssertionHolds`: `EdgeInv` adds that a client whose thread drains has no
  edge pending. An edge belongs to one filling of the queue.
* `TcpService_proof!TypeCorrect`: `ListOK` adds that a connection waits to be accepted or is in the
  list, not both, so that no client is listed twice.
* `TcpService_proof!NotificationsNotStalled`: `ClientOK` says that a queue which is not empty has
  its edge pending, is being emptied or belongs to a closing client. A quiet peer sends nothing
  after its subscription but its end, so a wait that takes the edge with the socket's event ends
  the thread.

NodeMgr:

* `NodeMgr_proof!TypeCorrect`: `TypeInv` is TypeOK split by threads, with what each relies on
  where it is: the update thread has a frame in hand, a batch that is not empty, a Node object
  that exists (`CreatedOK`); a worker that runs has a task. One lemma per action, and one per
  group saying that it survives a step that leaves its variables alone.
* `NodeMgr_proof!WakeupSafe`: NoSleepOnFrames is inductive relative to `TypeInv`: the thread goes
  to sleep with the queue empty, and a push onto an empty queue leaves the bus thread at its
  notification.
* `NodeMgr_proof!SemaphoreSafe`: the semaphore and the workers that acquired and have not taken
  count the tasks queued, less the one pushed and not yet released. A worker's step changes the
  set of the workers that are taking by one element, which the cardinality theorems turn into
  arithmetic.
* `NodeMgr_proof!ObserversSafe`: `ObserverInv` says that a worker which is delivering delivers to
  observers that are attached; detaching waits for the mutex it holds.
* `NodeMgr_proof!DevicesLatest`: the history `expected` applies a frame when it is dispatched,
  the device when a worker comes to its task. `ChainInv` says that there is a chain of states of
  the device, one per task in the queue, which leads from what the device is, or will be when the
  worker at it is done, to what is expected of it. A device that is not disturbed has one worker
  at most, so the chain loses its first element when the task is run and gains one at the end when
  a task is pushed. `KnownInv` says that tasks and devices are about nodes the device depends on,
  `ToldInv` what the observers were told.

Descriptions:

* `NodeDesc_proof!TypeCorrect` and `NodeDesc_proof!LoadedRegisters`: `LoadInv`. The registers of a
  node that no thread has still to copy are the standard ones and a part of its description, and
  whatever is missing is about to be stored by a thread that holds all of it (`KeptOK`); what any
  thread is still to store in a node that is not torn belongs to the description the node has now
  (`StoresOK`), so no store takes anything away; `InitOK` says that a node is initialised exactly if
  it was told a type, and that before main has loaded the file it is early. One lemma per action.

Frames and the daemon:

* `H9Frame_proof!FramesCarried`: the fields of an identifier, and of the third and fourth
  serialised byte, do not overlap (`UnicastId`, `BroadcastId`, `UnicastBytes`), for all 2^29
  identifiers; so can_id(id) after can_id(), and deserialize() after serialize(), give back the
  fields of the kind of frame, and leave the others as the object had them. The bytes after dlc
  may differ. It holds of frames that fit (`FitFrames`): can_id() cuts a type, a number or a dlc
  that is too large.
* `Daemon_proof!StartOrderHolds`: `PidInv` says, by main's position, what is done and what is not
  (endpoints and threads, the fork, the pid file, the privileges); every step after the start
  leaves all this alone or ends the daemon (`Served`).
* `Daemon_proof!BusConfigured`: `SectionInv` says that configure_bus, after a number of sections,
  has the endpoints of those it did not skip.
* `Daemon_proof!DaemonTyped` and `Daemon_proof!FramesSurvive`: `DaemonInv` says that every frame
  on a line fits, as sent and as read, and that the two mean the same (`Items`); a line has frames
  only once its endpoint is open, and an open endpoint has a driver that carries frames
  (`LinesOK`, `EndpointsOK`). For a frame to fit, whatever made it must have been in order:
  registers of the nodes keep their sizes (`Contents`, `VNodes`), descriptions and the registers
  of known nodes have a type and a size (`TableOK`, `NodesOK`), and each conversion of a value,
  each constructor and each reply yields at most eight bytes (the lemmas before `StartOK`). Then one lemma
  per kind of step; `FramesCarried` does the rest.
* `Daemon_proof!NodeFound`: NodeKnownAfterDiscover of a daemon without a virtual endpoint.
  `DiscoverInv` says that nothing is on the bus before DISCOVER, and that from then on the node is
  known, or the request is on its way down the line, or an announcement on its way up; and that
  what comes up the line says it is of the real node, with its type. With a virtual endpoint it
  need not hold: a client can set register 4 of the virtual node to the id of the real one, and the
  two then share an entry in `nodes`. No start of `MCDaemon` has both.
* `Daemon_proof!RegistersReadBack`: ReadBackWritten of a daemon without a virtual endpoint, for any
  descriptions, values and number of requests. The property is about two answers, a write's and a
  read's; `ReadInv` says what is true between them. Nobody asks: no frame on the bus is for the
  node or an answer of it, and each register of the node reads, by its description, as what was
  written last (`Resting`, `Keeps`). One request waits: either exactly one frame on the line to
  the node is for it, and it is that request's, with its number, register and bytes (`Asking`,
  `Asked`); or exactly one frame on the line from it is an answer, and it is one that the request
  takes, about the register as it now is (`Answering`, `Told`), while everything else that was
  written is kept. That the loop endpoint's echo is not taken for the node is `OffBus`. What the
  documents promise of a register (`Promised`) is met by every value that is `Documented` and not
  `Misread`. What the
  bytes mean is `WrittenIsRead`: the bytes that set_register makes of a value (`SetBytes`), put into
  a register and told in an answer, are read by get_register (`ReadAs`) as that value cut to its
  width, in each pair of a type and a form; `NumberBack` is its arithmetic, for one, two and four
  bytes. Then the lemmas follow a request around: `CallFrame` (the method's frame), `BusGets`
  (its line), `AskedTold` (the node's reaction), `AnswerTaken` (what the waiting request makes of
  it) and one lemma per kind of step, up to `ReadStep`.

The client programs (`Client_proof`), for any command lines, files, lines typed, states of the
daemon, frames of other nodes and faults:

* `StreamSafe`: `TcpInv` is a statement about bytes. `Offset` says in closed form where
  message k begins in the stream, because all headers, and the texts of every other message, have
  one length; `Byte` says what the message has there. `StreamInv` is then: the stream holds the
  bytes of the messages sent from the one after the last byte read, and `BufferInv`: the two
  buffers hold the bytes read of the message that is being received.
* `CallsPaired`: `CallInv` says, while a call waits, that its request is the only one with the
  daemon, or its answer the only message not taken, or just returned, or that the connection is
  gone (`Pending`); wherever a program goes on to a call, nothing is under way (`Quiet`). Programs
  that receive frames do not call any more.
* `AnswersSafe`: AnswersTaken follows from the two.
* `CacheSafe`: CacheSinceClear, taken apart by kind of name (`NodesSince`, `NumbersSince`,
  `BitsSince`), is inductive together with the shape of the maps and `CallInv`: a refresh puts an
  answer in under the node that it asked about, and the answer is about that node because it is
  the answer to that request.
* `ImageIsFile`: what read_ihex makes of a file, for every file in order of addresses without
  segment addresses. `ByteOf`, the byte that a file gives to an address, knows records of type 02
  and 04 as the format has them, and the reader only the latter: the exception is a hypothesis of
  the theorem, and ClientSegments.cfg shows that it is needed. The reader
  is a function of the number of lines read, so the induction goes over a set of numbers
  (`SetInduction`, from the induction on the well-founded order of the naturals) and needs
  no theorem that takes an operator. `ReadOK` says after n lines: the image has the bytes of the
  lines of the program read so far, at their addresses, and no others, and is no longer than
  where the next of these lines begins.
* `UploadSafe`: h9fwupload and the bootloader take turns, so one frame is under way between them
  (`Transfer`): to the node, in a request to the daemon or on the bus (`ToNode`), or to the program, with
  the driver, in the stream of the daemon or just returned (`FromNode`). `Sends` and `Replied`
  say for each kind of frame how far the two are: pages before uploader.page are in the flash,
  each with its bytes of the image (`Pages`), and the node's buffer has the bytes of the current page up to
  fw_idx (`Filled`). The number of the page, 16 bits in the code, does not wrap, because an image
  is shorter than 192 kB.

Assumptions of these: `WorldsAssumption` (there is a state of the daemon, and names of bits are
strings), `LinesAssumption` (a line typed has the fields of a command, none of which is subscribe),
`StartsAssumption` (a file has lines with bytes and addresses of their width; an extended address
has two bytes), `NoiseAssumption` (the frames of a bootloader come from the node that is
uploaded, not from another with its id), `PageAssumption` (a page is some multiple of the
eight bytes of a transfer).

Only model-checked:

* the liveness properties: the prover does not handle fairness and ENABLED;
* `Daemon`, with a virtual endpoint: NodeKnownAfterDiscover and ReadBackWritten.

## Not modelled

* The interval between the constructor of FrameObserver, which attaches NodeMgr to the bus, and the
  rest of NodeMgr's construction (node_mgr.cc:112-114): a frame that the bus thread delivers in
  between calls an object that is not complete. `CreateNodeMgr` is one step.
* The sizes of the buffers for strings (node.cc:264, 276, 407, 419): an answer longer than the
  register's description says is not cut here.
* Logging, metrics, counters that nothing reads, the texts of answers and the layout of what the
  programs print; the grammar of h9cli (a line is the tokens it parses to).
* The end of the daemon's threads (it runs until it is killed), del_dev and firmware_update, which
  nothing calls.
* A serial line that loses answers: the caller of send_frame then blocks for ever.
* Frames that another master on the bus provokes; `H9FrameComparator` does not compare the
  destination, so their answers could match.
* `Kqueue`, the macOS counterpart of Epoll, and the socket calls of the drivers: pure I/O. The
  dummy driver is not built.
* libconfuse, cxxopts, jsonrpcpp, nlohmann::json and Python: libraries, taken at what the code
  relies on.

## Plan

Proofs: ReadBackWritten and NodeKnownAfterDiscover of a daemon with a virtual endpoint as long as
the virtual node keeps an id of its own.

Properties: an ended client leaves the server's list, which needs an end of all connections.

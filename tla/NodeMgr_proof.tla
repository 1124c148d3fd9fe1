---------------------------- MODULE NodeMgr_proof ----------------------------
(***************************************************************************)
(* Proofs about NodeMgr, for any nodes, sections, workers and observers:   *)
(* type correctness, the semaphore of DevWorkers, the condition variable   *)
(* of the frame queue and the observers of clients; and, from the second   *)
(* half on, that a device and the last notification about it show what the *)
(* frames of its node said last.  Three invariants lead to that: a device  *)
(* acts on NODE_INFO and on register values only with the node's           *)
(* description in place; an undisturbed device is run by one worker; and   *)
(* the device, brought forward by the task in hand and the tasks queued,   *)
(* is the device the history expects.                                      *)
(***************************************************************************)
EXTENDS NodeMgr, FiniteSetTheorems, SequenceTheorems, TLAPS

\* A task as TypeOK has it.
Tasks == [dev : Devs, no : 0..Len(received)]

-----------------------------------------------------------------------------
(* The inductive invariant: TypeOK by threads, and what each thread relies   *)
(* on where it is (a frame in hand, a batch that is not empty, a Node object *)
(* that exists, a task that was taken).                                      *)

BusOK ==
  /\ received \in Seq(Frames)
  /\ bpc \in {"idle", "notify"}
  /\ frame_queue \in Seq(1..Len(received))

UpdateOK ==
  /\ due \in BOOLEAN
  /\ upc \in {"wait", "asleep", "check", "create", "init", "dispatch", "push", "release"}
  /\ frame \in 0..Len(received)
  /\ batch \in Seq(Tasks)
  /\ locked \subseteq Objects
  /\ upc \in {"check", "create", "init", "dispatch"} => frame # 0
  /\ upc \in {"push", "release"} => batch # <<>>

NodeOK ==
  /\ nodes \in [Nodes -> Creators \cup {Null}]
  /\ node_type \in [Objects -> {"antenna_switch", "other", Null}]
  /\ dependent_devices \in [Objects -> Seq(Devs)]

MainOK ==
  /\ mpc \in {"open", "load", "check", "create", "depend", "serving"}
  /\ adding \in {0} \cup Devs
  /\ ids \in Seq(Nodes)
  /\ devs_map \subseteq Devs
  /\ mpc \in {"check", "create", "depend"} => ids # <<>> /\ adding \in Devs

CreatedOK ==
  /\ upc \in {"init", "dispatch"} => nodes[received[frame].src] # Null
  /\ mpc = "depend" => nodes[Head(ids)] # Null

QueueOK == task_queue \in Seq(Tasks) /\ sema \in Nat

WorkOK ==
  /\ wpc \in [Workers -> {"idle", "take", "run", "set", "read", "emit", "deliver"}]
  /\ task \in [Workers -> [dev : Devs \cup {0}, no : 0..Len(received)]]
  /\ state \in [Workers -> Values]
  /\ \A w \in Workers : Running(w) => task[w].dev \in Devs
  /\ \A w \in Workers : wpc[w] = "set" => task[w].no # 0

DevOK ==
  /\ node_id \in [Devs -> Nodes \cup {NoNode}]
  /\ selected \in [Devs -> Values]
  /\ disturbed \subseteq Devs

ObsOK ==
  /\ obs \in [Observers -> {"none", "attached", "deleted"}]
  /\ emitting \in [Workers -> SUBSET Observers]
  /\ notified \in [Observers -> [Devs -> SUBSET Values]]

TypeInv ==
  BusOK /\ UpdateOK /\ NodeOK /\ MainOK /\ CreatedOK /\ QueueOK /\ WorkOK /\ DevOK /\ ObsOK

LEMMA TypeInvImpliesTypeOK == TypeInv => TypeOK
  BY DEF TypeInv, BusOK, UpdateOK, NodeOK, MainOK, QueueOK, WorkOK, DevOK, ObsOK, Tasks, TypeOK

-----------------------------------------------------------------------------
(* A part whose variables stay the same holds after a step.                  *)

LEMMA BusSame == ASSUME BusOK, UNCHANGED busVars PROVE BusOK'
  BY DEF BusOK, busVars

LEMMA UpdateSame == ASSUME UpdateOK, UNCHANGED <<received, updateVars>> PROVE UpdateOK'
  BY DEF UpdateOK, updateVars, Tasks

LEMMA NodeSame == ASSUME NodeOK, UNCHANGED nodeVars PROVE NodeOK'
  BY DEF NodeOK, nodeVars

LEMMA MainSame == ASSUME MainOK, UNCHANGED mainVars PROVE MainOK'
  BY DEF MainOK, mainVars

LEMMA CreatedSame ==
  ASSUME CreatedOK, UNCHANGED <<upc, nodes, received, frame, mpc, ids>> PROVE CreatedOK'
  BY DEF CreatedOK

LEMMA QueueSame == ASSUME QueueOK, UNCHANGED <<received, queueVars>> PROVE QueueOK'
  BY DEF QueueOK, queueVars, Tasks

LEMMA WorkSame == ASSUME WorkOK, UNCHANGED <<received, workVars>> PROVE WorkOK'
  BY DEF WorkOK, workVars, Running

LEMMA DevSame == ASSUME DevOK, UNCHANGED <<devVars, disturbed>> PROVE DevOK'
  BY DEF DevOK, devVars

LEMMA ObsSame == ASSUME ObsOK, UNCHANGED obsVars PROVE ObsOK'
  BY DEF ObsOK, obsVars

-----------------------------------------------------------------------------
(* Helpers. *)

\* The fields of a frame that was received.
LEMMA FrameFields ==
  ASSUME BusOK, NEW f \in 1..Len(received)
  PROVE  received[f].src \in Nodes /\ received[f].value \in Values
<1>1. received[f] \in Frames BY ElementOfSeq DEF BusOK
<1> QED BY <1>1 DEF Frames

\* DevLoader hands out each device of devs_map.
LEMMA ListingIsOfSet ==
  ASSUME NEW S, IsFiniteSet(S)
  PROVE  Cardinality(S) \in Nat /\ Listing(S) \in [1..Cardinality(S) -> S]
<1>1. Cardinality(S) \in Nat /\ ExistsBijection(1..Cardinality(S), S) BY FS_CardinalityType
<1>2. PICK b \in Bijection(1..Cardinality(S), S) : TRUE BY <1>1 DEF ExistsBijection
<1>3. b \in [1..Cardinality(S) -> S] /\ \A i, j \in DOMAIN b : b[i] = b[j] => i = j
  BY <1>2 DEF Bijection, Injection, Surjection, IsInjective
<1> QED BY <1>1, <1>3 DEF Listing

LEMMA InitType == Init => TypeInv
<1> SUFFICES ASSUME Init PROVE TypeInv OBVIOUS
<1> USE NodeMgrAssumption DEF Init
<1>1. BusOK BY DEF BusOK
<1>2. UpdateOK
  <2>1. frame \in 0..Len(received) BY DEF NoFrame
  <2>2. batch \in Seq(Tasks) BY EmptySeq
  <2>3. due \in BOOLEAN BY Zenon
  <2> QED BY <2>1, <2>2, <2>3 DEF UpdateOK
<1>3. NodeOK BY DEF NodeOK
<1>4. MainOK BY DEF MainOK
<1>5. CreatedOK BY DEF CreatedOK
<1>6. QueueOK BY DEF QueueOK
<1>7. WorkOK
  <2>1. NoTask \in [dev : Devs \cup {0}, no : 0..Len(received)] BY DEF NoTask, NoFrame
  <2> QED BY <2>1 DEF WorkOK, Running
<1>8. DevOK BY DEF DevOK
<1>9. ObsOK BY DEF ObsOK
<1> QED BY <1>1, <1>2, <1>3, <1>4, <1>5, <1>6, <1>7, <1>8, <1>9 DEF TypeInv

-----------------------------------------------------------------------------
(* The bus thread, and time.                                                 *)

LEMMA OnFrameRecvType ==
  ASSUME TypeInv, NEW f \in Frames, OnFrameRecv(f) PROVE TypeInv'
<1> DEFINE n == Len(received)
<1>0. /\ received \in Seq(Frames) /\ n \in Nat
      /\ received' = Append(received, f) /\ Len(received') = n + 1
      /\ \A i \in 1..n : received'[i] = received[i]
  BY LenProperties DEF TypeInv, BusOK, OnFrameRecv
<1>1. BusOK'
  <2>1. frame_queue \in Seq(1..(n + 1))
    BY <1>0, SeqMonotonic, 1..n \subseteq 1..(n + 1) DEF TypeInv, BusOK
  <2> QED BY <1>0, <2>1 DEF BusOK, OnFrameRecv
<1>2. Tasks \subseteq Tasks'
  BY <1>0 DEF Tasks
<1>3. UpdateOK'
  <2>1. batch' \in Seq(Tasks') BY <1>2, SeqMonotonic DEF TypeInv, UpdateOK, OnFrameRecv, updateVars
  <2> QED BY <1>0, <2>1 DEF TypeInv, UpdateOK, OnFrameRecv, updateVars
<1>4. QueueOK'
  BY <1>2, SeqMonotonic DEF TypeInv, QueueOK, OnFrameRecv, queueVars
<1>5. CreatedOK'
  BY <1>0 DEF TypeInv, CreatedOK, UpdateOK, OnFrameRecv, updateVars, mainVars, nodeVars
<1>6. WorkOK'
  <2>1. [dev : Devs \cup {0}, no : 0..n] \subseteq [dev : Devs \cup {0}, no : 0..n + 1]
    BY <1>0
  <2> QED BY <1>0, <2>1 DEF TypeInv, WorkOK, Running, OnFrameRecv, workVars
<1> QED
  BY <1>1, <1>3, <1>4, <1>5, <1>6, NodeSame, MainSame, DevSame, ObsSame DEF TypeInv, OnFrameRecv

LEMMA NotifyOneType == ASSUME TypeInv, NotifyOne PROVE TypeInv'
<1>1. BusOK' BY DEF TypeInv, BusOK, NotifyOne
<1>2. UpdateOK' BY DEF TypeInv, UpdateOK, NotifyOne, Tasks
<1>3. CreatedOK' BY DEF TypeInv, CreatedOK, NotifyOne, mainVars, nodeVars
<1> QED BY <1>1, <1>2, <1>3, NodeSame, MainSame, QueueSame, WorkSame, DevSame, ObsSame
        DEF TypeInv, NotifyOne

LEMMA DeadlineType == ASSUME TypeInv, Deadline PROVE TypeInv'
<1>1. UpdateOK' BY DEF TypeInv, UpdateOK, Deadline, Tasks, busVars
<1> QED BY <1>1, BusSame, NodeSame, MainSame, CreatedSame, QueueSame, WorkSame, DevSame, ObsSame
        DEF TypeInv, Deadline, busVars, mainVars, nodeVars

-----------------------------------------------------------------------------
(* The update thread.                                                        *)

\* front and pop of the frame queue.
LEMMA PopType ==
  ASSUME TypeInv, Pop, frame_queue # <<>>, UNCHANGED <<received, bpc, batch, locked>>,
         due' \in BOOLEAN, UNCHANGED <<nodes, mpc, ids>>
  PROVE  BusOK' /\ UpdateOK' /\ CreatedOK'
<1>1. Head(frame_queue) \in 1..Len(received) /\ Tail(frame_queue) \in Seq(1..Len(received))
  BY HeadTailProperties DEF TypeInv, BusOK
<1>2. Len(received) \in Nat BY LenProperties DEF TypeInv, BusOK
<1>3. BusOK' BY <1>1 DEF TypeInv, BusOK, Pop
<1>4. UpdateOK' BY <1>1, <1>2 DEF TypeInv, UpdateOK, Pop, Tasks
<1>5. CreatedOK' BY DEF TypeInv, CreatedOK, Pop
<1> QED BY <1>3, <1>4, <1>5

LEMMA WaitUntilType == ASSUME TypeInv, WaitUntil PROVE TypeInv'
<1>1. BusOK' /\ UpdateOK' /\ CreatedOK'
  <2>1. CASE frame_queue # <<>>
    BY <2>1, PopType DEF WaitUntil, TypeInv, UpdateOK, nodeVars, mainVars
  <2>2. CASE frame_queue = <<>>
    BY <2>2 DEF WaitUntil, TypeInv, BusOK, UpdateOK, CreatedOK, Tasks, nodeVars, mainVars
  <2> QED BY <2>1, <2>2
<1> QED BY <1>1, NodeSame, MainSame, QueueSame, WorkSame, DevSame, ObsSame
        DEF TypeInv, WaitUntil

LEMMA TimedOutType == ASSUME TypeInv, TimedOut PROVE TypeInv'
<1>1. BusOK' /\ UpdateOK' /\ CreatedOK'
  <2>1. CASE frame_queue # <<>>
    BY <2>1, PopType DEF TimedOut, TypeInv, UpdateOK, nodeVars, mainVars
  <2>2. CASE frame_queue = <<>>
    <3> DEFINE k == Cardinality(devs_map)
    <3>1. IsFiniteSet(devs_map)
      <4>1. IsFiniteSet(Devs) BY NodeMgrAssumption, FS_Interval DEF Devs
      <4> QED BY <4>1, FS_Subset DEF TypeInv, MainOK
    <3>2. k \in Nat /\ Listing(devs_map) \in [1..k -> Devs]
      BY <3>1, ListingIsOfSet DEF TypeInv, MainOK
    <3>3. devs_map # {} => k # 0 BY <3>1, FS_EmptySet
    <3>4. batch' \in [1..k -> Tasks] 
      BY <2>2, <3>2, LenProperties DEF TimedOut, Periodic, NoFrame, Tasks, TypeInv, BusOK
    <3>5. batch' \in Seq(Tasks) /\ (devs_map # {} => batch' # <<>>)
      BY <3>2, <3>3, <3>4
    <3>6. BusOK' BY <2>2 DEF TimedOut, TypeInv, BusOK
    <3>7. Len(received) \in Nat /\ Tasks' = Tasks
      BY LenProperties DEF TimedOut, TypeInv, BusOK, Tasks
    <3>8. UpdateOK'
      <4>1. due' \in BOOLEAN BY <2>2, Zenon DEF TimedOut
      <4>2. /\ upc' = (IF devs_map = {} THEN "wait" ELSE "push") /\ frame' = 0
            /\ locked' = locked /\ received' = received
        BY <2>2 DEF TimedOut, NoFrame
      <4> QED BY <3>5, <3>7, <4>1, <4>2 DEF TypeInv, UpdateOK
    <3>9. CreatedOK' BY <2>2 DEF TimedOut, TypeInv, CreatedOK, nodeVars, mainVars
    <3> QED BY <3>6, <3>8, <3>9
  <2> QED BY <2>1, <2>2
<1> QED BY <1>1, NodeSame, MainSame, QueueSame, WorkSame, DevSame, ObsSame
        DEF TypeInv, TimedOut

LEMMA CheckNodeType == ASSUME TypeInv, CheckNode PROVE TypeInv'
<1>1. UpdateOK' BY DEF TypeInv, UpdateOK, CheckNode, Tasks, busVars
<1>2. CreatedOK' BY DEF TypeInv, CreatedOK, CheckNode, Source, busVars, nodeVars, mainVars
<1> QED BY <1>1, <1>2, BusSame, NodeSame, MainSame, QueueSame, WorkSame, DevSame, ObsSame
        DEF TypeInv, CheckNode, busVars

\* nodes[n] = create_node(n) in either thread.
LEMMA CreateType ==
  ASSUME TypeInv, NEW n \in Nodes, NEW t \in Creators, Create(n, t), UNCHANGED devVars
  PROVE  /\ NodeOK' /\ DevOK' /\ nodes'[n] # Null
         /\ \A m \in Nodes : nodes[m] # Null => nodes'[m] # Null
<1>1. DependentOn(n) \subseteq Devs BY DEF DependentOn
<1>2. t # Null BY DEF Creators, Null
<1> QED BY <1>1, <1>2 DEF TypeInv, NodeOK, DevOK, Create, devVars

LEMMA CreateNodeType == ASSUME TypeInv, CreateNode PROVE TypeInv'
<1>0. frame \in 1..Len(received)
  BY LenProperties DEF TypeInv, UpdateOK, BusOK, CreateNode
<1>1. Source \in Nodes BY <1>0, FrameFields DEF TypeInv, Source
<1>2. /\ NodeOK' /\ DevOK' /\ nodes'[Source] # Null
      /\ \A m \in Nodes : nodes[m] # Null => nodes'[m] # Null
  BY <1>1, CreateType DEF CreateNode, Creators
<1>3. UpdateOK' BY DEF TypeInv, UpdateOK, CreateNode, Tasks, busVars
<1>4. mpc = "depend" => Head(ids) \in Nodes
  BY HeadTailProperties DEF TypeInv, MainOK
<1>5. CreatedOK'
  BY <1>2, <1>4 DEF TypeInv, CreatedOK, CreateNode, Source, busVars, mainVars
<1> QED BY <1>2, <1>3, <1>5, BusSame, MainSame, QueueSame, WorkSame, ObsSame
        DEF TypeInv, CreateNode, busVars

\* The Node object of the frame's source.
LEMMA SourceObject ==
  ASSUME TypeInv, upc \in {"init", "dispatch"}
  PROVE  Source \in Nodes /\ <<Source, nodes[Source]>> \in Objects
<1>0. frame \in 1..Len(received)
  BY LenProperties DEF TypeInv, UpdateOK, BusOK
<1>1. Source \in Nodes BY <1>0, FrameFields DEF TypeInv, Source
<1>2. nodes[Source] \in Creators BY <1>1 DEF TypeInv, CreatedOK, NodeOK, Source
<1> QED BY <1>1, <1>2 DEF Objects

LEMMA InitNodeType == ASSUME TypeInv, InitNode PROVE TypeInv'
<1>1. Source \in Nodes BY SourceObject DEF InitNode
<1>2. NodeOK' BY <1>1, NodeMgrAssumption DEF TypeInv, NodeOK, InitNode
<1>3. UpdateOK' BY DEF TypeInv, UpdateOK, InitNode, Tasks, busVars
<1>4. CreatedOK' BY DEF TypeInv, CreatedOK, InitNode, busVars, mainVars
<1> QED BY <1>2, <1>3, <1>4, BusSame, MainSame, QueueSame, WorkSame, DevSame, ObsSame
        DEF TypeInv, InitNode, busVars

LEMMA DispatchType == ASSUME TypeInv, Dispatch PROVE TypeInv'
<1> DEFINE devs == dependent_devices[<<Source, nodes[Source]>>]
<1>1. <<Source, nodes[Source]>> \in Objects BY SourceObject DEF Dispatch
<1>2. devs \in Seq(Devs) BY <1>1 DEF TypeInv, NodeOK
<1>3. Len(devs) \in Nat /\ devs \in [1..Len(devs) -> Devs] /\ DOMAIN devs = 1..Len(devs)
  BY <1>2, LenProperties
<1>4. batch' = [i \in DOMAIN devs |-> Update(devs[i], frame)] BY DEF Dispatch
<1>5. batch' \in [1..Len(devs) -> Tasks]
  BY <1>3, <1>4 DEF Update, Tasks, TypeInv, UpdateOK
<1>6. batch' \in Seq(Tasks) /\ (devs # <<>> => batch' # <<>>)
  <2>1. devs # <<>> => Len(devs) # 0 BY <1>2, EmptySeq
  <2> HIDE DEF devs
  <2> QED BY <1>3, <1>5, <2>1
<1>7. Tasks' = Tasks BY DEF Tasks, Dispatch, busVars
<1>8. UpdateOK' BY <1>1, <1>6, <1>7 DEF TypeInv, UpdateOK, Dispatch, busVars
<1>9. CreatedOK' BY DEF TypeInv, CreatedOK, Dispatch, busVars, mainVars, nodeVars
<1> QED BY <1>8, <1>9, BusSame, NodeSame, MainSame, QueueSame, WorkSame, DevSame, ObsSame
        DEF TypeInv, Dispatch, busVars

LEMMA PushType == ASSUME TypeInv, Push PROVE TypeInv'
<1>1. Head(batch) \in Tasks BY HeadTailProperties DEF TypeInv, UpdateOK, Push
<1>2. Tasks' = Tasks BY DEF Tasks, Push, busVars
<1>3. QueueOK' BY <1>1, <1>2 DEF TypeInv, QueueOK, Push
<1>4. UpdateOK' BY <1>2 DEF TypeInv, UpdateOK, Push, busVars
<1>5. CreatedOK' BY DEF TypeInv, CreatedOK, Push, busVars, mainVars, nodeVars
<1> QED BY <1>3, <1>4, <1>5, BusSame, NodeSame, MainSame, WorkSame, DevSame, ObsSame
        DEF TypeInv, Push, busVars

LEMMA ReleaseType == ASSUME TypeInv, Release PROVE TypeInv'
<1>1. Tail(batch) \in Seq(Tasks) BY HeadTailProperties DEF TypeInv, UpdateOK, Release
<1>2. Tasks' = Tasks BY DEF Tasks, Release, busVars
<1>3. QueueOK' BY <1>2 DEF TypeInv, QueueOK, Release
<1>4. UpdateOK' BY <1>1, <1>2 DEF TypeInv, UpdateOK, Release, busVars
<1>5. CreatedOK' BY DEF TypeInv, CreatedOK, Release, busVars, mainVars, nodeVars
<1> QED BY <1>3, <1>4, <1>5, BusSame, NodeSame, MainSame, WorkSame, DevSame, ObsSame
        DEF TypeInv, Release, busVars

LEMMA UpdateThreadType == ASSUME TypeInv, UpdateThread PROVE TypeInv'
  BY WaitUntilType, TimedOutType, CheckNodeType, CreateNodeType, InitNodeType, DispatchType,
     PushType, ReleaseType DEF UpdateThread

-----------------------------------------------------------------------------
(* The main thread.                                                          *)

LEMMA LoadFileType == ASSUME TypeInv, LoadFile PROVE TypeInv'
<1>1. MainOK' BY DEF TypeInv, MainOK, LoadFile
<1>2. CreatedOK' BY DEF TypeInv, CreatedOK, LoadFile, busVars, updateVars, nodeVars
<1> QED BY <1>1, <1>2, BusSame, UpdateSame, NodeSame, QueueSame, WorkSame, DevSame, ObsSame
        DEF TypeInv, LoadFile, busVars

LEMMA AddDevType == ASSUME TypeInv, AddDev PROVE TypeInv'
<1>1. DevNodes[adding + 1] \in Seq(Nodes) BY NodeMgrAssumption DEF AddDev
<1>2. MainOK'
  <2>1. CASE DevType[adding + 1] = "unknown"
    BY <2>1 DEF TypeInv, MainOK, AddDev
  <2>2. CASE DevType[adding + 1] # "unknown"
    BY <1>1, <2>2 DEF TypeInv, MainOK, AddDev
  <2> QED BY <2>1, <2>2
<1>3. CreatedOK' BY DEF TypeInv, CreatedOK, AddDev, busVars, updateVars, nodeVars
<1> QED BY <1>2, <1>3, BusSame, UpdateSame, NodeSame, QueueSame, WorkSame, DevSame, ObsSame
        DEF TypeInv, AddDev, busVars

LEMMA CheckDependencyType == ASSUME TypeInv, CheckDependency PROVE TypeInv'
<1>1. MainOK' BY DEF TypeInv, MainOK, CheckDependency
<1>2. CreatedOK' BY DEF TypeInv, CreatedOK, CheckDependency, busVars, updateVars, nodeVars
<1> QED BY <1>1, <1>2, BusSame, UpdateSame, NodeSame, QueueSame, WorkSame, DevSame, ObsSame
        DEF TypeInv, CheckDependency, busVars

LEMMA CreateDependencyType == ASSUME TypeInv, CreateDependency PROVE TypeInv'
<1>1. Head(ids) \in Nodes BY HeadTailProperties DEF TypeInv, MainOK, CreateDependency
<1>2. /\ NodeOK' /\ DevOK' /\ nodes'[Head(ids)] # Null
      /\ \A m \in Nodes : nodes[m] # Null => nodes'[m] # Null
  BY <1>1, CreateType DEF CreateDependency, Creators
<1>3. MainOK' BY DEF TypeInv, MainOK, CreateDependency
<1>4. upc \in {"init", "dispatch"} => Source \in Nodes BY SourceObject
<1>5. CreatedOK'
  BY <1>2, <1>4 DEF TypeInv, CreatedOK, CreateDependency, Source, busVars, updateVars
<1> QED BY <1>2, <1>3, <1>5, BusSame, UpdateSame, QueueSame, WorkSame, ObsSame
        DEF TypeInv, CreateDependency, busVars

LEMMA AddDependentType == ASSUME TypeInv, AddDependent PROVE TypeInv'
<1> DEFINE o == <<Head(ids), nodes[Head(ids)]>>
<1>1. Head(ids) \in Nodes /\ Tail(ids) \in Seq(Nodes)
  BY HeadTailProperties DEF TypeInv, MainOK, AddDependent
<1>2. adding \in Devs BY DEF TypeInv, MainOK, AddDependent
<1>3. NodeOK'
  <2>1. o \in Objects
    BY <1>1 DEF TypeInv, NodeOK, CreatedOK, AddDependent, Objects
  <2>2. Append(dependent_devices[o], adding) \in Seq(Devs)
    BY <1>2, <2>1 DEF TypeInv, NodeOK
  <2>3. dependent_devices' = [dependent_devices EXCEPT ![o] = Append(dependent_devices[o], adding)]
    BY DEF AddDependent
  <2> QED BY <2>2, <2>3 DEF TypeInv, NodeOK, AddDependent
<1>4. MainOK' BY <1>1, <1>2 DEF TypeInv, MainOK, AddDependent
<1>5. CreatedOK' BY DEF TypeInv, CreatedOK, AddDependent, busVars, updateVars
<1> QED BY <1>3, <1>4, <1>5, BusSame, UpdateSame, QueueSame, WorkSame, DevSame, ObsSame
        DEF TypeInv, AddDependent, busVars

LEMMA ServeType == ASSUME TypeInv, Serve PROVE TypeInv'
<1>1. MainOK' BY DEF TypeInv, MainOK, Serve
<1>2. CreatedOK' BY DEF TypeInv, CreatedOK, Serve, busVars, updateVars, nodeVars
<1> QED BY <1>1, <1>2, BusSame, UpdateSame, NodeSame, QueueSame, WorkSame, DevSame, ObsSame
        DEF TypeInv, Serve, busVars

LEMMA MainThreadType == ASSUME TypeInv, MainThread PROVE TypeInv'
  BY LoadFileType, AddDevType, CheckDependencyType, CreateDependencyType, AddDependentType,
     ServeType DEF MainThread

-----------------------------------------------------------------------------
(* The workers and the observers.                                            *)

\* A worker that runs a task about a frame has that frame.
LEMMA TaskFrame ==
  ASSUME TypeInv, NEW w \in Workers, task[w].no # 0
  PROVE  received[task[w].no].src \in Nodes /\ received[task[w].no].value \in Values
<1>1. task[w] \in [dev : Devs \cup {0}, no : 0..Len(received)] BY DEF TypeInv, WorkOK
<1>2. task[w].no \in 1..Len(received)
  BY <1>1, LenProperties DEF TypeInv, BusOK
<1> QED BY <1>2, FrameFields DEF TypeInv

\* A worker's step to another place with the same task.
LEMMA StepOfTask ==
  ASSUME TypeInv, NEW w \in Workers, Running(w), UNCHANGED <<received, task>>,
         NEW l \in {"run", "set", "read", "emit", "deliver"}, wpc' = [wpc EXCEPT ![w] = l],
         state' \in [Workers -> Values], l = "set" => task[w].no # 0
  PROVE  WorkOK'
<1>1. wpc' \in [Workers -> {"idle", "take", "run", "set", "read", "emit", "deliver"}]
  BY DEF TypeInv, WorkOK
<1>2. \A x \in Workers : Running(x)' => task'[x].dev \in Devs
  BY DEF TypeInv, WorkOK, Running
<1>3. \A x \in Workers : wpc'[x] = "set" => task'[x].no # 0
  BY DEF TypeInv, WorkOK
<1> QED BY <1>1, <1>2, <1>3 DEF TypeInv, WorkOK

\* The end of a task.
LEMMA DoneType ==
  ASSUME TypeInv, NEW w \in Workers, Done(w), UNCHANGED received PROVE WorkOK'
<1>1. NoTask \in [dev : Devs \cup {0}, no : 0..Len(received)]
  BY LenProperties DEF NoTask, NoFrame, TypeInv, BusOK
<1>2. /\ wpc' = [wpc EXCEPT ![w] = "idle"] /\ task' = [task EXCEPT ![w] = NoTask]
      /\ state' = [state EXCEPT ![w] = 0]
  BY DEF Done
<1>3. \A x \in Workers : Running(x)' => task'[x].dev \in Devs
  BY <1>2 DEF TypeInv, WorkOK, Running
<1>4. \A x \in Workers : wpc'[x] = "set" => task'[x].no # 0
  BY <1>2 DEF TypeInv, WorkOK
<1>5. wpc' \in [Workers -> {"idle", "take", "run", "set", "read", "emit", "deliver"}]
  BY <1>2 DEF TypeInv, WorkOK
<1>6. task' \in [Workers -> [dev : Devs \cup {0}, no : 0..Len(received)]]
  BY <1>1, <1>2 DEF TypeInv, WorkOK
<1>7. state' \in [Workers -> Values]
  BY <1>2, NodeMgrAssumption DEF TypeInv, WorkOK
<1> QED BY <1>3, <1>4, <1>5, <1>6, <1>7 DEF WorkOK

LEMMA AcquireType == ASSUME TypeInv, NEW w \in Workers, Acquire(w) PROVE TypeInv'
<1>1. QueueOK' BY DEF TypeInv, QueueOK, Acquire, Tasks, busVars
<1>2. WorkOK' BY DEF TypeInv, WorkOK, Running, Acquire, busVars
<1> QED BY <1>1, <1>2, BusSame, UpdateSame, NodeSame, MainSame, CreatedSame, DevSame, ObsSame
        DEF TypeInv, Acquire, busVars, updateVars, nodeVars, mainVars

LEMMA TakeType == ASSUME TypeInv, NEW w \in Workers, Take(w) PROVE TypeInv'
<1>1. Head(task_queue) \in Tasks /\ Tail(task_queue) \in Seq(Tasks)
  BY HeadTailProperties DEF TypeInv, QueueOK, Take
<1>2. Tasks' = Tasks /\ received' = received BY DEF Tasks, Take, busVars
<1>3. QueueOK' BY <1>1, <1>2 DEF TypeInv, QueueOK, Take
<1>4. Head(task_queue).dev \in Devs
      /\ Head(task_queue) \in [dev : Devs \cup {0}, no : 0..Len(received)]
  BY <1>1 DEF Tasks
<1>5. DevOK' BY <1>4 DEF TypeInv, DevOK, Take, devVars
<1>6. WorkOK'
  <2>1. wpc' = [wpc EXCEPT ![w] = "run"] /\ task' = [task EXCEPT ![w] = Head(task_queue)]
    BY DEF Take
  <2>2. \A x \in Workers : Running(x)' => task'[x].dev \in Devs
    BY <1>4, <2>1 DEF TypeInv, WorkOK, Running
  <2>3. \A x \in Workers : wpc'[x] = "set" => task'[x].no # 0
    BY <2>1 DEF TypeInv, WorkOK
  <2>4. wpc' \in [Workers -> {"idle", "take", "run", "set", "read", "emit", "deliver"}]
    BY <2>1 DEF TypeInv, WorkOK
  <2>5. task' \in [Workers -> [dev : Devs \cup {0}, no : 0..Len(received)]]
    BY <1>4, <2>1 DEF TypeInv, WorkOK
  <2> QED BY <1>2, <2>2, <2>3, <2>4, <2>5 DEF TypeInv, WorkOK, Take
<1> QED BY <1>3, <1>5, <1>6, BusSame, UpdateSame, NodeSame, MainSame, CreatedSame, ObsSame
        DEF TypeInv, Take, busVars, updateVars, nodeVars, mainVars

LEMMA RunType == ASSUME TypeInv, NEW w \in Workers, Run(w) PROVE TypeInv'
<1> DEFINE r == received[task[w].no]
<1>0. received' = received BY DEF Run, busVars
<1>1. task[w].dev \in Devs /\ Running(w)
  BY DEF TypeInv, WorkOK, Running, Run
<1>2. CASE task[w].no # NoFrame /\ r.kind = "NODE_INFO"
  <2>1. WorkOK' BY <1>0, <1>2, DoneType DEF Run
  <2>2. r.src \in Nodes BY <1>2, TaskFrame DEF NoFrame
  <2>3. node_id' \in [Devs -> Nodes \cup {NoNode}]
    BY <1>1, <1>2, <2>2 DEF TypeInv, DevOK, Run
  <2>4. DevOK' BY <2>3 DEF TypeInv, DevOK, Run
  <2> QED BY <2>1, <2>4, BusSame, UpdateSame, NodeSame, MainSame, CreatedSame, QueueSame, ObsSame
          DEF TypeInv, Run, busVars, updateVars, nodeVars, mainVars
<1>3. CASE ~(task[w].no # NoFrame /\ r.kind = "NODE_INFO")
  <2>1. WorkOK'
    <3>1. CASE Done(w) BY <1>0, <3>1, DoneType
    <3>2. CASE ~Done(w)
      <4>1. /\ UNCHANGED <<task, state>>
            /\ \/ wpc' = [wpc EXCEPT ![w] = "set"] /\ task[w].no # NoFrame
               \/ wpc' = [wpc EXCEPT ![w] = "emit"]
        BY <1>3, <3>2 DEF Run
      <4>2. state' \in [Workers -> Values] BY <4>1 DEF TypeInv, WorkOK
      <4> QED BY <1>0, <1>1, <4>1, <4>2, StepOfTask DEF NoFrame
    <3> QED BY <3>1, <3>2
  <2>2. DevOK' BY <1>3 DEF TypeInv, DevOK, Run
  <2> QED BY <2>1, <2>2, BusSame, UpdateSame, NodeSame, MainSame, CreatedSame, QueueSame, ObsSame
          DEF TypeInv, Run, busVars, updateVars, nodeVars, mainVars
<1> QED BY <1>2, <1>3

LEMMA SetSelectedType == ASSUME TypeInv, NEW w \in Workers, SetSelected(w) PROVE TypeInv'
<1>1. task[w].dev \in Devs /\ Running(w) /\ task[w].no # 0
  BY DEF TypeInv, WorkOK, Running, SetSelected
<1>2. received[task[w].no].value \in Values BY <1>1, TaskFrame
<1>3. DevOK' BY <1>1, <1>2 DEF TypeInv, DevOK, SetSelected
<1>4. state' \in [Workers -> Values] BY DEF TypeInv, WorkOK, SetSelected
<1>5. WorkOK' BY <1>1, <1>4, StepOfTask DEF SetSelected, busVars
<1> QED BY <1>3, <1>5, BusSame, UpdateSame, NodeSame, MainSame, CreatedSame, QueueSame, ObsSame
        DEF TypeInv, SetSelected, busVars, updateVars, nodeVars, mainVars

LEMMA ReadStateType == ASSUME TypeInv, NEW w \in Workers, ReadState(w) PROVE TypeInv'
<1>1. task[w].dev \in Devs /\ Running(w)
  BY DEF TypeInv, WorkOK, Running, ReadState
<1>2. state' \in [Workers -> Values] BY <1>1 DEF TypeInv, WorkOK, DevOK, ReadState
<1>3. WorkOK' BY <1>1, <1>2, StepOfTask DEF ReadState, busVars
<1> QED BY <1>3, BusSame, UpdateSame, NodeSame, MainSame, CreatedSame, QueueSame, DevSame, ObsSame
        DEF TypeInv, ReadState, busVars, updateVars, nodeVars, mainVars

LEMMA EmitBeginType == ASSUME TypeInv, NEW w \in Workers, EmitBegin(w) PROVE TypeInv'
<1>1. Running(w) BY DEF Running, EmitBegin
<1>2. state' \in [Workers -> Values] BY DEF TypeInv, WorkOK, EmitBegin
<1>3. WorkOK' BY <1>1, <1>2, StepOfTask DEF EmitBegin, busVars
<1>4. ObsOK' BY DEF TypeInv, ObsOK, EmitBegin
<1> QED BY <1>3, <1>4, BusSame, UpdateSame, NodeSame, MainSame, CreatedSame, QueueSame, DevSame
        DEF TypeInv, EmitBegin, busVars, updateVars, nodeVars, mainVars

LEMMA EmitEndType == ASSUME TypeInv, NEW w \in Workers, EmitEnd(w) PROVE TypeInv'
<1>1. WorkOK' BY DoneType DEF EmitEnd, busVars
<1>2. task[w].dev \in Devs BY DEF TypeInv, WorkOK, Running, EmitEnd
<1>3. state[w] \in Values BY DEF TypeInv, WorkOK
<1>4. notified' \in [Observers -> [Devs -> SUBSET Values]]
  BY <1>2, <1>3 DEF TypeInv, ObsOK, EmitEnd
<1>5. ObsOK' BY <1>4 DEF TypeInv, ObsOK, EmitEnd
<1> QED BY <1>1, <1>5, BusSame, UpdateSame, NodeSame, MainSame, CreatedSame, QueueSame, DevSame
        DEF TypeInv, EmitEnd, busVars, updateVars, nodeVars, mainVars

LEMMA WorkerType == ASSUME TypeInv, NEW w \in Workers, Worker(w) PROVE TypeInv'
  BY AcquireType, TakeType, RunType, SetSelectedType, ReadStateType, EmitBeginType, EmitEndType
     DEF Worker

LEMMA ObserverType ==
  ASSUME TypeInv, NEW o \in Observers, Attach(o) \/ Detach(o) PROVE TypeInv'
<1>1. ObsOK' BY DEF TypeInv, ObsOK, Attach, Detach
<1> QED BY <1>1, BusSame, UpdateSame, NodeSame, MainSame, CreatedSame, QueueSame, WorkSame, DevSame
        DEF TypeInv, Attach, Detach, busVars, updateVars, nodeVars, mainVars

LEMMA StutterType == ASSUME TypeInv, UNCHANGED vars PROVE TypeInv'
  BY BusSame, UpdateSame, NodeSame, MainSame, CreatedSame, QueueSame, WorkSame, DevSame, ObsSame
     DEF TypeInv, vars, busVars, updateVars, nodeVars, mainVars

LEMMA NextType == ASSUME TypeInv, [Next]_vars PROVE TypeInv'
  BY OnFrameRecvType, NotifyOneType, DeadlineType, UpdateThreadType, MainThreadType, WorkerType,
     ObserverType, StutterType DEF Next

LEMMA TypeInvariant == Spec => []TypeInv
  BY InitType, NextType, PTL DEF Spec

\* Type correctness of NodeMgr: the threads of node_mgr.cc and dev_workers.cc never
\* take from an empty batch, index nodes[] with what is no node, or run a task of no
\* device, for any configuration of nodes, devices, workers and observers.
THEOREM TypeCorrect == Spec => []TypeOK
  BY TypeInvariant, TypeInvImpliesTypeOK, PTL

-----------------------------------------------------------------------------
(* The condition variable of the frame queue.                                *)

\* nodes_dev_update_thread never sleeps over a frame that nobody will tell it of:
\* the predicate is looked at under the lock, and notify_one follows every push.
THEOREM WakeupSafe == Spec => []NoSleepOnFrames
<1>1. Init => NoSleepOnFrames BY DEF Init, NoSleepOnFrames
<1>2. ASSUME NoSleepOnFrames, [Next]_vars PROVE NoSleepOnFrames'
  <2>1. CASE \E f \in Frames : OnFrameRecv(f) BY <1>2, <2>1 DEF NoSleepOnFrames, OnFrameRecv
  <2>2. CASE NotifyOne BY <1>2, <2>2 DEF NoSleepOnFrames, NotifyOne
  <2>3. CASE Deadline BY <1>2, <2>3 DEF NoSleepOnFrames, Deadline, busVars
  <2>4. CASE UpdateThread
    BY <1>2, <2>4 DEF NoSleepOnFrames, UpdateThread, WaitUntil, TimedOut, Pop, CheckNode,
       CreateNode, InitNode, Dispatch, Push, Release, busVars
  <2>5. CASE MainThread
    BY <1>2, <2>5 DEF NoSleepOnFrames, MainThread, LoadFile, AddDev, CheckDependency,
       CreateDependency, AddDependent, Serve, busVars, updateVars
  <2>6. CASE \E w \in Workers : Worker(w)
    BY <1>2, <2>6 DEF NoSleepOnFrames, Worker, Acquire, Take, Run, SetSelected, ReadState,
       EmitBegin, EmitEnd, busVars, updateVars
  <2>7. CASE \E o \in Observers : Attach(o) \/ Detach(o)
    BY <1>2, <2>7 DEF NoSleepOnFrames, Attach, Detach, busVars, updateVars
  <2>8. CASE UNCHANGED vars BY <1>2, <2>8 DEF NoSleepOnFrames, vars, busVars, updateVars
  <2> QED BY <1>2, <2>1, <2>2, <2>3, <2>4, <2>5, <2>6, <2>7, <2>8 DEF Next
<1> QED BY <1>1, <1>2, PTL DEF Spec

-----------------------------------------------------------------------------
(* The semaphore of DevWorkers.                                              *)

Taking == {w \in Workers : wpc[w] = "take"}

LEMMA TakingFinite == IsFiniteSet(Taking) /\ Cardinality(Taking) \in Nat
<1>1. IsFiniteSet(Taking) BY NodeMgrAssumption, FS_Subset DEF Taking
<1> QED BY <1>1, FS_CardinalityType

LEMMA TakingSame == ASSUME UNCHANGED wpc PROVE Taking' = Taking
  BY DEF Taking

\* A worker that starts or leaves another place than "take".
LEMMA TakingOthers ==
  ASSUME WorkOK, NEW w \in Workers, wpc[w] # "take", NEW l, l # "take",
         wpc' = [wpc EXCEPT ![w] = l]
  PROVE  Taking' = Taking
  BY DEF WorkOK, Taking

\* DevWorkers: semaphore, queue and the threads between their two halves agree at every
\* step, for any number of workers, so that front() of an empty queue is never taken
\* and no task is left without a permit.
THEOREM SemaphoreSafe == Spec => []SemaphoreCountsTasks
<1>1. Init => SemaphoreCountsTasks
  <2> SUFFICES ASSUME Init PROVE SemaphoreCountsTasks OBVIOUS
  <2>1. {w \in Workers : wpc[w] = "take"} = {} BY DEF Init
  <2>2. Cardinality({w \in Workers : wpc[w] = "take"}) = 0 BY <2>1, FS_EmptySet
  <2>3. Len(task_queue) = 0 /\ sema = 0 /\ upc = "wait" BY DEF Init
  <2> QED BY <2>2, <2>3 DEF SemaphoreCountsTasks
<1>2. ASSUME TypeInv, SemaphoreCountsTasks, [Next]_vars PROVE SemaphoreCountsTasks'
  <2>0. /\ Len(task_queue) = sema + Cardinality(Taking) + (IF upc = "release" THEN 1 ELSE 0)
        /\ sema \in Nat /\ Cardinality(Taking) \in Nat
        /\ task_queue \in Seq(Tasks) /\ batch \in Seq(Tasks)
    BY <1>2, TakingFinite DEF SemaphoreCountsTasks, Taking, TypeInv, QueueOK, UpdateOK
  <2> SUFFICES Len(task_queue') =
                 sema' + Cardinality(Taking') + (IF upc' = "release" THEN 1 ELSE 0)
    BY DEF SemaphoreCountsTasks, Taking
  <2>1. CASE UNCHANGED <<task_queue, sema, wpc, upc>>
    BY <2>0, <2>1, TakingSame
  <2>2. CASE NotifyOne
    BY <2>0, <2>2, TakingSame DEF NotifyOne, queueVars, workVars
  <2>3. CASE UpdateThread
    <3>1. Taking' = Taking
      BY <2>3, TakingSame DEF UpdateThread, WaitUntil, TimedOut, Pop, CheckNode, CreateNode,
         InitNode, Dispatch, Push, Release, workVars
    <3>2. CASE Push
      <4>1. Head(batch) \in Tasks
        BY <1>2, <3>2, HeadTailProperties DEF TypeInv, UpdateOK, Push
      <4>2. Len(task_queue') = Len(task_queue) + 1 /\ sema' = sema /\ upc = "push" /\ upc' = "release"
        BY <2>0, <3>2, <4>1 DEF Push
      <4> QED BY <2>0, <3>1, <4>2
    <3>3. CASE Release
      BY <2>0, <3>1, <3>3 DEF Release
    <3>4. CASE ~Push /\ ~Release
      BY <2>0, <2>3, <3>1, <3>4 DEF UpdateThread, WaitUntil, TimedOut, Pop, CheckNode, CreateNode,
         InitNode, Dispatch, queueVars
    <3> QED BY <3>2, <3>3, <3>4
  <2>4. CASE \E w \in Workers : Worker(w)
    <3> PICK w \in Workers : Worker(w) BY <2>4
    <3>1. upc' = upc
      BY DEF Worker, Acquire, Take, Run, SetSelected, ReadState, EmitBegin, EmitEnd, updateVars
    <3>2. CASE Acquire(w)
      <4>1. Taking' = Taking \cup {w} /\ w \notin Taking
        BY <1>2, <3>2 DEF Taking, Acquire, TypeInv, WorkOK
      <4>2. Cardinality(Taking') = Cardinality(Taking) + 1
        BY <4>1, TakingFinite, FS_AddElement
      <4> QED BY <2>0, <3>1, <3>2, <4>2 DEF Acquire
    <3>3. CASE Take(w)
      <4>1. Taking' = Taking \ {w} /\ w \in Taking
        BY <1>2, <3>3 DEF Taking, Take, TypeInv, WorkOK
      <4>2. Cardinality(Taking') = Cardinality(Taking) - 1
        BY <4>1, TakingFinite, FS_RemoveElement
      <4>3. Len(task_queue') = Len(task_queue) - 1 /\ sema' = sema
        BY <2>0, <3>3, HeadTailProperties DEF Take
      <4> QED BY <2>0, <3>1, <4>2, <4>3
    <3>4. CASE ~Acquire(w) /\ ~Take(w)
      <4>1. UNCHANGED queueVars /\ wpc[w] # "take"
        BY <3>4 DEF Worker, Run, SetSelected, ReadState, EmitBegin, EmitEnd
      <4>2. \E l \in {"idle", "set", "emit", "read", "deliver"} : wpc' = [wpc EXCEPT ![w] = l]
        BY <3>4 DEF Worker, Run, SetSelected, ReadState, EmitBegin, EmitEnd, Done
      <4>3. Taking' = Taking BY <1>2, <4>1, <4>2, TakingOthers DEF TypeInv
      <4> QED BY <2>0, <3>1, <4>1, <4>3 DEF queueVars
    <3> QED BY <3>2, <3>3, <3>4
  <2>5. ASSUME [Next]_vars, ~UNCHANGED <<task_queue, sema, wpc, upc>>, ~NotifyOne, ~UpdateThread
        PROVE  \E w \in Workers : Worker(w)
    BY <2>5 DEF Next, OnFrameRecv, Deadline, MainThread, LoadFile, AddDev, CheckDependency,
       CreateDependency, AddDependent, Serve, Attach, Detach, vars, queueVars, workVars, updateVars
  <2> QED BY <1>2, <2>1, <2>2, <2>3, <2>4, <2>5
<1> QED BY <1>1, <1>2, TypeInvariant, PTL DEF Spec

-----------------------------------------------------------------------------
(* The observers of clients.                                                 *)

\* Who goes through the list holds its lock.
ObserverInv ==
  \A w \in Workers : /\ wpc[w] # "deliver" => emitting[w] = {}
                     /\ \A o \in emitting[w] : obs[o] = "attached"

\* NodeMgr::emit_dev_state calls no observer that its client has deleted: attach and
\* detach take dev_status_observer_mtx alone, workers share it from the list's
\* beginning to its end, for any number of workers and clients.
THEOREM ObserversSafe == Spec => []NoDeletedObserverTold
<1>1. Init => ObserverInv BY DEF Init, ObserverInv
<1>2. ASSUME TypeInv, ObserverInv, [Next]_vars PROVE ObserverInv'
  <2>1. CASE UNCHANGED <<wpc, emitting, obs>> BY <1>2, <2>1 DEF ObserverInv
  <2>2. CASE \E w \in Workers : Worker(w)
    <3> PICK w \in Workers : Worker(w) BY <2>2
    <3>0. wpc \in [Workers -> {"idle", "take", "run", "set", "read", "emit", "deliver"}]
          /\ emitting \in [Workers -> SUBSET Observers] /\ obs' = obs
      BY <1>2 DEF TypeInv, WorkOK, ObsOK, Worker, Acquire, Take, Run, SetSelected, ReadState,
         EmitBegin, EmitEnd, obsVars
    <3>1. CASE EmitBegin(w)
      BY <1>2, <3>0, <3>1 DEF ObserverInv, EmitBegin
    <3>2. CASE EmitEnd(w)
      BY <1>2, <3>0, <3>2 DEF ObserverInv, EmitEnd, Done
    <3>3. CASE ~EmitBegin(w) /\ ~EmitEnd(w)
      <4>1. emitting' = emitting /\ wpc[w] # "deliver"
        BY <3>3 DEF Worker, Acquire, Take, Run, SetSelected, ReadState, obsVars
      <4>2. \E l \in {"idle", "take", "run", "set", "emit", "read"} : wpc' = [wpc EXCEPT ![w] = l]
        BY <3>3 DEF Worker, Acquire, Take, Run, SetSelected, ReadState, Done
      <4> QED BY <1>2, <3>0, <4>1, <4>2 DEF ObserverInv
    <3> QED BY <3>1, <3>2, <3>3
  <2>3. CASE \E o \in Observers : Attach(o) \/ Detach(o)
    <3> PICK o \in Observers : Attach(o) \/ Detach(o) BY <2>3
    <3>1. wpc' = wpc /\ emitting' = emitting BY DEF Attach, Detach, workVars
    <3>2. \A w \in Workers : emitting[w] = {} BY <1>2 DEF Attach, Detach, Emitter, ObserverInv
    <3> QED BY <3>1, <3>2 DEF ObserverInv
  <2>4. ASSUME [Next]_vars, ~UNCHANGED <<wpc, emitting, obs>>,
               ~(\E o \in Observers : Attach(o) \/ Detach(o))
        PROVE  \E w \in Workers : Worker(w)
    BY <2>4 DEF Next, OnFrameRecv, NotifyOne, Deadline, UpdateThread, WaitUntil, TimedOut, Pop,
       CheckNode, CreateNode, InitNode, Dispatch, Push, Release, MainThread, LoadFile, AddDev,
       CheckDependency, CreateDependency, AddDependent, Serve, vars, workVars, obsVars
  <2> QED BY <1>2, <2>1, <2>2, <2>3, <2>4
<1>3. ObserverInv => NoDeletedObserverTold BY DEF ObserverInv, NoDeletedObserverTold
<1> QED BY <1>1, <1>2, <1>3, TypeInvariant, PTL DEF Spec

-----------------------------------------------------------------------------
(* What a step leaves as it was. *)

\* A disturbed device stays one.
LEMMA DisturbedGrows == ASSUME [Next]_vars PROVE disturbed \subseteq disturbed'
  BY DEF Next, OnFrameRecv, NotifyOne, Deadline, UpdateThread, WaitUntil, TimedOut, CheckNode,
     CreateNode, InitNode, Dispatch, Push, Release, MainThread, LoadFile, AddDev, CheckDependency,
     CreateDependency, AddDependent, Serve, Create, Worker, Acquire, Take, Run, SetSelected,
     ReadState, EmitBegin, EmitEnd, Attach, Detach, vars

\* A frame received stays where it is.
LEMMA ReceivedKept ==
  ASSUME TypeInv, [Next]_vars, NEW f \in 1..Len(received)
  PROVE  received'[f] = received[f]
<1>1. CASE UNCHANGED received
  BY <1>1
<1>2. CASE \E g \in Frames : OnFrameRecv(g)
  <2> PICK g \in Frames : OnFrameRecv(g) BY <1>2
  <2>1. received \in Seq(Frames) /\ received' = Append(received, g)
    BY DEF TypeInv, BusOK, OnFrameRecv
  <2> QED BY <2>1
<1>3. ~(\E g \in Frames : OnFrameRecv(g)) => UNCHANGED received
  BY DEF Next, NotifyOne, Deadline, UpdateThread, WaitUntil, TimedOut, CheckNode,
     CreateNode, InitNode, Dispatch, Push, Release, MainThread, LoadFile, AddDev, CheckDependency,
     CreateDependency, AddDependent, Serve, Worker, Acquire, Take, Run, SetSelected,
     ReadState, EmitBegin, EmitEnd, Attach, Detach, vars, busVars
<1> QED BY <1>1, <1>2, <1>3

\* Who changes nodes[] and the objects' types.
LEMMA NodesStep ==
  ASSUME [Next]_vars
  PROVE  UNCHANGED <<nodes, node_type>> \/ CreateNode \/ CreateDependency \/ InitNode
  BY DEF Next, OnFrameRecv, NotifyOne, Deadline, UpdateThread, WaitUntil, TimedOut, CheckNode,
     Dispatch, Push, Release, MainThread, LoadFile, AddDev, CheckDependency,
     AddDependent, Serve, Worker, Acquire, Take, Run, SetSelected, ReadState, EmitBegin, EmitEnd,
     Attach, Detach, vars, nodeVars

-----------------------------------------------------------------------------
(* The description of a device's node. *)

\* Device d has heard of node n: its section names n, and unless d is disturbed the
\* object in nodes[n] has the node's type.
Known(d, n) ==
  /\ d \in DependentOn(n) /\ nodes[n] # Null
  /\ d \notin disturbed => node_type[<<n, nodes[n]>>] = NodeType[n]

\* A task about NODE_INFO is about a node its device has heard of.
TaskKnown(t) ==
  t.no # 0 /\ received[t.no].kind = "NODE_INFO" => Known(t.dev, received[t.no].src)

\* Devices are registered with the objects of their own nodes.
DependOK ==
  /\ \A o \in Objects : \A i \in DOMAIN dependent_devices[o] :
       dependent_devices[o][i] \in DependentOn(o[1])
  /\ mpc \in {"check", "create", "depend"} =>
       \A i \in DOMAIN ids : adding \in DependentOn(ids[i])

\* Tasks about to be queued, queued and taken.
TasksKnown ==
  /\ \A i \in DOMAIN batch : TaskKnown(batch[i])
  /\ \A i \in DOMAIN task_queue : TaskKnown(task_queue[i])
  /\ \A w \in Workers : Running(w) => TaskKnown(task[w])

\* Node::init comes before Node::on_frame_recv.
DispatchKnown ==
  upc = "dispatch" /\ Kind = "NODE_INFO" => \A d \in DependentOn(Source) : Known(d, Source)

\* The node an antenna switch has found is one, and known.
NodeIdKnown ==
  \A d \in Devs :
    DevType[d] = "AntennaSwitch" /\ node_id[d] # NoNode
      => Known(d, node_id[d]) /\ NodeType[node_id[d]] = "antenna_switch"

KnownInv == DependOK /\ TasksKnown /\ DispatchKnown /\ NodeIdKnown

\* Known survives every step: an object that replaces another disturbs the devices
\* of the node.
LEMMA KnownKept ==
  ASSUME TypeInv, [Next]_vars, NEW d, NEW n \in Nodes, Known(d, n)
  PROVE  Known(d, n)'
<1>a. nodes \in [Nodes -> Creators \cup {Null}]
      /\ node_type \in [Objects -> {"antenna_switch", "other", Null}]
      /\ disturbed \subseteq disturbed'
  BY DisturbedGrows DEF TypeInv, NodeOK
<1>b. d \in DependentOn(n) /\ nodes[n] # Null /\ DependentOn(n)' = DependentOn(n)
  BY DEF Known, DependentOn
<1>1. CASE UNCHANGED <<nodes, node_type>>
  BY <1>a, <1>b, <1>1 DEF Known
<1>2. ASSUME NEW m \in Nodes, NEW t \in Creators, Create(m, t) PROVE Known(d, n)'
  <2>1. nodes' = [nodes EXCEPT ![m] = t] /\ node_type' = node_type /\ t # Null
        /\ disturbed' = IF nodes[m] = Null THEN disturbed ELSE disturbed \cup DependentOn(m)
    BY <1>2 DEF Create, Creators, Null
  <2>2. CASE m = n
    BY <1>a, <1>b, <2>1, <2>2 DEF Known
  <2>3. CASE m # n
    BY <1>a, <1>b, <2>1, <2>3 DEF Known
  <2> QED BY <2>2, <2>3
<1>3. CASE CreateNode
  <2>1. Source \in Nodes
    BY <1>3, FrameFields, LenProperties DEF TypeInv, UpdateOK, BusOK, CreateNode, Source
  <2> QED BY <1>2, <1>3, <2>1 DEF CreateNode, Creators
<1>4. CASE CreateDependency
  <2>1. Head(ids) \in Nodes
    BY <1>4, HeadTailProperties DEF TypeInv, MainOK, CreateDependency
  <2> QED BY <1>2, <1>4, <2>1 DEF CreateDependency, Creators
<1>5. CASE InitNode
  <2>1. nodes' = nodes /\ <<n, nodes[n]>> \in Objects
    BY <1>5, <1>a, <1>b DEF InitNode, Objects
  <2>2. PICK s, o : s = Source /\ o = <<Source, nodes[Source]>>
    OBVIOUS
  <2>3. node_type' \in {node_type, [node_type EXCEPT ![o] = NodeType[s]]}
    BY <1>5, <2>2 DEF InitNode
  <2>4. o = <<n, nodes[n]>> => s = n
    BY <2>2
  <2> QED BY <1>a, <1>b, <2>1, <2>3, <2>4 DEF Known
<1> QED BY <1>1, <1>3, <1>4, <1>5, NodesStep

\* So what a task knows stays known.
LEMMA TaskKnownKept ==
  ASSUME TypeInv, [Next]_vars, NEW t, t.no \in 0..Len(received), TaskKnown(t)
  PROVE  TaskKnown(t)'
<1> SUFFICES ASSUME t.no # 0, received'[t.no].kind = "NODE_INFO"
             PROVE  Known(t.dev, received[t.no].src)'
  BY DEF TaskKnown
<1>1. t.no \in 1..Len(received)
  BY LenProperties DEF TypeInv, BusOK
<1>2. received'[t.no] = received[t.no] /\ received[t.no].src \in Nodes
  BY <1>1, ReceivedKept, FrameFields DEF TypeInv
<1>3. PICK n \in Nodes : n = received[t.no].src
  BY <1>2
<1>4. Known(t.dev, n)
  BY <1>2, <1>3 DEF TaskKnown
<1>5. Known(t.dev, n)'
  BY <1>4, KnownKept
<1> QED BY <1>2, <1>3, <1>5

\* Nothing is registered, queued or found.
LEMMA InitKnown == Init => KnownInv
<1> SUFFICES ASSUME Init PROVE KnownInv
  OBVIOUS
<1>1. DependOK
  BY DEF Init, DependOK
<1>2. TasksKnown
  BY DEF Init, TasksKnown, Running
<1>3. DispatchKnown /\ NodeIdKnown
  BY DEF Init, DispatchKnown, NodeIdKnown
<1> QED BY <1>1, <1>2, <1>3 DEF KnownInv

\* NodeMgr::add_dev goes through the node ids of the section.
LEMMA DependKept ==
  ASSUME TypeInv, DependOK, [Next]_vars
  PROVE  DependOK'
<1>0. \A n : DependentOn(n)' = DependentOn(n)
  BY DEF DependentOn
<1>1. CASE UNCHANGED <<dependent_devices, mpc, ids, adding>>
  BY <1>0, <1>1 DEF DependOK
<1>2. CASE AddDev
  <2>1. /\ dependent_devices' = dependent_devices
        /\ mpc' \in {"check", "create", "depend"} =>
             /\ adding' \in Devs /\ ids' = DevNodes[adding']
    BY <1>2 DEF AddDev, nodeVars
  <2>2. \A a \in Devs : \A i \in DOMAIN DevNodes[a] : a \in DependentOn(DevNodes[a][i])
    BY DEF DependentOn
  <2>3. mpc' \in {"check", "create", "depend"} =>
          \A i \in DOMAIN ids' : adding' \in DependentOn(ids[i])'
    BY <1>0, <2>1, <2>2
  <2> QED BY <1>0, <2>1, <2>3 DEF DependOK
<1>3. CASE AddDependent
  <2>0. PICK n, o : n = Head(ids) /\ o = <<n, nodes[n]>>
    OBVIOUS
  <2>1. /\ mpc = "depend" /\ ids' = Tail(ids) /\ adding' = adding
        /\ dependent_devices' = [dependent_devices EXCEPT ![o] = Append(@, adding)]
    BY <1>3, <2>0 DEF AddDependent
  <2>2. ids \in Seq(Nodes) /\ ids # <<>> /\ adding \in Devs
    BY <2>1 DEF TypeInv, MainOK
  <2>3. adding \in DependentOn(n) /\ \A i \in DOMAIN ids' : adding \in DependentOn(ids'[i])
    <3>1. 1 \in DOMAIN ids /\ n = ids[1] /\ \A i \in DOMAIN ids' : i + 1 \in DOMAIN ids /\ ids'[i] = ids[i + 1]
      BY <2>0, <2>1, <2>2
    <3> QED BY <2>1, <3>1 DEF DependOK
  <2>4. ASSUME NEW p \in Objects, NEW i \in DOMAIN dependent_devices'[p]
        PROVE  dependent_devices'[p][i] \in DependentOn(p[1])
    <3>1. dependent_devices \in [Objects -> Seq(Devs)]
      BY DEF TypeInv, NodeOK
    <3>2. CASE p = o
      <4>1. PICK s \in Seq(Devs) : s = dependent_devices[p]
        BY <3>1
      <4>2. dependent_devices'[p] = Append(s, adding)
        BY <2>1, <3>1, <3>2, <4>1
      <4>3. dependent_devices'[p][i] = adding \/ (i \in DOMAIN s /\ dependent_devices'[p][i] = s[i])
        BY <2>2, <4>2
      <4>4. p[1] = n
        BY <2>0, <3>2
      <4> QED BY <2>3, <4>1, <4>3, <4>4 DEF DependOK
    <3>3. CASE p # o
      BY <2>1, <3>1, <3>3 DEF DependOK
    <3> QED BY <3>2, <3>3
  <2> QED BY <1>0, <2>1, <2>3, <2>4 DEF DependOK
<1>4. CASE LoadFile \/ CheckDependency \/ CreateDependency \/ Serve
  <2>1. /\ UNCHANGED <<dependent_devices, ids, adding>>
        /\ mpc' \in {"check", "create", "depend"} => mpc \in {"check", "create", "depend"}
    BY <1>4 DEF LoadFile, CheckDependency, CreateDependency, Create, Serve, nodeVars
  <2> QED BY <1>0, <2>1 DEF DependOK
<1>5. ~MainThread => UNCHANGED <<dependent_devices, mpc, ids, adding>>
  BY DEF Next, OnFrameRecv, NotifyOne, Deadline, UpdateThread, WaitUntil, TimedOut, CheckNode,
     CreateNode, InitNode, Create, Dispatch, Push, Release, Worker, Acquire, Take, Run,
     SetSelected, ReadState, EmitBegin, EmitEnd, Attach, Detach, vars, nodeVars, mainVars
<1> QED BY <1>1, <1>2, <1>3, <1>4, <1>5 DEF MainThread

\* What a batch holds about NODE_INFO is known: Node::init has just been called.
LEMMA BatchKnown ==
  ASSUME TypeInv, KnownInv, [Next]_vars
  PROVE  \A i \in DOMAIN batch' : TaskKnown(batch[i])'
<1>a. batch \in Seq(Tasks) /\ \A i \in DOMAIN batch : batch[i].no \in 0..Len(received)
  <2>1. batch \in Seq(Tasks)
    BY DEF TypeInv, UpdateOK
  <2>2. \A i \in DOMAIN batch : batch[i] \in Tasks
    BY <2>1
  <2> QED BY <2>1, <2>2 DEF Tasks
<1>1. CASE UNCHANGED batch
  <2> SUFFICES ASSUME NEW i \in DOMAIN batch PROVE TaskKnown(batch[i])'
    BY <1>1
  <2>1. PICK t : t = batch[i]
    OBVIOUS
  <2>2. TaskKnown(t)'
    BY <1>a, <2>1, TaskKnownKept DEF KnownInv, TasksKnown
  <2> QED BY <1>1, <2>1, <2>2
<1>2. CASE TimedOut /\ ~UNCHANGED batch
  <2>1. batch' = [i \in 1..Cardinality(devs_map) |-> Periodic(Listing(devs_map)[i])]
    BY <1>2 DEF TimedOut
  <2>2. \A i \in DOMAIN batch' : batch'[i].no = 0
    BY <2>1 DEF Periodic, NoFrame
  <2> QED BY <2>2 DEF TaskKnown
<1>3. CASE Dispatch
  <2>0. PICK n, o : n = Source /\ o = <<n, nodes[n]>>
    OBVIOUS
  <2>1. n \in Nodes /\ o \in Objects /\ nodes[n] # Null
    BY <1>3, <2>0, SourceObject DEF Dispatch, TypeInv, CreatedOK, Source
  <2>2. /\ batch' = [i \in DOMAIN dependent_devices[o] |-> Update(dependent_devices[o][i], frame)]
        /\ upc = "dispatch" /\ UNCHANGED <<received, nodes, node_type, disturbed>>
    BY <1>3, <2>0 DEF Dispatch, busVars, nodeVars
  <2>3. ASSUME NEW i \in DOMAIN batch' PROVE TaskKnown(batch[i])'
    <3>1. PICK d : d = dependent_devices[o][i]
      OBVIOUS
    <3>2. batch'[i].dev = d /\ batch'[i].no = frame /\ d \in DependentOn(n)
      BY <2>0, <2>1, <2>2, <3>1 DEF Update, KnownInv, DependOK
    <3>3. Kind = "NODE_INFO" => Known(d, n)
      BY <2>0, <2>2, <3>2 DEF KnownInv, DispatchKnown
    <3>4. Kind = "NODE_INFO" => Known(d, n)'
      BY <2>1, <3>3, KnownKept
    <3> QED BY <2>0, <2>2, <3>2, <3>4 DEF TaskKnown, Kind, Source
  <2> QED BY <2>3
<1>4. CASE Release
  <2>1. batch' = Tail(batch) /\ batch # <<>>
    BY <1>4 DEF Release, TypeInv, UpdateOK
  <2>2. \A i \in DOMAIN batch' : i + 1 \in DOMAIN batch /\ batch'[i] = batch[i + 1]
    BY <1>a, <2>1
  <2> SUFFICES ASSUME NEW i \in DOMAIN batch' PROVE TaskKnown(batch[i])'
    OBVIOUS
  <2>3. PICK t : t = batch[i + 1]
    OBVIOUS
  <2>4. TaskKnown(t)'
    BY <1>a, <2>2, <2>3, TaskKnownKept DEF KnownInv, TasksKnown
  <2> QED BY <2>2, <2>3, <2>4
<1>5. UNCHANGED batch \/ TimedOut \/ Dispatch \/ Release
  BY DEF Next, OnFrameRecv, NotifyOne, Deadline, UpdateThread, WaitUntil, CheckNode,
     CreateNode, InitNode, Push, MainThread, LoadFile, AddDev, CheckDependency,
     CreateDependency, AddDependent, Serve, Worker, Acquire, Take, Run, SetSelected,
     ReadState, EmitBegin, EmitEnd, Attach, Detach, vars, updateVars
<1> QED BY <1>1, <1>2, <1>3, <1>4, <1>5

\* Tasks are queued from the batch and taken from the front.
LEMMA QueueKnown ==
  ASSUME TypeInv, KnownInv, [Next]_vars
  PROVE  /\ \A i \in DOMAIN task_queue' : TaskKnown(task_queue[i])'
         /\ \A w \in Workers : Running(w)' => TaskKnown(task[w])'
<1>a. /\ batch \in Seq(Tasks) /\ task_queue \in Seq(Tasks)
      /\ wpc \in [Workers -> {"idle", "take", "run", "set", "read", "emit", "deliver"}]
      /\ task \in [Workers -> [dev : Devs \cup {0}, no : 0..Len(received)]]
  BY DEF TypeInv, UpdateOK, QueueOK, WorkOK
<1>b. \A t \in Tasks : TaskKnown(t) => TaskKnown(t)'
  BY TaskKnownKept DEF Tasks
<1>c. \A i \in DOMAIN task_queue : task_queue[i] \in Tasks /\ TaskKnown(task_queue[i])
  BY <1>a DEF KnownInv, TasksKnown
<1>d. \A w \in Workers : Running(w) =>
        \A t : t = task[w] => TaskKnown(t)'
  BY <1>a, TaskKnownKept DEF KnownInv, TasksKnown
<1>e. \A i \in DOMAIN task_queue : \A t : t = task_queue[i] => TaskKnown(t)'
  BY <1>b, <1>c
<1>1. CASE UNCHANGED <<task_queue, task, wpc>>
  <2>1. \A i \in DOMAIN task_queue' : TaskKnown(task_queue[i])'
    <3> SUFFICES ASSUME NEW i \in DOMAIN task_queue' PROVE TaskKnown(task_queue[i])'
      OBVIOUS
    <3>1. PICK t : t = task_queue[i]
      OBVIOUS
    <3> QED BY <1>1, <1>e, <3>1
  <2>2. ASSUME NEW w \in Workers, Running(w)' PROVE TaskKnown(task[w])'
    <3>1. PICK t : t = task[w]
      OBVIOUS
    <3>2. Running(w) /\ t = task'[w]
      BY <1>1, <2>2, <3>1 DEF Running
    <3> QED BY <1>d, <3>1, <3>2
  <2> QED BY <2>1, <2>2
<1>2. CASE Push
  <2>1. PICK t : t = Head(batch)
    OBVIOUS
  <2>2. /\ task_queue' = Append(task_queue, t) /\ UNCHANGED <<task, wpc>> /\ upc = "push"
        /\ batch # <<>>
    BY <1>2, <2>1 DEF Push, workVars, TypeInv, UpdateOK
  <2>3. t \in Tasks /\ t = batch[1] /\ 1 \in DOMAIN batch
    BY <1>a, <2>1, <2>2
  <2>4. TaskKnown(t)'
    BY <1>b, <2>3 DEF KnownInv, TasksKnown
  <2>5. ASSUME NEW i \in DOMAIN task_queue' PROVE TaskKnown(task_queue[i])'
    <3>1. task_queue'[i] = t \/ (i \in DOMAIN task_queue /\ task_queue'[i] = task_queue[i])
      BY <1>a, <2>2, <2>3
    <3>2. PICK u : u = task_queue[i]
      OBVIOUS
    <3> QED BY <1>e, <2>4, <3>1, <3>2
  <2>6. ASSUME NEW w \in Workers, Running(w)' PROVE TaskKnown(task[w])'
    <3>1. PICK u : u = task[w]
      OBVIOUS
    <3>2. Running(w) /\ u = task'[w]
      BY <2>2, <2>6, <3>1 DEF Running
    <3> QED BY <1>d, <3>1, <3>2
  <2> QED BY <2>5, <2>6
<1>3. ASSUME NEW w \in Workers, Take(w)
      PROVE  /\ \A i \in DOMAIN task_queue' : TaskKnown(task_queue[i])'
             /\ \A x \in Workers : Running(x)' => TaskKnown(task[x])'
  <2>1. PICK t : t = Head(task_queue)
    OBVIOUS
  <2>2. /\ task_queue # <<>> /\ task_queue' = Tail(task_queue)
        /\ task' = [task EXCEPT ![w] = t] /\ wpc' = [wpc EXCEPT ![w] = "run"]
    BY <1>3, <2>1 DEF Take
  <2>3. t = task_queue[1] /\ 1 \in DOMAIN task_queue
    BY <1>a, <2>1, <2>2
  <2>4. TaskKnown(t)'
    BY <1>e, <2>3
  <2>5. ASSUME NEW i \in DOMAIN task_queue' PROVE TaskKnown(task_queue[i])'
    <3>1. i + 1 \in DOMAIN task_queue /\ task_queue'[i] = task_queue[i + 1]
      BY <1>a, <2>2
    <3>2. PICK u : u = task_queue[i + 1]
      OBVIOUS
    <3> QED BY <1>e, <3>1, <3>2
  <2>6. ASSUME NEW x \in Workers, Running(x)' PROVE TaskKnown(task[x])'
    <3>1. CASE x = w
      BY <1>a, <2>2, <2>4, <3>1
    <3>2. CASE x # w
      <4>1. PICK u : u = task[x]
        OBVIOUS
      <4>2. Running(x) /\ u = task'[x]
        BY <1>a, <2>2, <2>6, <3>2, <4>1 DEF Running
      <4> QED BY <1>d, <4>1, <4>2
    <3> QED BY <3>1, <3>2
  <2> QED BY <2>5, <2>6
<1>4. ASSUME NEW w \in Workers,
             Acquire(w) \/ Run(w) \/ SetSelected(w) \/ ReadState(w) \/ EmitBegin(w) \/ EmitEnd(w)
      PROVE  /\ \A i \in DOMAIN task_queue' : TaskKnown(task_queue[i])'
             /\ \A x \in Workers : Running(x)' => TaskKnown(task[x])'
  <2>1. /\ task_queue' = task_queue
        /\ \/ wpc[w] = "idle" /\ wpc' = [wpc EXCEPT ![w] = "take"] /\ task' = task
           \/ wpc' = [wpc EXCEPT ![w] = "idle"] /\ task' = [task EXCEPT ![w] = NoTask]
           \/ wpc[w] \notin {"idle", "take"} /\ task' = task
              /\ \E l \in {"set", "read", "emit", "deliver"} : wpc' = [wpc EXCEPT ![w] = l]
    BY <1>4 DEF Acquire, Run, SetSelected, ReadState, EmitBegin, EmitEnd, Done, queueVars
  <2>2. ASSUME NEW i \in DOMAIN task_queue' PROVE TaskKnown(task_queue[i])'
    <3>1. PICK u : u = task_queue[i]
      OBVIOUS
    <3> QED BY <1>e, <2>1, <3>1
  <2>3. ASSUME NEW x \in Workers, Running(x)' PROVE TaskKnown(task[x])'
    <3>1. PICK u : u = task[x]
      OBVIOUS
    <3>2. Running(x) /\ u = task'[x]
      BY <1>a, <2>1, <2>3, <3>1 DEF Running
    <3> QED BY <1>d, <3>1, <3>2
  <2> QED BY <2>2, <2>3
<1>5. ASSUME ~Push, \A w \in Workers : ~Worker(w) PROVE UNCHANGED <<task_queue, task, wpc>>
  BY <1>5 DEF Next, OnFrameRecv, NotifyOne, Deadline, UpdateThread, WaitUntil, TimedOut, CheckNode,
     CreateNode, InitNode, Dispatch, Release, MainThread, LoadFile, AddDev, CheckDependency,
     CreateDependency, AddDependent, Serve, Attach, Detach, vars, queueVars, workVars
<1> QED BY <1>1, <1>2, <1>3, <1>4, <1>5 DEF Worker

\* Between Node::init and the tasks the object is replaced, and the devices
\* disturbed, or has its type.
LEMMA DispatchKept ==
  ASSUME TypeInv, KnownInv, [Next]_vars
  PROVE  DispatchKnown'
<1> SUFFICES ASSUME upc' = "dispatch", Kind' = "NODE_INFO", NEW d \in DependentOn(Source)'
             PROVE  Known(d, Source)'
  BY DEF DispatchKnown
<1>0. \A n : DependentOn(n)' = DependentOn(n)
  BY DEF DependentOn
<1>1. CASE InitNode
  <2>0. PICK n, o : n = Source /\ o = <<n, nodes[n]>>
    OBVIOUS
  <2>1. n \in Nodes /\ o \in Objects /\ nodes[n] # Null
    BY <1>1, <2>0, SourceObject DEF InitNode, TypeInv, CreatedOK, Source
  <2>2. UNCHANGED <<received, frame, nodes>>
    BY <1>1 DEF InitNode, busVars
  <2>3. Source' = n /\ Kind' = Kind
    BY <2>0, <2>2 DEF Source, Kind
  <2>4. node_type' = [node_type EXCEPT ![o] = NodeType[n]]
    BY <1>1, <2>0, <2>3 DEF InitNode
  <2>5. Known(d, n)'
    BY <1>0, <2>0, <2>1, <2>2, <2>3, <2>4 DEF Known, TypeInv, NodeOK
  <2> QED BY <2>3, <2>5
<1>2. CASE ~InitNode
  <2>1. upc = "dispatch" /\ frame' = frame
    BY <1>2 DEF Next, OnFrameRecv, NotifyOne, Deadline, UpdateThread, WaitUntil, TimedOut, Pop,
       CheckNode, CreateNode, Dispatch, Push, Release, MainThread, LoadFile, AddDev,
       CheckDependency, CreateDependency, AddDependent, Serve, Worker, Acquire, Take, Run,
       SetSelected, ReadState, EmitBegin, EmitEnd, Attach, Detach, vars, updateVars
  <2>2. frame \in 1..Len(received)
    BY <2>1, LenProperties DEF TypeInv, UpdateOK, BusOK
  <2>3. Source' = Source /\ Kind' = Kind /\ Source \in Nodes
    BY <2>1, <2>2, ReceivedKept, FrameFields DEF Source, Kind, TypeInv
  <2>4. PICK n \in Nodes : n = Source
    BY <2>3
  <2>5. Known(d, n)
    BY <1>0, <2>1, <2>3, <2>4 DEF KnownInv, DispatchKnown
  <2>6. Known(d, n)'
    BY <2>5, KnownKept
  <2> QED BY <2>3, <2>4, <2>6
<1> QED BY <1>1, <1>2

\* An antenna switch takes the node a task of NODE_INFO names.
LEMMA NodeIdKept ==
  ASSUME TypeInv, KnownInv, [Next]_vars
  PROVE  NodeIdKnown'
<1> SUFFICES ASSUME NEW d \in Devs, DevType[d] = "AntennaSwitch", node_id'[d] # NoNode
             PROVE  Known(d, node_id[d])' /\ NodeType[node_id'[d]] = "antenna_switch"
  BY DEF NodeIdKnown
<1>0. node_id \in [Devs -> Nodes \cup {NoNode}]
  BY DEF TypeInv, DevOK
<1>1. CASE node_id'[d] = node_id[d]
  <2>1. PICK n : n = node_id[d]
    OBVIOUS
  <2>2. n \in Nodes /\ Known(d, n) /\ NodeType[n] = "antenna_switch"
    BY <1>0, <1>1, <2>1 DEF KnownInv, NodeIdKnown
  <2>3. Known(d, n)'
    BY <2>2, KnownKept
  <2> QED BY <1>1, <2>1, <2>2, <2>3
<1>2. CASE node_id'[d] # node_id[d]
  <2>1. PICK w \in Workers : Run(w)
    BY <1>2 DEF Next, OnFrameRecv, NotifyOne, Deadline, UpdateThread, WaitUntil, TimedOut,
       CheckNode, CreateNode, InitNode, Dispatch, Push, Release, MainThread, LoadFile, AddDev,
       CheckDependency, CreateDependency, AddDependent, Serve, Worker, Acquire, Take,
       SetSelected, ReadState, EmitBegin, EmitEnd, Attach, Detach, vars, devVars
  <2>2. PICK n : n = received[task[w].no].src
    OBVIOUS
  <2>3. /\ task[w].no # NoFrame /\ received[task[w].no].kind = "NODE_INFO"
        /\ InfoTaken(task[w].dev, n) /\ node_id' = [node_id EXCEPT ![task[w].dev] = n]
    BY <1>2, <2>1, <2>2 DEF Run
  <2>4. task[w].dev = d /\ node_id'[d] = n /\ Running(w)
    BY <1>0, <1>2, <2>1, <2>3 DEF Run, Running
  <2>5. NodeType[n] = "antenna_switch"
    BY <2>3, <2>4 DEF InfoTaken
  <2>6. n \in Nodes
    BY <2>2, <2>3, TaskFrame DEF NoFrame
  <2>7. Known(d, n)
    BY <2>2, <2>3, <2>4 DEF KnownInv, TasksKnown, TaskKnown, NoFrame
  <2>8. Known(d, n)'
    BY <2>6, <2>7, KnownKept
  <2> QED BY <2>4, <2>5, <2>8
<1> QED BY <1>1, <1>2

\* All steps.
LEMMA NextKnown == ASSUME TypeInv, KnownInv, [Next]_vars PROVE KnownInv'
<1>1. DependOK'
  BY DependKept DEF KnownInv
<1>2. TasksKnown'
  BY BatchKnown, QueueKnown DEF TasksKnown
<1> QED BY <1>1, <1>2, DispatchKept, NodeIdKept DEF KnownInv

-----------------------------------------------------------------------------
(* One worker at a time. *)

Busy(w, d) == Running(w) /\ task[w].dev = d

\* Two workers that run the same device disturb it.
OneWorker ==
  \A d \in Devs \ disturbed : \A w, x \in Workers : Busy(w, d) /\ Busy(x, d) => w = x

\* The workers and their tasks after a step: nothing moved, or one worker did.
LEMMA WorkersStep ==
  ASSUME TypeInv, [Next]_vars
  PROVE  \/ UNCHANGED <<wpc, task>>
         \/ \E w \in Workers :
              /\ \A x \in Workers : x # w => wpc'[x] = wpc[x] /\ task'[x] = task[x]
              /\ \/ Take(w) /\ ~Running(w) /\ wpc'[w] = "run" /\ task'[w] = Head(task_queue)
                 \/ ~Running(w)'
                 \/ Running(w) /\ Running(w)' /\ task'[w] = task[w]
<1>a. /\ wpc \in [Workers -> {"idle", "take", "run", "set", "read", "emit", "deliver"}]
      /\ task \in [Workers -> [dev : Devs \cup {0}, no : 0..Len(received)]]
  BY DEF TypeInv, WorkOK
<1>1. ASSUME NEW w \in Workers, Take(w)
      PROVE  /\ \A x \in Workers : x # w => wpc'[x] = wpc[x] /\ task'[x] = task[x]
             /\ ~Running(w) /\ wpc'[w] = "run" /\ task'[w] = Head(task_queue)
  BY <1>a, <1>1 DEF Take, Running
<1>2. ASSUME NEW w \in Workers,
             Acquire(w) \/ Run(w) \/ SetSelected(w) \/ ReadState(w) \/ EmitBegin(w) \/ EmitEnd(w)
      PROVE  /\ \A x \in Workers : x # w => wpc'[x] = wpc[x] /\ task'[x] = task[x]
             /\ ~Running(w)' \/ (Running(w) /\ Running(w)' /\ task'[w] = task[w])
  <2>1. \/ wpc[w] = "idle" /\ wpc' = [wpc EXCEPT ![w] = "take"] /\ task' = task
        \/ wpc' = [wpc EXCEPT ![w] = "idle"] /\ task' = [task EXCEPT ![w] = NoTask]
        \/ wpc[w] \notin {"idle", "take"} /\ task' = task
           /\ \E l \in {"set", "read", "emit", "deliver"} : wpc' = [wpc EXCEPT ![w] = l]
    BY <1>2 DEF Acquire, Run, SetSelected, ReadState, EmitBegin, EmitEnd, Done
  <2> QED BY <1>a, <2>1 DEF Running
<1>3. ASSUME \A w \in Workers : ~Worker(w) PROVE UNCHANGED <<wpc, task>>
  BY <1>3 DEF Next, OnFrameRecv, NotifyOne, Deadline, UpdateThread, WaitUntil, TimedOut, CheckNode,
     CreateNode, InitNode, Dispatch, Push, Release, MainThread, LoadFile, AddDev, CheckDependency,
     CreateDependency, AddDependent, Serve, Attach, Detach, vars, workVars
<1> QED BY <1>1, <1>2, <1>3 DEF Worker

\* DevWorkers keeps devices apart, or remembers that it did not.
LEMMA NextOneWorker == ASSUME TypeInv, OneWorker, [Next]_vars PROVE OneWorker'
<1> SUFFICES ASSUME NEW d \in Devs, d \notin disturbed', NEW w \in Workers, NEW x \in Workers,
                    Busy(w, d)', Busy(x, d)'
             PROVE  w = x
  BY DEF OneWorker
<1>1. d \notin disturbed
  BY DisturbedGrows
<1>2. CASE UNCHANGED <<wpc, task>>
  BY <1>1, <1>2 DEF OneWorker, Busy, Running
<1>3. ASSUME NEW y \in Workers,
             \A z \in Workers : z # y => wpc'[z] = wpc[z] /\ task'[z] = task[z],
             ~Running(y)' \/ (Running(y) /\ Running(y)' /\ task'[y] = task[y])
      PROVE  w = x
  BY <1>1, <1>3 DEF OneWorker, Busy, Running
<1>4. ASSUME NEW y \in Workers, Take(y), ~Running(y), task'[y] = Head(task_queue),
             \A z \in Workers : z # y => wpc'[z] = wpc[z] /\ task'[z] = task[z]
      PROVE  w = x
  <2>1. d = Head(task_queue).dev => \A z \in Workers : ~Busy(z, d)
    BY <1>4 DEF Take, Busy
  <2> QED BY <1>1, <1>4, <2>1 DEF OneWorker, Busy, Running
<1> QED BY <1>2, <1>3, <1>4, WorkersStep

-----------------------------------------------------------------------------
(* The device brought forward. *)

\* What a device has: the id of its node and its value.
States == [node : Nodes \cup {NoNode}, value : Values]
Shown(d) == [node |-> node_id[d], value |-> selected[d]]

\* Device state s after a task about frame f.
Effect(d, s, f) ==
  IF f = NoFrame \/ DevType[d] # "AntennaSwitch" THEN s
  ELSE LET r == received[f] IN
       CASE r.kind = "NODE_INFO" /\ NodeType[r.src] = "antenna_switch" -> [s EXCEPT !.node = r.src]
         [] r.kind = "REG_VALUE" /\ s.node = r.src -> [s EXCEPT !.value = r.value]
         [] OTHER -> s

\* What worker w, which runs d, will leave.
Ahead(d, w) ==
  IF wpc[w] = "run" THEN Effect(d, Shown(d), task[w].no)
  ELSE IF wpc[w] = "set" THEN [Shown(d) EXCEPT !.value = received[task[w].no].value]
  ELSE Shown(d)

\* s is d once the task in hand, if any, is done.
NowIs(d, s) ==
  /\ (\A w \in Workers : ~Busy(w, d)) => s = Shown(d)
  /\ \A w \in Workers : Busy(w, d) => s = Ahead(d, w)

\* h goes through the states of d as the tasks of queue q are done.
Forward(d, q, h) ==
  /\ h \in [0..Len(q) -> States]
  /\ \A i \in 1..Len(q) :
       h[i] = IF q[i].dev = d THEN Effect(d, h[i - 1], q[i].no) ELSE h[i - 1]
  /\ \A i, k \in 0..Len(q) :
       i <= k /\ (\A j \in i + 1..k : q[j].dev # d) => h[k] = h[i]

\* An undisturbed antenna switch will be what it is expected to be.
ChainInv ==
  \A d \in Devs \ disturbed :
    DevType[d] = "AntennaSwitch" =>
      \E h : Forward(d, task_queue, h) /\ NowIs(d, h[0]) /\ h[Len(task_queue)] = expected[d]

\* Other devices have no value, and only an antenna switch is given one.
OthersOK ==
  /\ expected \in [Devs -> States]
  /\ \A d \in Devs : DevType[d] # "AntennaSwitch" => selected[d] = 0 /\ expected[d].value = 0
  /\ \A w \in Workers : wpc[w] = "set" => DevType[task[w].dev] = "AntennaSwitch"

\* The effect of a frame is a state of the device, and stays the same effect.
LEMMA EffectFacts ==
  ASSUME TypeInv, NEW d, NEW s \in States, NEW f \in 0..Len(received)
  PROVE  /\ Effect(d, s, f) \in States
         /\ [Next]_vars => Effect(d, s, f)' = Effect(d, s, f)
<1>1. CASE f = 0
  BY <1>1 DEF Effect, NoFrame
<1>2. CASE f # 0
  <2>1. f \in 1..Len(received)
    BY <1>2, LenProperties DEF TypeInv, BusOK
  <2>2. received[f].src \in Nodes /\ received[f].value \in Values
    BY <2>1, FrameFields DEF TypeInv
  <2>3. [Next]_vars => received'[f] = received[f]
    BY <2>1, ReceivedKept
  <2>4. Effect(d, s, f) \in States
    BY <2>2 DEF Effect, States
  <2> QED BY <2>3, <2>4 DEF Effect
<1> QED BY <1>1, <1>2

\* Without a task for d in the queue, d stays as it is.
LEMMA ForwardSettled ==
  ASSUME NEW d, NEW q \in Seq(Tasks), NEW h, Forward(d, q, h), \A i \in DOMAIN q : q[i].dev # d
  PROVE  h[Len(q)] = h[0]
<1>1. Len(q) \in Nat /\ DOMAIN q = 1..Len(q)
  BY LenProperties
<1>2. 0 \in 0..Len(q) /\ Len(q) \in 0..Len(q) /\ 0 <= Len(q) /\ \A j \in 0 + 1..Len(q) : j \in DOMAIN q
  BY <1>1
<1> QED BY <1>2 DEF Forward

\* One task more.
LEMMA ForwardPush ==
  ASSUME TypeInv, NEW d, NEW q \in Seq(Tasks), NEW t \in Tasks, NEW h, Forward(d, q, h)
  PROVE  \E g : /\ Forward(d, Append(q, t), g) /\ g[0] = h[0]
                /\ g[Len(q) + 1] = IF t.dev = d THEN Effect(d, h[Len(q)], t.no) ELSE h[Len(q)]
<1>0. PICK n \in Nat : n = Len(q)
  BY LenProperties
<1>1. PICK x : x = IF t.dev = d THEN Effect(d, h[n], t.no) ELSE h[n]
  OBVIOUS
<1>2. /\ h \in [0..n -> States] /\ n \in 0..n /\ h[n] \in States
      /\ \A i \in 1..n : h[i] = IF q[i].dev = d THEN Effect(d, h[i - 1], q[i].no) ELSE h[i - 1]
      /\ \A i, k \in 0..n : i <= k /\ (\A j \in i + 1..k : q[j].dev # d) => h[k] = h[i]
  BY <1>0 DEF Forward
<1>3. x \in States
  BY <1>1, <1>2, EffectFacts DEF Tasks
<1>4. PICK r : r = Append(q, t)
  OBVIOUS
<1>5. Len(r) = n + 1 /\ r[n + 1] = t /\ \A i \in 1..n : r[i] = q[i]
  BY <1>0, <1>4, AppendProperties
<1>6. PICK g : g = [i \in 0..(n + 1) |-> IF i <= n THEN h[i] ELSE x]
  OBVIOUS
<1>7. g \in [0..(n + 1) -> States] /\ g[n + 1] = x /\ \A i \in 0..n : g[i] = h[i]
  BY <1>2, <1>3, <1>6
<1>8. ASSUME NEW i \in 1..(n + 1)
      PROVE  g[i] = IF r[i].dev = d THEN Effect(d, g[i - 1], r[i].no) ELSE g[i - 1]
  <2>1. CASE i = n + 1
    <3>1. i - 1 = n /\ g[i - 1] = h[n]
      BY <1>2, <1>7, <2>1
    <3> QED BY <1>1, <1>5, <1>7, <2>1, <3>1
  <2>2. CASE i # n + 1
    <3>1. i \in 1..n /\ i - 1 \in 0..n /\ i \in 0..n
      BY <2>2
    <3> QED BY <1>2, <1>5, <1>7, <3>1
  <2> QED BY <2>1, <2>2
<1>9. ASSUME NEW i \in 0..(n + 1), NEW k \in 0..(n + 1), i <= k, \A j \in i + 1..k : r[j].dev # d
      PROVE  g[k] = g[i]
  <2>1. CASE k <= n
    <3>1. i \in 0..n /\ k \in 0..n /\ \A j \in i + 1..k : j \in 1..n
      BY <1>9, <2>1
    <3>2. \A j \in i + 1..k : q[j].dev # d
      BY <1>5, <1>9, <3>1
    <3> QED BY <1>2, <1>7, <1>9, <3>1, <3>2
  <2>2. CASE k = n + 1 /\ i <= n
    <3>1. i \in 0..n /\ i <= n /\ k \in i + 1..k /\ \A j \in i + 1..n : j \in 1..n /\ j \in i + 1..k
      BY <2>2
    <3>2. t.dev # d /\ \A j \in i + 1..n : q[j].dev # d
      BY <1>5, <1>9, <2>2, <3>1
    <3>3. h[n] = h[i]
      BY <1>2, <3>1, <3>2
    <3> QED BY <1>1, <1>7, <2>2, <3>1, <3>2, <3>3
  <2>3. CASE i = n + 1
    BY <1>9, <2>3
  <2> QED BY <2>1, <2>2, <2>3
<1>10. Forward(d, r, g)
  BY <1>5, <1>7, <1>8, <1>9 DEF Forward
<1>11. g[0] = h[0]
  BY <1>7
<1> QED BY <1>0, <1>1, <1>4, <1>7, <1>10, <1>11

\* One task less.
LEMMA ForwardPop ==
  ASSUME NEW d, NEW q \in Seq(Tasks), q # <<>>, NEW h, Forward(d, q, h)
  PROVE  \E g : /\ Forward(d, Tail(q), g) /\ g[Len(Tail(q))] = h[Len(q)]
                /\ g[0] = IF Head(q).dev = d THEN Effect(d, h[0], Head(q).no) ELSE h[0]
<1>0. PICK n \in Nat : n = Len(Tail(q))
  BY HeadTailProperties, LenProperties
<1>1. Len(q) = n + 1 /\ \A i \in 1..n : Tail(q)[i] = q[i + 1]
  BY <1>0, HeadTailProperties, LenProperties
<1>2. Head(q) = q[1]
  OBVIOUS
<1>3. /\ h \in [0..(n + 1) -> States]
      /\ \A i \in 1..(n + 1) : h[i] = IF q[i].dev = d THEN Effect(d, h[i - 1], q[i].no) ELSE h[i - 1]
      /\ \A i, k \in 0..(n + 1) : i <= k /\ (\A j \in i + 1..k : q[j].dev # d) => h[k] = h[i]
  BY <1>1 DEF Forward
<1>4. PICK g : g = [i \in 0..n |-> h[i + 1]]
  OBVIOUS
<1>5. g \in [0..n -> States] /\ \A i \in 0..n : g[i] = h[i + 1]
  BY <1>3, <1>4
<1>6. PICK r : r = Tail(q)
  OBVIOUS
<1>7. ASSUME NEW i \in 1..n
      PROVE  g[i] = IF r[i].dev = d THEN Effect(d, g[i - 1], r[i].no) ELSE g[i - 1]
  <2>1. /\ i \in 0..n /\ i - 1 \in 0..n /\ (i - 1) + 1 = i /\ (i + 1) - 1 = i /\ i + 1 \in 1..(n + 1)
    OBVIOUS
  <2>2. g[i] = h[i + 1] /\ g[i - 1] = h[i] /\ r[i] = q[i + 1]
    BY <1>1, <1>5, <1>6, <2>1
  <2> QED BY <1>3, <2>1, <2>2
<1>8. ASSUME NEW i \in 0..n, NEW k \in 0..n, i <= k, \A j \in i + 1..k : r[j].dev # d
      PROVE  g[k] = g[i]
  <2>1. i + 1 \in 0..(n + 1) /\ k + 1 \in 0..(n + 1) /\ i + 1 <= k + 1
    BY <1>8
  <2>2. ASSUME NEW j \in (i + 1) + 1..k + 1 PROVE q[j].dev # d
    <3>1. PICK m \in i + 1..k : j = m + 1
      BY <2>2
    <3>2. m \in 1..n
      BY <3>1
    <3> QED BY <1>1, <1>6, <1>8, <3>1, <3>2
  <2> QED BY <1>3, <1>5, <2>1, <2>2
<1>9. Forward(d, r, g)
  BY <1>0, <1>5, <1>6, <1>7, <1>8 DEF Forward
<1>10. g[n] = h[n + 1] /\ g[0] = h[1]
  BY <1>5
<1>11. h[1] = IF q[1].dev = d THEN Effect(d, h[0], q[1].no) ELSE h[0]
  BY <1>3
<1> QED BY <1>0, <1>1, <1>2, <1>6, <1>9, <1>10, <1>11

\* A step does not change what queued tasks do.
LEMMA ForwardKept ==
  ASSUME TypeInv, [Next]_vars, NEW d, NEW q \in Seq(Tasks), NEW h, Forward(d, q, h)
  PROVE  Forward(d, q, h)'
<1>0. PICK n \in Nat : n = Len(q)
  BY LenProperties
<1>1. \A i \in 1..n : q[i].no \in 0..Len(received)
  <2>1. \A i \in 1..n : q[i] \in Tasks
    BY <1>0
  <2> QED BY <2>1 DEF Tasks
<1>2. \A i \in 1..n : i - 1 \in 0..n
  OBVIOUS
<1>3. h \in [0..n -> States]
  BY <1>0 DEF Forward
<1>4. \A i \in 1..n : Effect(d, h[i - 1], q[i].no)' = Effect(d, h[i - 1], q[i].no)
  BY <1>1, <1>2, <1>3, EffectFacts
<1> QED BY <1>0, <1>4 DEF Forward, States

\* Steps that do not concern the device.
LEMMA NowKept ==
  ASSUME TypeInv, [Next]_vars, NEW d \in Devs, NEW s, NowIs(d, s),
         node_id'[d] = node_id[d], selected'[d] = selected[d],
         \A x \in Workers : /\ Busy(x, d)' <=> Busy(x, d)
                            /\ Busy(x, d) => wpc'[x] = wpc[x] /\ task'[x] = task[x]
  PROVE  NowIs(d, s)'
<1>1. Shown(d)' = Shown(d) /\ Shown(d) \in States
  BY DEF Shown, States, TypeInv, DevOK
<1>2. ASSUME NEW x \in Workers, Busy(x, d) PROVE Ahead(d, x)' = Ahead(d, x)
  <2>1. PICK f, y : f = task[x].no /\ y = Shown(d)
    OBVIOUS
  <2>2. f \in 0..Len(received) /\ (wpc[x] = "set" => f # 0)
    BY <2>1 DEF TypeInv, WorkOK
  <2>3. Effect(d, y, f)' = Effect(d, y, f)
    BY <1>1, <2>1, <2>2, EffectFacts
  <2>4. wpc[x] = "set" => received'[f] = received[f]
    <3>1. wpc[x] = "set" => f \in 1..Len(received)
      BY <2>2, LenProperties DEF TypeInv, BusOK
    <3> QED BY <3>1, ReceivedKept
  <2>5. wpc'[x] = wpc[x] /\ task'[x].no = f /\ Shown(d)' = y
    BY <1>1, <1>2, <2>1
  <2> QED BY <2>1, <2>3, <2>4, <2>5 DEF Ahead
<1> QED BY <1>1, <1>2 DEF NowIs

\* The steps of the one worker that runs the device.
LEMMA NowMoved ==
  ASSUME OneWorker, NEW d \in Devs, d \notin disturbed, NEW w \in Workers, Busy(w, d), NEW s,
         \A x \in Workers : x # w => wpc'[x] = wpc[x] /\ task'[x] = task[x],
         (Busy(w, d)' /\ s = Ahead(d, w)') \/ (~Busy(w, d)' /\ s = Shown(d)')
  PROVE  NowIs(d, s)'
<1>1. \A x \in Workers : x # w => ~Busy(x, d)'
  BY DEF OneWorker, Busy, Running
<1> QED BY <1>1 DEF NowIs

\* The steps of a worker that does not run the device.
LEMMA NowOther ==
  ASSUME TypeInv, [Next]_vars, NEW d \in Devs, NEW w \in Workers, ~Busy(w, d), ~Busy(w, d)',
         NEW s, NowIs(d, s), node_id'[d] = node_id[d], selected'[d] = selected[d],
         \A x \in Workers : x # w => wpc'[x] = wpc[x] /\ task'[x] = task[x]
  PROVE  NowIs(d, s)'
<1>1. \A x \in Workers : /\ Busy(x, d)' <=> Busy(x, d)
                         /\ Busy(x, d) => wpc'[x] = wpc[x] /\ task'[x] = task[x]
  BY DEF Busy, Running
<1> QED BY <1>1, NowKept

\* update_dev_state of an antenna switch has the effect of the frame.
LEMMA RunNow ==
  ASSUME TypeInv, KnownInv, OneWorker, [Next]_vars, NEW d \in Devs, d \notin disturbed,
         DevType[d] = "AntennaSwitch", NEW w \in Workers, Run(w), NEW s, NowIs(d, s)
  PROVE  NowIs(d, s)'
<1>a. /\ wpc \in [Workers -> {"idle", "take", "run", "set", "read", "emit", "deliver"}]
      /\ task \in [Workers -> [dev : Devs \cup {0}, no : 0..Len(received)]]
      /\ node_id \in [Devs -> Nodes \cup {NoNode}] /\ selected \in [Devs -> Values]
  BY DEF TypeInv, WorkOK, DevOK
<1>b. PICK f, r : f = task[w].no /\ r = received[f]
  OBVIOUS
<1>c. /\ wpc[w] = "run" /\ Running(w) /\ task[w].dev \in Devs
      /\ UNCHANGED <<received, selected>> /\ d # 0
  BY DEF Run, Running, TypeInv, WorkOK, busVars, Devs
<1>d. \/ Done(w)
      \/ wpc' = [wpc EXCEPT ![w] = "set"] /\ UNCHANGED <<task, node_id>>
         /\ f # NoFrame /\ r.kind = "REG_VALUE" /\ IsNewValue(task[w].dev, r)
      \/ wpc' = [wpc EXCEPT ![w] = "emit"] /\ UNCHANGED <<task, node_id>>
         /\ DevType[task[w].dev] = "ATU"
  BY <1>b DEF Run
<1>e. /\ \A x \in Workers : x # w => wpc'[x] = wpc[x] /\ task'[x] = task[x]
      /\ Done(w) => ~Busy(w, d)'
  BY <1>a, <1>d DEF Done, Busy, Running
<1>1. CASE task[w].dev # d
  <2>1. node_id'[d] = node_id[d]
    BY <1>1, <1>a, <1>c DEF Run
  <2>2. ~Busy(w, d) /\ ~Busy(w, d)'
    BY <1>1, <1>d, <1>e DEF Busy
  <2> QED BY <1>c, <1>e, <2>1, <2>2, NowOther
<1>2. CASE task[w].dev = d
  <2>1. Busy(w, d) /\ s = Effect(d, Shown(d), f)
    BY <1>2, <1>b, <1>c DEF Busy, NowIs, Ahead
  <2>2. CASE f # NoFrame /\ r.kind = "NODE_INFO"
    <3>1. /\ Done(w)
          /\ node_id' = IF NodeType[r.src] = "antenna_switch" THEN [node_id EXCEPT ![d] = r.src]
                        ELSE node_id
      BY <1>2, <1>b, <2>2 DEF Run, InfoTaken
    <3>2. s = IF NodeType[r.src] = "antenna_switch" THEN [Shown(d) EXCEPT !.node = r.src]
              ELSE Shown(d)
      BY <1>b, <2>1, <2>2 DEF Effect
    <3>3. s = Shown(d)'
      BY <1>a, <1>c, <3>1, <3>2 DEF Shown
    <3> QED BY <1>e, <2>1, <3>1, <3>3, NowMoved
  <2>3. CASE f # NoFrame /\ r.kind = "REG_VALUE" /\ IsNewValue(d, r)
    <3>1. wpc' = [wpc EXCEPT ![w] = "set"] /\ UNCHANGED <<task, node_id>>
      BY <1>2, <1>b, <2>3 DEF Run
    <3>2. s = [Shown(d) EXCEPT !.value = r.value]
      BY <1>b, <2>1, <2>3 DEF Effect, IsNewValue, Shown
    <3>3. Busy(w, d)' /\ s = Ahead(d, w)'
      BY <1>2, <1>a, <1>b, <1>c, <3>1, <3>2 DEF Busy, Running, Ahead, Shown
    <3> QED BY <1>e, <2>1, <3>3, NowMoved
  <2>4. CASE ~(f # NoFrame /\ r.kind = "NODE_INFO")
             /\ ~(f # NoFrame /\ r.kind = "REG_VALUE" /\ IsNewValue(d, r))
    <3>1. Done(w) /\ UNCHANGED node_id
      BY <1>2, <1>b, <2>4 DEF Run
    <3>2. f # NoFrame /\ r.kind = "REG_VALUE" /\ node_id[d] = r.src => r.value = selected[d]
      <4> SUFFICES ASSUME f # NoFrame, r.kind = "REG_VALUE", node_id[d] = r.src
                   PROVE  r.value = selected[d]
        OBVIOUS
      <4>1. r.src \in Nodes
        BY <1>b, TaskFrame DEF NoFrame
      <4>2. node_id[d] # NoNode
        BY <4>1, NodeMgrAssumption
      <4>3. node_type[<<r.src, nodes[r.src]>>] = "antenna_switch"
        BY <4>2 DEF KnownInv, NodeIdKnown, Known
      <4> QED BY <2>4, <4>3 DEF IsNewValue
    <3>3. Effect(d, Shown(d), f) = Shown(d)
      <4>1. CASE f # NoFrame /\ r.kind = "REG_VALUE" /\ node_id[d] = r.src
        <5>1. Effect(d, Shown(d), f) = [Shown(d) EXCEPT !.value = selected[d]]
          BY <1>b, <3>2, <4>1 DEF Effect, Shown
        <5> QED BY <5>1 DEF Shown
      <4>2. CASE ~(f # NoFrame /\ r.kind = "REG_VALUE" /\ node_id[d] = r.src)
        BY <1>b, <2>4, <4>2 DEF Effect, Shown
      <4> QED BY <4>1, <4>2
    <3>4. s = Shown(d)'
      BY <1>c, <2>1, <3>1, <3>3 DEF Shown
    <3> QED BY <1>e, <2>1, <3>1, <3>4, NowMoved
  <2> QED BY <2>2, <2>3, <2>4
<1> QED BY <1>1, <1>2

\* The other steps of a worker.
LEMMA WorkerNow ==
  ASSUME TypeInv, OneWorker, [Next]_vars, NEW d \in Devs, d \notin disturbed, NEW w \in Workers,
         Acquire(w) \/ SetSelected(w) \/ ReadState(w) \/ EmitBegin(w) \/ EmitEnd(w),
         NEW s, NowIs(d, s)
  PROVE  NowIs(d, s)'
<1>a. /\ wpc \in [Workers -> {"idle", "take", "run", "set", "read", "emit", "deliver"}]
      /\ task \in [Workers -> [dev : Devs \cup {0}, no : 0..Len(received)]]
      /\ node_id \in [Devs -> Nodes \cup {NoNode}] /\ selected \in [Devs -> Values]
  BY DEF TypeInv, WorkOK, DevOK
<1>b. UNCHANGED <<received, node_id>> /\ d # 0
  BY DEF Acquire, SetSelected, ReadState, EmitBegin, EmitEnd, busVars, devVars, Devs
<1>1. CASE Acquire(w)
  <2>1. ~Busy(w, d) /\ ~Busy(w, d)' /\ selected' = selected
        /\ \A x \in Workers : x # w => wpc'[x] = wpc[x] /\ task'[x] = task[x]
    BY <1>1, <1>a DEF Acquire, Busy, Running, devVars
  <2> QED BY <1>b, <2>1, NowOther
<1>2. CASE SetSelected(w)
  <2>1. /\ wpc[w] = "set" /\ wpc' = [wpc EXCEPT ![w] = "read"] /\ task' = task
        /\ selected' = [selected EXCEPT ![task[w].dev] = received[task[w].no].value]
    BY <1>2 DEF SetSelected
  <2>2. CASE task[w].dev # d
    BY <1>a, <1>b, <2>1, <2>2, NowOther DEF Busy
  <2>3. CASE task[w].dev = d
    <3>1. Busy(w, d) /\ Busy(w, d)' /\ s = [Shown(d) EXCEPT !.value = received[task[w].no].value]
      BY <1>a, <2>1, <2>3 DEF Busy, Running, NowIs, Ahead
    <3>2. s = Shown(d)' /\ Ahead(d, w)' = Shown(d)'
      BY <1>a, <1>b, <2>1, <2>3, <3>1 DEF Shown, Ahead
    <3> QED BY <1>a, <2>1, <3>1, <3>2, NowMoved
  <2> QED BY <2>2, <2>3
<1>3. CASE ReadState(w) \/ EmitBegin(w) \/ EmitEnd(w)
  <2>1. /\ wpc[w] \in {"read", "emit", "deliver"} /\ selected' = selected
        /\ \/ wpc' = [wpc EXCEPT ![w] = "emit"] /\ task' = task
           \/ wpc' = [wpc EXCEPT ![w] = "deliver"] /\ task' = task
           \/ wpc' = [wpc EXCEPT ![w] = "idle"] /\ task' = [task EXCEPT ![w] = NoTask]
    BY <1>3 DEF ReadState, EmitBegin, EmitEnd, Done, devVars
  <2>2. \A x \in Workers : x # w => wpc'[x] = wpc[x] /\ task'[x] = task[x]
    BY <1>a, <2>1
  <2>3. CASE task[w].dev # d
    <3>1. ~Busy(w, d) /\ ~Busy(w, d)'
      BY <1>a, <1>b, <2>1, <2>3 DEF Busy, Running
    <3> QED BY <1>b, <2>1, <2>2, <3>1, NowOther
  <2>4. CASE task[w].dev = d
    <3>1. Busy(w, d) /\ s = Shown(d) /\ Shown(d)' = Shown(d)
      BY <1>a, <1>b, <2>1, <2>4 DEF Busy, Running, NowIs, Ahead, Shown
    <3>2. Busy(w, d)' => Ahead(d, w)' = Shown(d)'
      BY <1>a, <2>1 DEF Ahead
    <3> QED BY <2>2, <3>1, <3>2, NowMoved
  <2> QED BY <2>3, <2>4
<1> QED BY <1>1, <1>2, <1>3

\* No device has a task or a value.
LEMMA InitChain == Init => OneWorker /\ OthersOK /\ ChainInv
<1> SUFFICES ASSUME Init PROVE OneWorker /\ OthersOK /\ ChainInv
  OBVIOUS
<1>1. \A w \in Workers : ~Running(w)
  BY DEF Init, Running
<1>2. OneWorker
  BY <1>1 DEF OneWorker, Busy
<1>3. OthersOK
  BY NodeMgrAssumption DEF Init, OthersOK, States
<1>4. ASSUME NEW d \in Devs
      PROVE \E h : Forward(d, task_queue, h) /\ NowIs(d, h[0]) /\ h[Len(task_queue)] = expected[d]
  <2>1. task_queue = <<>> /\ Len(task_queue) = 0
    BY DEF Init
  <2>2. PICK h : h = [i \in 0..0 |-> expected[d]]
    OBVIOUS
  <2>3. expected[d] = Shown(d) /\ expected[d] \in States
    BY <1>3 DEF Init, Shown, OthersOK
  <2>4. h \in [0..0 -> States] /\ h[0] = expected[d]
    BY <2>2, <2>3
  <2>5. Forward(d, task_queue, h)
    BY <2>1, <2>4 DEF Forward
  <2>6. NowIs(d, h[0])
    BY <1>1, <2>3, <2>4 DEF NowIs, Busy
  <2> QED BY <2>1, <2>4, <2>5, <2>6
<1> QED BY <1>2, <1>3, <1>4 DEF ChainInv

\* Only antenna switches are given a value, by their tasks and by the history.
LEMMA NextOthers == ASSUME TypeInv, OthersOK, [Next]_vars PROVE OthersOK'
<1>a. /\ wpc \in [Workers -> {"idle", "take", "run", "set", "read", "emit", "deliver"}]
      /\ task \in [Workers -> [dev : Devs \cup {0}, no : 0..Len(received)]]
      /\ selected \in [Devs -> Values] /\ expected \in [Devs -> States]
  BY DEF TypeInv, WorkOK, DevOK, OthersOK
<1>1. CASE Push
  <2>1. PICK t : t = Head(batch)
    OBVIOUS
  <2>2. /\ expected' = [expected EXCEPT ![t.dev] = After(t.dev, t.no)]
        /\ UNCHANGED <<selected, wpc, task>>
    BY <1>1, <2>1 DEF Push, workVars, devVars
  <2>3. t.dev \in Devs /\ t.no \in 0..Len(received)
    <3>1. t \in Tasks
      BY <1>1, <2>1, HeadTailProperties DEF TypeInv, UpdateOK, Push
    <3> QED BY <3>1 DEF Tasks
  <2>4. PICK s \in States : s = expected[t.dev]
    BY <1>a, <2>3
  <2>5. After(t.dev, t.no) = Effect(t.dev, s, t.no)
    BY <2>4 DEF After, Effect
  <2>6. After(t.dev, t.no) \in States
    BY <2>3, <2>5, EffectFacts
  <2>7. DevType[t.dev] # "AntennaSwitch" => After(t.dev, t.no) = expected[t.dev]
    BY DEF After
  <2> QED BY <1>a, <2>2, <2>6, <2>7 DEF OthersOK, States
<1>2. ASSUME NEW w \in Workers, Run(w) PROVE OthersOK'
  <2>1. /\ UNCHANGED <<expected, selected>>
        /\ \/ wpc' = [wpc EXCEPT ![w] = "idle"] /\ task' = [task EXCEPT ![w] = NoTask]
           \/ wpc' = [wpc EXCEPT ![w] = "set"] /\ task' = task
              /\ IsNewValue(task[w].dev, received[task[w].no])
           \/ wpc' = [wpc EXCEPT ![w] = "emit"] /\ task' = task
    BY <1>2 DEF Run, Done
  <2>2. \A x \in Workers : wpc'[x] = "set" => DevType[task'[x].dev] = "AntennaSwitch"
    BY <1>a, <2>1 DEF OthersOK, IsNewValue
  <2> QED BY <2>1, <2>2 DEF OthersOK, States
<1>3. ASSUME NEW w \in Workers, SetSelected(w) PROVE OthersOK'
  <2>1. /\ wpc[w] = "set" /\ wpc' = [wpc EXCEPT ![w] = "read"] /\ UNCHANGED <<task, expected>>
        /\ selected' = [selected EXCEPT ![task[w].dev] = received[task[w].no].value]
    BY <1>3 DEF SetSelected
  <2>2. DevType[task[w].dev] = "AntennaSwitch"
    BY <2>1 DEF OthersOK
  <2>3. \A d \in Devs : DevType[d] # "AntennaSwitch" => selected'[d] = selected[d]
    BY <1>a, <2>1, <2>2
  <2>4. \A x \in Workers : wpc'[x] = "set" => DevType[task'[x].dev] = "AntennaSwitch"
    BY <1>a, <2>1 DEF OthersOK
  <2> QED BY <2>1, <2>3, <2>4 DEF OthersOK, States
<1>4. ASSUME NEW w \in Workers,
             Acquire(w) \/ Take(w) \/ ReadState(w) \/ EmitBegin(w) \/ EmitEnd(w)
      PROVE  OthersOK'
  <2>1. /\ UNCHANGED <<expected, selected>>
        /\ \E l \in {"idle", "take", "run", "emit", "deliver"} : wpc' = [wpc EXCEPT ![w] = l]
        /\ \E t : task' = [task EXCEPT ![w] = t] \/ task' = task
    BY <1>4 DEF Acquire, Take, ReadState, EmitBegin, EmitEnd, Done, devVars
  <2>2. \A x \in Workers : wpc'[x] = "set" => wpc[x] = "set" /\ task'[x] = task[x]
    BY <1>a, <2>1
  <2> QED BY <2>1, <2>2 DEF OthersOK, States
<1>5. ASSUME ~Push, \A w \in Workers : ~Worker(w) PROVE UNCHANGED <<expected, selected, wpc, task>>
  BY <1>5 DEF Next, OnFrameRecv, NotifyOne, Deadline, UpdateThread, WaitUntil, TimedOut, CheckNode,
     CreateNode, InitNode, Dispatch, Release, MainThread, LoadFile, AddDev, CheckDependency,
     CreateDependency, AddDependent, Serve, Attach, Detach, vars, devVars, workVars
<1>6. CASE UNCHANGED <<expected, selected, wpc, task>>
  BY <1>6 DEF OthersOK, States
<1> QED BY <1>1, <1>2, <1>3, <1>4, <1>5, <1>6 DEF Worker

\* Tasks reach the device in the order of the frames, none lost and none twice.
LEMMA NextChain ==
  ASSUME TypeInv, KnownInv, OneWorker, OthersOK, ChainInv, [Next]_vars
  PROVE  ChainInv'
<1> SUFFICES ASSUME NEW d \in Devs, d \notin disturbed', DevType[d] = "AntennaSwitch"
             PROVE  \E g : /\ Forward(d, task_queue, g)' /\ NowIs(d, g[0])'
                           /\ g[Len(task_queue')] = expected'[d]
  BY DEF ChainInv
<1>0. d \notin disturbed
  BY DisturbedGrows
<1>1. PICK h, s, e : /\ Forward(d, task_queue, h) /\ NowIs(d, s) /\ s = h[0]
                     /\ e = expected[d] /\ h[Len(task_queue)] = e
  BY <1>0 DEF ChainInv
<1>2. PICK q \in Seq(Tasks) : q = task_queue
  BY DEF TypeInv, QueueOK
<1>3. Forward(d, q, h)'
  BY <1>1, <1>2, ForwardKept
<1>4. ASSUME UNCHANGED <<task_queue, expected>>, NowIs(d, s)'
      PROVE  \E g : /\ Forward(d, task_queue, g)' /\ NowIs(d, g[0])'
                    /\ g[Len(task_queue')] = expected'[d]
  BY <1>1, <1>2, <1>3, <1>4
<1>5. CASE Push
  <2>1. PICK t : t = Head(batch)
    OBVIOUS
  <2>2. /\ task_queue' = Append(q, t) /\ UNCHANGED <<wpc, task, node_id, selected>>
        /\ expected' = [expected EXCEPT ![t.dev] = After(t.dev, t.no)]
    BY <1>2, <1>5, <2>1 DEF Push, workVars, devVars
  <2>3. t \in Tasks
    BY <1>5, <2>1, HeadTailProperties DEF TypeInv, UpdateOK, Push
  <2>4. PICK g : /\ Forward(d, Append(q, t), g) /\ g[0] = s
                 /\ g[Len(q) + 1] = IF t.dev = d THEN Effect(d, e, t.no) ELSE e
    BY <1>1, <1>2, <2>3, ForwardPush
  <2>5. Len(Append(q, t)) = Len(q) + 1 /\ Append(q, t) \in Seq(Tasks)
    BY <2>3, AppendProperties
  <2>6. Forward(d, Append(q, t), g)'
    BY <2>4, <2>5, ForwardKept
  <2>7. expected'[d] = IF t.dev = d THEN Effect(d, e, t.no) ELSE e
    <3>1. expected \in [Devs -> States]
      BY DEF OthersOK
    <3>2. t.dev = d => After(t.dev, t.no) = Effect(d, e, t.no)
      BY <1>1 DEF After, Effect
    <3> QED BY <1>1, <2>2, <3>1, <3>2
  <2>8. NowIs(d, s)'
    BY <1>1, <2>2, NowKept DEF Busy, Running
  <2>9. Forward(d, task_queue, g)'
    BY <2>2, <2>6
  <2> QED BY <2>2, <2>4, <2>5, <2>7, <2>8, <2>9
<1>6. ASSUME NEW w \in Workers, Take(w)
      PROVE  \E g : /\ Forward(d, task_queue, g)' /\ NowIs(d, g[0])'
                    /\ g[Len(task_queue')] = expected'[d]
  <2>1. PICK t : t = Head(q)
    OBVIOUS
  <2>2. /\ q # <<>> /\ task_queue' = Tail(q) /\ UNCHANGED <<node_id, selected, expected>>
        /\ task' = [task EXCEPT ![w] = t] /\ wpc' = [wpc EXCEPT ![w] = "run"] /\ wpc[w] = "take"
        /\ t.dev = d => \A x \in Workers : ~Busy(x, d)
    BY <1>2, <1>6, <2>1 DEF Take, devVars, Busy
  <2>3. Tail(q) \in Seq(Tasks) /\ t \in Tasks
    BY <2>1, <2>2, HeadTailProperties
  <2>4. PICK g, u : /\ Forward(d, Tail(q), g) /\ g[Len(Tail(q))] = e /\ u = g[0]
                    /\ u = IF t.dev = d THEN Effect(d, s, t.no) ELSE s
    BY <1>1, <1>2, <2>1, <2>2, ForwardPop
  <2>5. Forward(d, Tail(q), g)'
    BY <2>3, <2>4, ForwardKept
  <2>6. /\ wpc \in [Workers -> {"idle", "take", "run", "set", "read", "emit", "deliver"}]
        /\ task \in [Workers -> [dev : Devs \cup {0}, no : 0..Len(received)]]
    BY DEF TypeInv, WorkOK
  <2>7. NowIs(d, u)'
    <3>1. CASE t.dev = d
      <4>1. s = Shown(d) /\ s \in States /\ Shown(d)' = s
        BY <1>1, <2>2, <3>1 DEF NowIs, Shown, States, TypeInv, DevOK
      <4>2. Effect(d, s, t.no)' = u
        BY <2>3, <2>4, <3>1, <4>1, EffectFacts DEF Tasks
      <4>3. Ahead(d, w)' = u
        BY <2>2, <2>6, <4>1, <4>2 DEF Ahead
      <4>4. \A x \in Workers : Busy(x, d)' <=> x = w
        BY <2>2, <2>6, <3>1 DEF Busy, Running
      <4> QED BY <4>3, <4>4 DEF NowIs
    <3>2. CASE t.dev # d
      <4>1. ~Busy(w, d) /\ ~Busy(w, d)'
            /\ \A x \in Workers : x # w => wpc'[x] = wpc[x] /\ task'[x] = task[x]
        BY <2>2, <2>6, <3>2 DEF Busy, Running
      <4> QED BY <1>1, <2>2, <2>4, <3>2, <4>1, NowOther
    <3> QED BY <3>1, <3>2
  <2>8. Forward(d, task_queue, g)'
    BY <2>2, <2>5
  <2> QED BY <1>1, <2>2, <2>4, <2>7, <2>8
<1>7. ASSUME NEW w \in Workers, Worker(w), ~Take(w)
      PROVE  NowIs(d, s)' /\ UNCHANGED <<task_queue, expected>>
  <2>1. UNCHANGED <<task_queue, expected>>
    BY <1>7 DEF Worker, Acquire, Run, SetSelected, ReadState, EmitBegin, EmitEnd, queueVars
  <2> QED BY <1>0, <1>1, <1>7, <2>1, RunNow, WorkerNow DEF Worker
<1>8. ASSUME ~Push, \A w \in Workers : ~Worker(w)
      PROVE  UNCHANGED <<task_queue, expected, node_id, selected, wpc, task>>
  BY <1>8 DEF Next, OnFrameRecv, NotifyOne, Deadline, UpdateThread, WaitUntil, TimedOut, CheckNode,
     CreateNode, InitNode, Dispatch, Release, MainThread, LoadFile, AddDev, CheckDependency,
     CreateDependency, AddDependent, Serve, Attach, Detach, vars, devVars, workVars, queueVars
<1>9. ASSUME UNCHANGED <<task_queue, expected, node_id, selected, wpc, task>>
      PROVE  NowIs(d, s)'
  BY <1>1, <1>9, NowKept DEF Busy, Running
<1> QED BY <1>4, <1>5, <1>6, <1>7, <1>8, <1>9

-----------------------------------------------------------------------------
(* What the observers were told. *)

\* A new observer was told nothing, and emit_dev_state goes through all of them; what
\* is emitted about an undisturbed antenna switch is its value, and once a value is
\* set and emitted, the observers have it.
ToldInv ==
  /\ \A o \in Observers : obs[o] = "none" => \A d \in Devs : notified[o][d] = {}
  /\ \A w \in Workers : wpc[w] = "deliver" =>
       \A o \in Observers : obs[o] = "attached" => o \in emitting[w]
  /\ \A d \in Devs \ disturbed : DevType[d] = "AntennaSwitch" =>
       /\ \A w \in Workers : Busy(w, d) /\ wpc[w] \in {"emit", "deliver"} => state[w] = selected[d]
       /\ (\A w \in Workers : Busy(w, d) => wpc[w] \in {"run", "set"}) =>
            \A o \in Observers : obs[o] = "attached" => notified[o][d] \subseteq {selected[d]}

\* Nobody listens.
LEMMA InitTold == Init => ToldInv
  BY DEF Init, ToldInv, Busy, Running

\* The steps of a worker.
LEMMA WorkerTold ==
  ASSUME TypeInv, OneWorker, NoDeletedObserverTold, ToldInv, [Next]_vars,
         NEW w \in Workers, Worker(w)
  PROVE  ToldInv'
<1>a. /\ wpc \in [Workers -> {"idle", "take", "run", "set", "read", "emit", "deliver"}]
      /\ task \in [Workers -> [dev : Devs \cup {0}, no : 0..Len(received)]]
      /\ state \in [Workers -> Values] /\ selected \in [Devs -> Values]
      /\ emitting \in [Workers -> SUBSET Observers]
      /\ notified \in [Observers -> [Devs -> SUBSET Values]]
  BY DEF TypeInv, WorkOK, DevOK, ObsOK
<1>b. disturbed \subseteq disturbed' /\ obs' = obs
  BY DisturbedGrows DEF Worker, Acquire, Take, Run, SetSelected, ReadState, EmitBegin, EmitEnd,
     obsVars
<1>c. \A d \in Devs : d # 0
  BY DEF Devs
<1>1. CASE Take(w)
  <2>1. /\ UNCHANGED <<state, selected, obs, emitting, notified>> /\ wpc[w] = "take"
        /\ wpc' = [wpc EXCEPT ![w] = "run"] /\ task' = [task EXCEPT ![w] = Head(task_queue)]
    BY <1>1 DEF Take, devVars, obsVars
  <2>2. \A d \in Devs : \A x \in Workers : x # w => (Busy(x, d)' <=> Busy(x, d)) /\ wpc'[x] = wpc[x]
    BY <1>a, <2>1 DEF Busy, Running
  <2>3. wpc'[w] = "run" /\ \A d \in Devs : ~Busy(w, d)
    BY <1>a, <2>1 DEF Busy, Running
  <2>4. \A x \in Workers : wpc'[x] = "deliver" => wpc[x] = "deliver"
    BY <1>a, <2>1
  <2> QED BY <1>b, <2>1, <2>2, <2>3, <2>4 DEF ToldInv
<1>2. CASE Acquire(w) \/ Run(w)
  <2>1. /\ UNCHANGED <<selected, obs, emitting, notified>> /\ wpc[w] \in {"idle", "run"}
        /\ \/ wpc[w] = "idle" /\ wpc' = [wpc EXCEPT ![w] = "take"] /\ UNCHANGED <<task, state>>
           \/ wpc[w] = "run" /\ wpc' = [wpc EXCEPT ![w] = "set"] /\ UNCHANGED <<task, state>>
           \/ wpc[w] = "run" /\ wpc' = [wpc EXCEPT ![w] = "emit"] /\ UNCHANGED <<task, state>>
              /\ DevType[task[w].dev] = "ATU"
           \/ wpc[w] = "run" /\ wpc' = [wpc EXCEPT ![w] = "idle"]
              /\ task' = [task EXCEPT ![w] = NoTask] /\ state' = [state EXCEPT ![w] = 0]
    BY <1>2 DEF Acquire, Run, Done, devVars, obsVars
  <2>2. \A d \in Devs : \A x \in Workers :
          x # w => (Busy(x, d)' <=> Busy(x, d)) /\ wpc'[x] = wpc[x] /\ state'[x] = state[x]
    BY <1>a, <2>1 DEF Busy, Running
  <2>3. /\ wpc'[w] # "deliver"
        /\ \A d \in Devs : DevType[d] = "AntennaSwitch" =>
             /\ Busy(w, d) => wpc[w] \in {"run", "set"}
             /\ Busy(w, d)' => wpc'[w] \in {"run", "set"}
    BY <1>a, <2>1 DEF Busy, Running
  <2>4. \A x \in Workers : wpc'[x] = "deliver" => wpc[x] = "deliver"
    BY <1>a, <2>1
  <2> QED BY <1>b, <2>1, <2>2, <2>3, <2>4 DEF ToldInv
<1>3. CASE SetSelected(w)
  <2>1. /\ UNCHANGED <<task, state, obs, emitting, notified>> /\ wpc[w] = "set"
        /\ wpc' = [wpc EXCEPT ![w] = "read"]
        /\ selected' = [selected EXCEPT ![task[w].dev] = received[task[w].no].value]
    BY <1>3 DEF SetSelected, obsVars
  <2>2. \A d \in Devs : \A x \in Workers :
          x # w => (Busy(x, d)' <=> Busy(x, d)) /\ wpc'[x] = wpc[x]
    BY <1>a, <2>1 DEF Busy, Running
  <2>3. /\ wpc'[w] = "read" /\ \A d \in Devs : Busy(w, d) <=> task[w].dev = d
        /\ \A d \in Devs : Busy(w, d)' <=> task[w].dev = d
        /\ \A d \in Devs : d # task[w].dev => selected'[d] = selected[d]
    BY <1>a, <2>1 DEF Busy, Running
  <2>4. ASSUME NEW d \in Devs, d \notin disturbed', DevType[d] = "AntennaSwitch"
        PROVE  /\ \A x \in Workers : Busy(x, d)' /\ wpc'[x] \in {"emit", "deliver"}
                                       => state'[x] = selected'[d]
               /\ (\A x \in Workers : Busy(x, d)' => wpc'[x] \in {"run", "set"}) =>
                    \A o \in Observers : obs'[o] = "attached" => notified'[o][d] \subseteq {selected'[d]}
    <3>0. d \notin disturbed
      BY <1>b, <2>4
    <3>1. CASE d = task[w].dev
      BY <2>1, <2>2, <2>3, <3>0, <3>1 DEF OneWorker
    <3>2. CASE d # task[w].dev
      BY <2>1, <2>2, <2>3, <2>4, <3>0, <3>2 DEF ToldInv
    <3> QED BY <3>1, <3>2
  <2>5. \A x \in Workers : wpc'[x] = "deliver" => wpc[x] = "deliver"
    BY <1>a, <2>1
  <2> QED BY <2>1, <2>4, <2>5 DEF ToldInv
<1>4. CASE ReadState(w) \/ EmitBegin(w)
  <2>1. /\ UNCHANGED <<task, selected, obs, notified>>
        /\ \/ /\ wpc[w] = "read" /\ wpc' = [wpc EXCEPT ![w] = "emit"]
              /\ state' = [state EXCEPT ![w] = selected[task[w].dev]] /\ emitting' = emitting
           \/ /\ wpc[w] = "emit" /\ wpc' = [wpc EXCEPT ![w] = "deliver"] /\ state' = state
              /\ emitting' = [emitting EXCEPT ![w] = {o \in Observers : obs[o] = "attached"}]
    BY <1>4 DEF ReadState, EmitBegin, devVars, obsVars
  <2>2. \A d \in Devs : \A x \in Workers :
          x # w => /\ Busy(x, d)' <=> Busy(x, d)
                   /\ wpc'[x] = wpc[x] /\ state'[x] = state[x] /\ emitting'[x] = emitting[x]
    BY <1>a, <2>1 DEF Busy, Running
  <2>3. /\ wpc[w] \in {"read", "emit"} /\ wpc'[w] \in {"emit", "deliver"}
        /\ \A d \in Devs : /\ Busy(w, d) <=> task[w].dev = d
                           /\ Busy(w, d)' <=> task[w].dev = d
                           /\ wpc'[w] = "emit" => (Busy(w, d)' => state'[w] = selected[d])
    BY <1>a, <2>1 DEF Busy, Running
  <2>4. \A x \in Workers : wpc'[x] = "deliver" =>
          \A o \in Observers : obs[o] = "attached" => o \in emitting'[x]
    <3>1. ASSUME NEW x \in Workers, x # w
          PROVE  wpc'[x] = wpc[x] /\ emitting'[x] = emitting[x]
      BY <1>a, <2>1, <3>1
    <3>2. wpc'[w] = "deliver" => emitting'[w] = {o \in Observers : obs[o] = "attached"}
      BY <1>a, <2>1
    <3> QED BY <3>1, <3>2 DEF ToldInv
  <2>5. wpc'[w] = "deliver" => wpc[w] = "emit" /\ state'[w] = state[w]
    BY <1>a, <2>1
  <2> QED BY <1>b, <2>1, <2>2, <2>3, <2>4, <2>5 DEF ToldInv
<1>5. CASE EmitEnd(w)
  <2>1. /\ wpc[w] = "deliver" /\ wpc' = [wpc EXCEPT ![w] = "idle"]
        /\ task' = [task EXCEPT ![w] = NoTask] /\ state' = [state EXCEPT ![w] = 0]
        /\ emitting' = [emitting EXCEPT ![w] = {}] /\ UNCHANGED <<selected, obs>>
        /\ notified' = [o \in Observers |->
                          IF o \in emitting[w] THEN [notified[o] EXCEPT ![task[w].dev] = {state[w]}]
                          ELSE notified[o]]
    BY <1>5 DEF EmitEnd, Done, devVars
  <2>2. \A d \in Devs : \A x \in Workers :
          x # w => /\ Busy(x, d)' <=> Busy(x, d)
                   /\ wpc'[x] = wpc[x] /\ state'[x] = state[x] /\ emitting'[x] = emitting[x]
    BY <1>a, <2>1 DEF Busy, Running
  <2>3. /\ wpc'[w] = "idle" /\ \A d \in Devs : ~Busy(w, d)' /\ (Busy(w, d) <=> task[w].dev = d)
    BY <1>a, <2>1 DEF Busy, Running
  <2>4. \A o \in Observers : \A d \in Devs :
          notified'[o][d] = IF o \in emitting[w] /\ d = task[w].dev THEN {state[w]}
                            ELSE notified[o][d]
    BY <1>a, <2>1
  <2>5. \A o \in Observers : obs'[o] = "none" => \A d \in Devs : notified'[o][d] = {}
    BY <2>1, <2>4 DEF ToldInv, NoDeletedObserverTold
  <2>6. \A x \in Workers : wpc'[x] = "deliver" =>
          \A o \in Observers : obs'[o] = "attached" => o \in emitting'[x]
    BY <1>a, <2>1 DEF ToldInv
  <2>7. ASSUME NEW d \in Devs, d \notin disturbed', DevType[d] = "AntennaSwitch"
        PROVE  /\ \A x \in Workers : Busy(x, d)' /\ wpc'[x] \in {"emit", "deliver"}
                                       => state'[x] = selected'[d]
               /\ (\A x \in Workers : Busy(x, d)' => wpc'[x] \in {"run", "set"}) =>
                    \A o \in Observers : obs'[o] = "attached" => notified'[o][d] \subseteq {selected'[d]}
    <3>0. d \notin disturbed
      BY <1>b, <2>7
    <3>1. \A x \in Workers : Busy(x, d)' /\ wpc'[x] \in {"emit", "deliver"} => state'[x] = selected'[d]
      BY <2>1, <2>2, <2>3, <2>7, <3>0 DEF ToldInv
    <3>2. CASE d = task[w].dev
      <4>1. state[w] = selected[d] /\ \A o \in Observers : obs[o] = "attached" => o \in emitting[w]
        BY <2>1, <2>3, <2>7, <3>0, <3>2 DEF ToldInv
      <4> QED BY <2>1, <2>4, <3>1, <3>2, <4>1
    <3>3. CASE d # task[w].dev
      <4>1. \A o \in Observers : notified'[o][d] = notified[o][d]
        BY <2>4, <3>3
      <4> QED BY <2>1, <2>2, <2>3, <2>7, <3>0, <3>1, <3>3, <4>1 DEF ToldInv
    <3> QED BY <3>2, <3>3
  <2> QED BY <2>5, <2>6, <2>7 DEF ToldInv
<1> QED BY <1>1, <1>2, <1>3, <1>4, <1>5 DEF Worker

\* All steps: an observer comes or goes while nobody delivers.
LEMMA NextTold ==
  ASSUME TypeInv, OneWorker, NoDeletedObserverTold, ToldInv, [Next]_vars
  PROVE  ToldInv'
<1>1. ASSUME NEW o \in Observers, Attach(o) \/ Detach(o) PROVE ToldInv'
  <2>1. /\ UNCHANGED <<wpc, task, state, selected, emitting, notified, disturbed>>
        /\ \A w \in Workers : wpc[w] # "deliver"
        /\ \A p \in Observers : p # o => obs'[p] = obs[p]
        /\ obs'[o] = "deleted" \/ (obs'[o] = "attached" /\ obs[o] = "none")
    BY <1>1 DEF Attach, Detach, Emitter, workVars, devVars, TypeInv, ObsOK
  <2>2. \A d \in Devs : \A w \in Workers : Busy(w, d)' <=> Busy(w, d)
    BY <2>1 DEF Busy, Running
  <2> QED BY <2>1, <2>2 DEF ToldInv
<1>2. CASE UNCHANGED <<wpc, task, state, selected, obs, emitting, notified>>
  <2>1. disturbed \subseteq disturbed' /\ \A d \in Devs : \A w \in Workers : Busy(w, d)' <=> Busy(w, d)
    BY <1>2, DisturbedGrows DEF Busy, Running
  <2> QED BY <1>2, <2>1 DEF ToldInv
<1>3. ASSUME \A w \in Workers : ~Worker(w), ~(\E o \in Observers : Attach(o) \/ Detach(o))
      PROVE  UNCHANGED <<wpc, task, state, selected, obs, emitting, notified>>
  BY <1>3 DEF Next, OnFrameRecv, NotifyOne, Deadline, UpdateThread, WaitUntil, TimedOut, CheckNode,
     CreateNode, InitNode, Dispatch, Push, Release, MainThread, LoadFile, AddDev, CheckDependency,
     CreateDependency, AddDependent, Serve, vars, devVars, workVars, obsVars
<1> QED BY <1>1, <1>2, <1>3, WorkerTold

\* For any nodes, devices, workers, observers and frames: when nothing about a device is
\* left to do, it shows what the frames said last, and an observer that is attached was
\* told that last or nothing; unless two workers ran the device at once or its Node
\* object was created twice.
THEOREM DevicesLatest == Spec => []DevStateIsLatest
<1>1. ASSUME TypeInv, OneWorker, OthersOK, ChainInv, ToldInv PROVE DevStateIsLatest
  <2> SUFFICES ASSUME NEW d \in Devs, d \notin disturbed, Settled(d)
               PROVE  /\ selected[d] = expected[d].value
                      /\ DevType[d] = "AntennaSwitch" =>
                           \A o \in Observers : obs[o] = "attached" => notified[o][d] \subseteq {selected[d]}
    BY DEF DevStateIsLatest
  <2>1. CASE DevType[d] # "AntennaSwitch"
    BY <1>1, <2>1 DEF OthersOK
  <2>2. CASE DevType[d] = "AntennaSwitch"
    <3>1. PICK h : /\ Forward(d, task_queue, h) /\ NowIs(d, h[0])
                   /\ h[Len(task_queue)] = expected[d]
      BY <1>1, <2>2 DEF ChainInv
    <3>2. h[Len(task_queue)] = h[0]
      BY <1>1, <3>1, ForwardSettled DEF Settled, TypeInv, QueueOK
    <3>3. \A w \in Workers : ~Busy(w, d)
      BY DEF Settled, Busy
    <3>4. expected[d] = Shown(d)
      BY <3>1, <3>2, <3>3 DEF NowIs
    <3>5. selected[d] = expected[d].value
      BY <3>4 DEF Shown
    <3> QED BY <1>1, <2>2, <3>3, <3>5 DEF ToldInv
  <2> QED BY <2>1, <2>2
<1> QED
  BY <1>1, InitKnown, NextKnown, InitChain, NextOneWorker, NextOthers, NextChain, InitTold,
     NextTold, TypeInvariant, ObserversSafe, PTL DEF Spec
=============================================================================

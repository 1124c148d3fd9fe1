------------------------------- MODULE Startup -------------------------------
(***************************************************************************)
(* main of h9d (src/h9d/h9d.cc) and H9dConfigurator: from the command line *)
(* and the configuration file to a daemon that serves, or to an exit.  The *)
(* calls of main are the elements of Main, in its order; each is an action *)
(* that takes the program counter to the next one.                         *)
(*                                                                         *)
(* Loggers are abstracted to whether their file can be opened.             *)
(***************************************************************************)
EXTENDS Naturals, Sequences

CONSTANT
  Starts     \* how the daemon may be started: [args, cfg, root], see StartType

\* driver of a section, none if the option is missing; complete says that the
\* options the driver needs are there.
SectionType == [driver : {"loop", "udp", "virtual", "SLCAN", "SocketCAN", "other", "none"},
                complete : BOOLEAN]

\* readable: cfg_parse succeeds, with the values the validators accept.
ConfigType ==
  [readable : BOOLEAN, daemonize : BOOLEAN, pidfile : BOOLEAN, setuid : BOOLEAN, setgid : BOOLEAN,
   virtual : {"absent", "complete", "no module", "no id", "no type"},
   endpoints : Seq(SectionType)]
ArgType == [bad : BOOLEAN, help : BOOLEAN, daemonize : BOOLEAN, foreground : BOOLEAN,
            pidfile : BOOLEAN, logfile : BOOLEAN]

StartType == [args : ArgType, cfg : ConfigType, root : BOOLEAN]

ASSUME StartupAssumption == Starts \subseteq StartType

VARIABLES
  args, cfg, root,  \* the environment: fixed at the start
  step,         \* position in Main
  status,       \* "running", "exited" (exit), "aborted" (an exception nothing catches)
  pid,          \* "parent", or "daemon" after daemon()
  pid_file,     \* the pid saved, or "none"
  uid, gid,     \* "initial" or "dropped"
  configured,   \* VirtualEndpoint::is_configured
  section,      \* endpoint sections handled by configure_bus
  endpoints,    \* sockets of the bus: one per section, "virtual" is one and the same
  threads       \* threads started

startVars == <<args, cfg, root, step, status, pid, pid_file, uid, gid, configured, section,
               endpoints, threads>>
environment == <<args, cfg, root>>

\* Mutant: the pid is saved, and privileges are dropped, before the fork.
MainPidFirst ==
  <<"parse_command_line_arg", "logger_initial_setup", "load_configuration", "logger_setup",
    "save_pid", "drop_privileges", "daemonize", "configure_virtual_endpoint",
    "configure_bus", "bus.activate", "virtual_endpoint.activate", "NodeMgr",
    "configure_devices_mgr", "discover", "server.run">>

Main ==
  <<"parse_command_line_arg", "logger_initial_setup", "load_configuration", "logger_setup",
    "daemonize", "save_pid", "drop_privileges", "configure_virtual_endpoint",
    "configure_bus", "bus.activate", "virtual_endpoint.activate", "NodeMgr",
    "configure_devices_mgr", "discover", "server.run">>

StartInit ==
  /\ \E s \in Starts : args = s.args /\ cfg = s.cfg /\ root = s.root
  /\ step = 1 /\ status = "running"
  /\ pid = "parent" /\ pid_file = "none" /\ uid = "initial" /\ gid = "initial"
  /\ configured = FALSE /\ section = 0 /\ endpoints = {} /\ threads = {}

At(call) == status = "running" /\ Main[step] = call
Continue == step' = step + 1 /\ UNCHANGED status
Exit == status' = "exited" /\ UNCHANGED step
Abort == status' = "aborted" /\ UNCHANGED step

\* Bad options, -h and -V end the program.
ParseCommandLineArg ==
  /\ At("parse_command_line_arg")
  /\ IF args.bad \/ args.help THEN Exit ELSE Continue
  /\ UNCHANGED <<environment, pid, pid_file, uid, gid, configured, section, endpoints, threads>>

\* -l: a log file that cannot be opened ends the program.
LoggerInitialSetup ==
  /\ At("logger_initial_setup")
  /\ Continue \/ (args.logfile /\ Exit)
  /\ UNCHANGED <<environment, pid, pid_file, uid, gid, configured, section, endpoints, threads>>

LoadConfiguration ==
  /\ At("load_configuration")
  /\ IF cfg.readable THEN Continue ELSE Exit
  /\ UNCHANGED <<environment, pid, pid_file, uid, gid, configured, section, endpoints, threads>>

\* The other loggers: frames_logfile that cannot be opened only disables it.
LoggerSetup ==
  /\ At("logger_setup")
  /\ Continue
  /\ UNCHANGED <<environment, pid, pid_file, uid, gid, configured, section, endpoints, threads>>

InBackground == ~args.foreground /\ (args.daemonize \/ cfg.daemonize)

\* -f wins over -d and the file. daemon() forks: only this thread goes on, as
\* another process.
Daemonize ==
  /\ At("daemonize")
  /\ IF InBackground
     THEN \/ Continue /\ pid' = "daemon" /\ threads' = {}
          \/ Exit /\ UNCHANGED <<pid, threads>>
     ELSE Continue /\ UNCHANGED <<pid, threads>>
  /\ UNCHANGED <<environment, pid_file, uid, gid, configured, section, endpoints>>

\* -p wins over the file; a file that cannot be written is only reported.
SavePid ==
  /\ At("save_pid")
  /\ Continue
  /\ pid_file' \in IF args.pidfile \/ cfg.pidfile THEN {pid, "none"} ELSE {"none"}
  /\ UNCHANGED <<environment, pid, uid, gid, configured, section, endpoints, threads>>

\* A setgid or setuid that fails ends the program; setuid is tried as root only,
\* and that it is not tried is only reported.
DropPrivileges ==
  /\ At("drop_privileges")
  /\ \/ /\ cfg.setgid /\ Exit
        /\ UNCHANGED <<uid, gid>>
     \/ /\ cfg.setuid /\ root /\ Exit
        /\ gid' = IF cfg.setgid THEN "dropped" ELSE gid
        /\ UNCHANGED uid
     \/ /\ Continue
        /\ gid' = IF cfg.setgid THEN "dropped" ELSE gid
        /\ uid' = IF cfg.setuid /\ root THEN "dropped" ELSE uid
  /\ UNCHANGED <<environment, pid, pid_file, configured, section, endpoints, threads>>

\* Without the section there is no virtual node; an incomplete one ends the program.
ConfigureVirtualEndpoint ==
  /\ At("configure_virtual_endpoint")
  /\ IF cfg.virtual \in {"absent", "complete"} THEN Continue ELSE Exit
  /\ configured' = (cfg.virtual = "complete")
  /\ UNCHANGED <<environment, pid, pid_file, uid, gid, section, endpoints, threads>>

\* The socket of section i, the key of Bus::bus.
Socket(i) == IF cfg.endpoints[i].driver = "virtual" THEN 0 ELSE i

\* Sections whose endpoint is left out with a message.
Skipped(s) ==
  \/ s.driver = "virtual" /\ ~configured
  \/ s.driver = "SocketCAN" /\ ~s.complete

\* Sections that end the program: a driver that is missing, unknown or short of an option.
Refused(s) ==
  \/ s.driver \in {"none", "other"}
  \/ s.driver \in {"udp", "SLCAN"} /\ ~s.complete

\* One round of configure_bus: add_driver opens the socket; an open that fails
\* throws, and nothing catches it.
AddDriver ==
  /\ At("configure_bus")
  /\ section < Len(cfg.endpoints)
  /\ section' = section + 1
  /\ LET s == cfg.endpoints[section + 1] IN
     \/ /\ Refused(s) /\ Exit /\ UNCHANGED endpoints
     \/ /\ Skipped(s) /\ UNCHANGED <<step, status, endpoints>>
     \/ /\ ~Refused(s) /\ ~Skipped(s)
        /\ endpoints' = endpoints \cup {Socket(section + 1)}
        /\ UNCHANGED <<step, status>>
     \/ /\ ~Refused(s) /\ ~Skipped(s) /\ s.driver # "virtual"
        /\ Abort /\ UNCHANGED endpoints
  /\ UNCHANGED <<environment, pid, pid_file, uid, gid, configured, threads>>

\* Mutant: the bus is not asked whether it has an endpoint.
ConfiguredBusAny ==
  /\ At("configure_bus")
  /\ section = Len(cfg.endpoints)
  /\ Continue
  /\ UNCHANGED <<environment, pid, pid_file, uid, gid, configured, section, endpoints, threads>>

ConfiguredBus ==
  /\ At("configure_bus")
  /\ section = Len(cfg.endpoints)
  /\ IF endpoints = {} THEN Exit ELSE Continue
  /\ UNCHANGED <<environment, pid, pid_file, uid, gid, configured, section, endpoints, threads>>

Start(call, thread) ==
  /\ At(call)
  /\ Continue
  /\ threads' = threads \cup thread
  /\ UNCHANGED <<environment, pid, pid_file, uid, gid, configured, section, endpoints>>

ActivateBus == Start("bus.activate", {"bus"})
\* Even when no virtual node is configured.
ActivateVirtualEndpoint == Start("virtual_endpoint.activate", {"virtual_endpoint"})
\* The constructor attaches to the bus and starts the update thread.
CreateNodeMgr == Start("NodeMgr", {"update"})
\* Timeout, descriptions and devices; a file that does not load is only reported.
\* This step and the next also change the state of Request: Daemon composes them.
ConfigureDevicesMgr == Start("configure_devices_mgr", {"workers"})
Discover == Start("discover", {})

StartNext ==
  \/ ParseCommandLineArg \/ LoggerInitialSetup \/ LoadConfiguration \/ LoggerSetup
  \/ Daemonize \/ SavePid \/ DropPrivileges \/ ConfigureVirtualEndpoint
  \/ AddDriver \/ ConfiguredBus \/ ActivateBus \/ ActivateVirtualEndpoint
  \/ CreateNodeMgr

Serving == At("server.run")
NodeMgrAttached == "update" \in threads

\* Whether the daemon has an endpoint with driver d.
HasEndpoint(d) == \E i \in DOMAIN cfg.endpoints : cfg.endpoints[i].driver = d /\ Socket(i) \in endpoints

\* Types of the start: part of TypeOK of Daemon.
StartTypeOK ==
  /\ [args |-> args, cfg |-> cfg, root |-> root] \in Starts
  /\ step \in 1..Len(Main)
  /\ status \in {"running", "exited", "aborted"}
  /\ pid \in {"parent", "daemon"} /\ pid_file \in {"none", "parent", "daemon"}
  /\ uid \in {"initial", "dropped"} /\ gid \in {"initial", "dropped"}
  /\ configured \in BOOLEAN
  /\ section \in 0..Len(cfg.endpoints)
  /\ endpoints \subseteq 0..Len(cfg.endpoints)
  /\ threads \subseteq {"bus", "virtual_endpoint", "update", "workers"}

\* No socket is opened and no thread runs before the process is the one that
\* will serve: in the background if it is to be there, its own pid in the pid
\* file (a fork after save_pid would leave a pid that is gone, and one after
\* activate a daemon without threads), and without the privileges it was told to drop.
StartOrder ==
  endpoints # {} \/ threads # {} =>
    /\ pid = (IF InBackground THEN "daemon" ELSE "parent")
    /\ pid_file \in {"none", pid}
    /\ (cfg.setuid /\ root) => uid = "dropped"
    /\ cfg.setgid => gid = "dropped"

\* A daemon whose bus runs has an endpoint for every section that was not left
\* out with a message, and at least one: on a bus without endpoints send_frame
\* would never return, the one of discover() included.
BusHasEndpoints ==
  "bus" \in threads =>
    /\ endpoints # {}
    /\ endpoints = {Socket(i) : i \in {j \in DOMAIN cfg.endpoints : ~Skipped(cfg.endpoints[j])}}
=============================================================================

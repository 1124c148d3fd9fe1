---------------------------- MODULE ClientConfig ----------------------------
(***************************************************************************)
(* H9Configurator (src/client_common/h9_configurator.cc): from the command *)
(* line and the configuration files of a client program to a connection.   *)
(*                                                                         *)
(* A URI is what parse_uri and get_bus_driver tell apart: its scheme, if   *)
(* it has a host, if it parses, and if it has what its scheme requires.    *)
(***************************************************************************)
EXTENDS Naturals, Sequences

H9D_SCHEME == "h9d"
default_source_id == 11

URI(scheme) == [scheme |-> scheme, host |-> TRUE, valid |-> TRUE, complete |-> TRUE]
NoURI == [scheme |-> "", host |-> FALSE, valid |-> FALSE, complete |-> FALSE]
default_connection_uri == URI(H9D_SCHEME)

\* -c takes a URI, or the title of a connection section.
is_uri(c) == c.title = "" /\ c.uri # NoURI
NoConnection == [title |-> "", uri |-> NoURI, source_id |-> 0]

\* A configuration file: absent, one that does not parse, or its options;
\* source_id 0 stands for an option that is missing.
Config(state, default, source, sections) ==
  [state |-> state, default |-> default, source_id |-> source, sections |-> sections]
Absent == Config("absent", "", 0, <<>>)

\* The file given with -F, even if it is not there; else the user's, else the system's.
config_file(s) == IF s.F THEN s.given ELSE IF s.user # Absent THEN s.user ELSE s.system

\* The first section with the title asked for, or with the default title.
section(cfg, c) ==
  LET title == IF c.title = "" THEN cfg.default ELSE c.title
      is == {i \in 1..Len(cfg.sections) : cfg.sections[i].title = title}
  IN IF is = {} THEN NoConnection ELSE cfg.sections[CHOOSE i \in is : \A j \in is : i <= j]

\* load_configuration: a section gives the source id and the URI; a missing
\* one leaves the defaults.  A URI that does not parse ends the program.
load_configuration(s) ==
  LET cfg  == config_file(s)
      read == cfg.state = "ok"
      sec  == IF read /\ ~is_uri(s.connect) THEN section(cfg, s.connect) ELSE NoConnection
      uri  == IF is_uri(s.connect) THEN s.connect.uri ELSE sec.uri
  IN [uri |-> IF uri = NoURI THEN default_connection_uri ELSE uri,
      source_id |-> IF sec.source_id # 0 THEN sec.source_id
                    ELSE IF read /\ cfg.source_id # 0 THEN cfg.source_id
                    ELSE default_source_id]

\* get_bus_driver: the schemes with a driver, and what each requires.
get_bus_driver(uri) ==
  /\ uri.scheme \in {"slcan", "socketcan", "udp", H9D_SCHEME, "pipe", "loop"}
  /\ uri.complete /\ (uri.scheme \in {"udp", H9D_SCHEME} => uri.host)
=============================================================================

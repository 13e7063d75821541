-------------------------------- MODULE Config -------------------------------
(***************************************************************************)
(* The configuration file and the start of uologin (Config.cxx, Main.cxx). *)
(* A line is an option with its value; a game_server line may also have a  *)
(* name, which is what makes it an entry of the server list.               *)
(***************************************************************************)
EXTENDS Integers, Sequences, SequencesExt

CONSTANTS
    Addresses,  \* addresses of game servers
    Names,      \* names of game servers
    Ports,      \* numbers in port and knock_port lines
    Exporter,   \* the default exporter: a socket in RUNTIME_DIRECTORY, or Null
    Null,       \* unset
    MaxLines    \* bound: lines of the file

ASSUME PortsAssumption == Ports \subseteq Nat \ {0}
ASSUME NullAssumption == Null \notin Addresses \cup Names \cup Nat
ASSUME LinesAssumption == MaxLines \in Nat

VARIABLES
    phase,   \* "parsing", "parsed", "running" or why uologin did not start
    lines,   \* the lines read so far
    config   \* struct Config

configVars == <<phase, lines, config>>

PortLines == [opt : {"port", "knock_port"}, value : Ports, name : {Null}]
WordLines == [opt : {"knock_nft_set", "user_database", "prometheus_exporter"},
              value : {"given"}, name : {Null}]
BoolLines == [opt : {"auto_reload_user_database", "send_remote_ip"},
              value : BOOLEAN, name : {Null}]
ServerLines == [opt : {"game_server"}, value : Addresses, name : Names \cup {Null}]

Server(name, address) == [name |-> name, address |-> address]

Defaults ==
    [port |-> Null, knock_port |-> Null, knock_nft_set |-> Null,
     user_database |-> Null, auto_reload_user_database |-> FALSE,
     game_server |-> Null, server_list |-> <<>>, send_remote_ip |-> FALSE,
     prometheus_exporter |-> Exporter]

UInt16 == 0..65535

ConfigRecord ==
    [port : UInt16 \cup {Null}, knock_port : UInt16 \cup {Null},
     knock_nft_set : {"given", Null}, user_database : {"given", Null},
     auto_reload_user_database : BOOLEAN, game_server : Addresses \cup {Null},
     server_list : Seq([name : Names, address : Addresses]),
     send_remote_ip : BOOLEAN, prometheus_exporter : {"given", Exporter}]

ConfigInit ==
    /\ phase = "parsing"
    /\ lines = <<>>
    /\ config = Defaults

PortNotTruncated(n) == n

\* uint16_t port
Port(n) == n % 65536

MovedFrom(cf, line) ==
    [cf EXCEPT !.game_server = Null,
               !.server_list = Append(@, Server(line.name, line.value))]

\* game_server with a name: game_server remembers the address, too, as
\* GameServerConfig copies it.
NamedServer(cf, line) ==
    [cf EXCEPT !.game_server = line.value,
               !.server_list = Append(@, Server(line.name, line.value))]

\* MyConfigParser::ParseLine on a line without errors.
ParseLine(cf, line) ==
    CASE line.opt \in {"port", "knock_port"} -> [cf EXCEPT ![line.opt] = Port(line.value)]
      [] line.opt = "game_server" /\ line.name # Null -> NamedServer(cf, line)
      [] OTHER -> [cf EXCEPT ![line.opt] = line.value]

ReadLine(kind) ==
    /\ phase = "parsing"
    /\ Len(lines) < MaxLines
    /\ \E line \in kind :
         /\ lines' = Append(lines, line)
         /\ config' = ParseLine(config, line)
    /\ UNCHANGED phase

\* An unknown option, a bad or missing value, a name that does not resolve.
BadLine ==
    /\ phase = "parsing"
    /\ phase' = "bad_line"
    /\ UNCHANGED <<lines, config>>

\* MyConfigParser::Finish at the end of the file.
Finish ==
    /\ phase = "parsing"
    /\ phase' = IF config.game_server = Null THEN "no_game_server" ELSE "parsed"
    /\ config' = [config EXCEPT !.port = IF @ = Null THEN 2593 ELSE @]
    /\ UNCHANGED lines

\* Run: the user database is opened unless it is reloaded on demand, then the
\* sockets are created; each of these may fail.
Run ==
    /\ phase = "parsed"
    /\ phase' \in {"running", "not_started"}
    /\ UNCHANGED <<lines, config>>

-----------------------------------------------------------------------------
(***************************************************************************)
(* What a file means, without parsing it line by line.                     *)
(***************************************************************************)

At(option) == {i \in DOMAIN lines : lines[i].opt = option}

\* The value of the last line with this option.
LastValue(option, default) ==
    IF At(option) = {} THEN default ELSE lines[Max(At(option))].value

LastPort(option, default) ==
    LET n == LastValue(option, Null) IN IF n = Null THEN default ELSE n % 2^16

NamedAt == {i \in At("game_server") : lines[i].name # Null}

\* The one way to number the named game servers in the order of the file.
Numberings ==
    {f \in SeqOf(NamedAt, Len(lines)) :
        /\ Range(f) = NamedAt
        /\ \A i, j \in DOMAIN f : i < j => f[i] < f[j]}

\* The settings are those of the file, at every line: the last line of an
\* option wins, and every named game server is in the list, in the order of
\* the file, with the address from its own line.  uologin gives up for want
\* of a game server only if there is no game_server line at all.
ParsedAsWritten ==
    /\ phase = "no_game_server" => At("game_server") = {}
    /\ config.port = LastPort("port", IF phase \in {"parsing", "bad_line"} THEN Null ELSE 2593)
    /\ config.knock_port = LastPort("knock_port", Null)
    /\ \A option \in DOMAIN config \ {"port", "knock_port", "server_list"} :
            config[option] = LastValue(option, Defaults[option])
    /\ \E f \in Numberings :
         /\ DOMAIN f = DOMAIN config.server_list
         /\ \A i \in DOMAIN f :
                config.server_list[i] = Server(lines[f[i]].name, lines[f[i]].value)
=============================================================================

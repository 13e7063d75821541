------------------------------- MODULE Session -------------------------------
(***************************************************************************)
(* The bytes of one Connection, from the configuration that was loaded to  *)
(* the game server: what the client and the server send, in which pieces   *)
(* it arrives, and what uologin reads, hides, inserts and passes on.       *)
(* (Connection.cxx, uo/Packets.hxx)                                        *)
(*                                                                         *)
(* A stream is a sequence of units <<command, number, arguments>>; packets *)
(* that uologin takes apart have one unit per field it reads.  How the     *)
(* READY state moves data is the subject of Relay, the lifetime of the     *)
(* object that of Connection.                                              *)
(***************************************************************************)
EXTENDS Config

CONSTANTS
    MaxIndex,  \* bound: the highest index in a PlayServer packet
    MaxUnits   \* bound: units each peer sends

ASSUME IndexAssumption == MaxIndex \in Nat /\ MaxUnits \in Nat

VARIABLES
    state,             \* Connection::state; "closed", or "dropped" for a packet
    arrived,           \* what has arrived from each peer
    rest,              \* the rest of a packet that is still on its way
    read,              \* how much of arrived uologin has read
    written,           \* what uologin has sent to each peer
    outgoing_address,
    torn               \* has a PlayServer or ServerList come in two pieces?

streams == <<arrived, rest, read, written>>
sessionVars == <<state, streams, outgoing_address, torn>>
vars == <<configVars, sessionVars>>

Peers == {"client", "server"}
Peer(p) == IF p = "client" THEN "server" ELSE "client"
Ended == {"closed", "dropped"}
States == {"INITIAL", "CHECK_CREDENTIALS", "SERVER_LIST", "CONNECTING",
           "SEND_PLAY_SERVER", "READY"} \cup Ended

-----------------------------------------------------------------------------
(***************************************************************************)
(* Packets.                                                                *)
(***************************************************************************)

Unit(cmd, n, args) == <<cmd, n, args>>
Cmd(unit) == unit[1]
Arg(unit) == unit[3][1]

Seed == <<Unit("Seed", 1, <<>>)>>
AccountLogin == <<Unit("AccountLogin", 1, <<>>)>>
Extended == <<Unit("Extended", 1, <<>>)>>
PlayServer(index) == <<Unit("PlayServer", 1, <<>>), Unit("PlayServer", 2, <<index>>)>>

\* cmd, length and as much data as the length says.
ServerListHead == 2
ServerListMin == 3
ServerList(length) ==
    <<Unit("ServerList", 1, <<>>), Unit("ServerList", 2, <<length>>)>>
        \o [i \in 1..(length - ServerListHead) |-> Unit("ServerList", ServerListHead + i, <<>>)]

\* The list uologin sends by itself; index i is that of the i-th entry.
OwnServerList ==
    <<Unit("ServerList", 0, [i \in DOMAIN config.server_list |-> config.server_list[i].name])>>

\* Unit number n of a stream when it is none of the above; Junk is also a
\* login whose user name is not valid.
Game(n) == <<Unit("Game", n, <<>>)>>
Junk(n) == <<Unit("Junk", n, <<>>)>>

InitialSize == Len(Seed) + Len(AccountLogin)

-----------------------------------------------------------------------------
Blank == [p \in Peers |-> <<>>]

Init ==
    /\ ConfigInit
    /\ state = "INITIAL"
    /\ arrived = Blank
    /\ rest = Blank
    /\ read = [p \in Peers |-> 0]
    /\ written = Blank
    /\ outgoing_address = Null
    /\ torn = FALSE

UnitType == {"Seed", "AccountLogin", "Extended", "PlayServer", "ServerList", "Game", "Junk"}
                \X Nat \X Seq(Names \cup Nat)

TypeOK ==
    /\ phase \in {"parsing", "parsed", "running", "bad_line", "no_game_server", "not_started"}
    /\ \A i \in DOMAIN lines : lines[i].opt \in DOMAIN config
    /\ config \in ConfigRecord
    /\ state \in States
    /\ arrived \in [Peers -> Seq(UnitType)]
    /\ rest \in [Peers -> Seq(UnitType)]
    /\ read \in [Peers -> Nat]
    /\ \A p \in Peers : read[p] <= Len(arrived[p])
    /\ written \in [Peers -> Seq(UnitType)]
    /\ outgoing_address \in Addresses \cup {Null}
    /\ torn \in BOOLEAN

-----------------------------------------------------------------------------
(***************************************************************************)
(* The peers.  A client begins with Seed and AccountLogin; later it may    *)
(* choose a server or play, and it does not have to wait for answers.  A   *)
(* game server begins with its server list.  Both may send something else. *)
(***************************************************************************)

SentBy(p) == Len(arrived[p]) + Len(rest[p])

ClientPackets(n) ==
    CASE n = 0 -> {Seed, Junk(1)}
      [] n = 1 -> {AccountLogin, Junk(2)}
      [] OTHER -> {PlayServer(i) : i \in 0..MaxIndex} \cup {Game(n + 1)}

ServerPackets(n) ==
    IF n = 0 THEN {ServerList(ServerListMin), ServerList(ServerListMin + 1),
                   ServerList(ServerListMin - 1), Junk(1)}
    ELSE {Game(n + 1)}

\* The first n units of the packet arrive at once, the others later.
Send(p, packet, n) ==
    /\ rest[p] = <<>>
    /\ SentBy(p) + Len(packet) <= MaxUnits
    /\ arrived' = [arrived EXCEPT ![p] = @ \o SubSeq(packet, 1, n)]
    /\ rest' = [rest EXCEPT ![p] = SubSeq(packet, n + 1, Len(packet))]
    /\ torn' = (torn \/ n < Len(packet))
    /\ UNCHANGED <<configVars, state, read, written, outgoing_address>>

ClientSends ==
    /\ phase = "running"
    /\ state \notin Ended
    /\ \E packet \in ClientPackets(SentBy("client")) :
         \E n \in 1..Len(packet) : Send("client", packet, n)

ServerSends ==
    /\ state \in {"SEND_PLAY_SERVER", "READY"}
    /\ \E packet \in ServerPackets(SentBy("server")) :
         \E n \in 1..Len(packet) : Send("server", packet, n)

RestArrives(p) ==
    /\ state \notin Ended
    /\ rest[p] # <<>>
    /\ arrived' = [arrived EXCEPT ![p] = @ \o rest[p]]
    /\ rest' = [rest EXCEPT ![p] = <<>>]
    /\ UNCHANGED <<configVars, state, read, written, outgoing_address, torn>>

-----------------------------------------------------------------------------
(***************************************************************************)
(* The end of a Connection.                                                *)
(***************************************************************************)

\* A timeout, a dead socket, a failed send or connect, a rejected login, a
\* database error, the shutdown.
Close ==
    /\ state' = "closed"
    /\ arrived' = Blank
    /\ rest' = Blank
    /\ read' = [p \in Peers |-> 0]
    /\ written' = Blank
    /\ outgoing_address' = Null
    /\ torn' = FALSE
    /\ UNCHANGED configVars

\* Destroy() because of what was read.
Drop ==
    /\ state' = "dropped"
    /\ UNCHANGED <<configVars, streams, outgoing_address, torn>>

Dies ==
    /\ phase = "running"
    /\ state \notin Ended
    /\ Close

-----------------------------------------------------------------------------
(***************************************************************************)
(* The handlers.                                                           *)
(***************************************************************************)

Available(p) == SubSeq(arrived[p], read[p] + 1, Len(arrived[p]))
HasList == config.server_list # <<>>
Smaller(a, b) == IF a < b THEN a ELSE b

\* OnCheckCredentials(true), with SendServerList if there is a list.
Accepted(readBytes) ==
    /\ read' = readBytes
    /\ state' = IF HasList THEN "SERVER_LIST" ELSE "CONNECTING"
    /\ written' = IF HasList THEN [written EXCEPT !["client"] = @ \o OwnServerList]
                  ELSE written
    /\ outgoing_address' = IF HasList THEN outgoing_address ELSE config.game_server
    /\ UNCHANGED <<configVars, arrived, rest, torn>>

LoginReadsAll == [read EXCEPT !["client"] = Len(arrived["client"])]

LoginReadsTooMuch == [read EXCEPT !["client"] = Smaller(Len(arrived["client"]), InitialSize + 1)]

\* The read position after ReadNoWait into the rest of initial_packets.
LoginRead == [read EXCEPT !["client"] = Smaller(Len(arrived["client"]), InitialSize)]

LoginInOnePiece == Drop

LoginIncomplete ==
    /\ read' = LoginRead
    /\ UNCHANGED <<configVars, state, arrived, rest, written, outgoing_address, torn>>

ReceiveLoginPart ==
    /\ state = "INITIAL"
    /\ Available("client") # <<>>
    /\ LoginRead["client"] < InitialSize
    /\ LoginIncomplete

LoginWellFormed ==
    /\ Cmd(arrived["client"][1]) = "Seed"
    /\ Cmd(arrived["client"][2]) = "AccountLogin"

\* auto_reload_user_database without a user_database: the stat() of a null
\* pointer fails for every login.
NeverLoads == config.auto_reload_user_database /\ config.user_database = Null

ReceiveLoginPackets ==
    /\ state = "INITIAL"
    /\ LoginRead["client"] >= InitialSize
    /\ CASE ~LoginWellFormed -> Drop
         [] LoginWellFormed /\ NeverLoads -> Close
         [] LoginWellFormed /\ config.user_database # Null ->
              /\ read' = LoginRead
              /\ state' = "CHECK_CREDENTIALS"
              /\ UNCHANGED <<configVars, arrived, rest, written, outgoing_address, torn>>
         [] OTHER -> Accepted(LoginRead)

OnCheckCredentials ==
    /\ state = "CHECK_CREDENTIALS"
    /\ Accepted(read)

PlayServerOk(packet) ==
    /\ Len(packet) = 2
    /\ Cmd(packet[1]) = "PlayServer"
    /\ Arg(packet[2]) < Len(config.server_list)

LastServer(index) == config.game_server

ChosenServer(index) == config.server_list[index + 1].address

ReceivePlayServer ==
    LET packet == SubSeq(Available("client"), 1, Smaller(2, Len(Available("client"))))
    IN  /\ state = "SERVER_LIST"
        /\ packet # <<>>
        /\ IF PlayServerOk(packet)
           THEN /\ read' = [read EXCEPT !["client"] = @ + 2]
                /\ outgoing_address' = ChosenServer(Arg(packet[2]))
                /\ state' = "CONNECTING"
                /\ UNCHANGED <<configVars, arrived, rest, written, torn>>
           ELSE Drop

\* Without a server list READ is scheduled while connecting; what arrives is
\* spliced to a socket that does not exist yet.
OnIncomingWhileConnecting ==
    /\ state = "CONNECTING"
    /\ ~HasList
    /\ Available("client") # <<>>
    /\ Drop

\* What SendInitialPackets sends: a socket that has just been connected takes
\* these few bytes whole.
InitialPackets ==
    SubSeq(arrived["client"], 1, Len(Seed))
        \o (IF config.send_remote_ip THEN Extended ELSE <<>>)
        \o SubSeq(arrived["client"], Len(Seed) + 1, InitialSize)

OnSocketConnectSuccess ==
    /\ state = "CONNECTING"
    /\ written' = [written EXCEPT !["server"] = InitialPackets]
    /\ state' = IF HasList THEN "SEND_PLAY_SERVER" ELSE "READY"
    /\ UNCHANGED <<configVars, arrived, rest, read, outgoing_address, torn>>

DiscardForgetsHead(length) == length + ServerListHead

\* How far ReceiveServerList reads: cmd, length and Discard(length - head).
ServerListRead(length) == ServerListHead + (length - ServerListHead)

ServerListOk(packet) ==
    /\ Cmd(packet[1]) = "ServerList"
    /\ Len(packet) >= ServerListHead
    /\ Arg(packet[2]) >= ServerListMin
    /\ Len(packet) >= ServerListRead(Arg(packet[2]))

\* The PlayServer that uologin sends on behalf of the client.
AnswerServerList ==
    /\ written' = [written EXCEPT !["server"] = @ \o PlayServer(0)]
    /\ state' = "READY"

ReceiveServerList ==
    LET packet == Available("server")
    IN  /\ state = "SEND_PLAY_SERVER"
        /\ packet # <<>>
        /\ IF ServerListOk(packet)
           THEN /\ read' = [read EXCEPT !["server"] = @ + ServerListRead(Arg(packet[2]))]
                /\ AnswerServerList
                /\ UNCHANGED <<configVars, arrived, rest, outgoing_address, torn>>
           ELSE Drop

\* The two splices of the READY state.
Forward(p) ==
    /\ state = "READY"
    /\ \E n \in 1..Len(Available(p)) :
         /\ read' = [read EXCEPT ![p] = @ + n]
         /\ written' = [written EXCEPT ![Peer(p)] = @ \o SubSeq(Available(p), 1, n)]
    /\ UNCHANGED <<configVars, state, arrived, rest, outgoing_address, torn>>

\* The handlers of arrived data.
OnReady ==
    \/ ReceiveLoginPart
    \/ ReceiveLoginPackets
    \/ ReceivePlayServer
    \/ OnIncomingWhileConnecting
    \/ ReceiveServerList
    \/ \E p \in Peers : Forward(p)

Start ==
    /\ \/ ReadLine(PortLines)
       \/ ReadLine(WordLines)
       \/ ReadLine(BoolLines)
       \/ ReadLine(ServerLines)
       \/ BadLine
       \/ Finish
       \/ Run
    /\ UNCHANGED sessionVars

Next ==
    \/ Start
    \/ ClientSends
    \/ ServerSends
    \/ \E p \in Peers : RestArrives(p)
    \/ OnReady
    \/ OnCheckCredentials
    \/ OnSocketConnectSuccess
    \/ Dies

Spec == Init /\ [][Next]_vars

\* epoll is level triggered: what has arrived is dispatched.  A credential
\* check is answered, and a connect succeeds or fails, for it has a timeout.
\* Neither peer owes anything, and no other timeout is counted on.
Fairness ==
    /\ WF_vars(OnReady)
    /\ WF_vars(state = "CHECK_CREDENTIALS" /\ (OnCheckCredentials \/ Close))
    /\ WF_vars(state = "CONNECTING" /\ (OnSocketConnectSuccess \/ Close))

FairSpec == Spec /\ Fairness

-----------------------------------------------------------------------------
(***************************************************************************)
(* Properties.                                                             *)
(***************************************************************************)

\* What was read from the client beyond login and choice of a server.
ClientGame ==
    SubSeq(arrived["client"], InitialSize + (IF HasList THEN 2 ELSE 0) + 1, read["client"])

\* The game server sees the stream of a client that talks to it directly:
\* Seed, possibly REMOTE_IP, AccountLogin, a PlayServer if the client chose
\* from uologin's list, then every byte the client sent after that, in order,
\* however the packets were cut or glued together on the way.  Nothing
\* reaches it before the connection is established.
UpstreamExact ==
    LET login == <<arrived["client"][1]>>
                    \o (IF config.send_remote_ip THEN Extended ELSE <<>>)
                    \o <<arrived["client"][2]>>
    IN  /\ state = "READY" => written["server"] =
                login \o (IF HasList THEN PlayServer(0) ELSE <<>>) \o ClientGame
        /\ state = "SEND_PLAY_SERVER" => written["server"] = login
        /\ state \notin {"SEND_PLAY_SERVER", "READY", "dropped"} => written["server"] = <<>>

\* The client sees exactly one server list: uologin's own, with the list of
\* the game server cut out of the stream and nothing else, or, without a
\* configured list, the stream of the game server untouched.
DownstreamExact ==
    LET all == SubSeq(arrived["server"], 1, read["server"])
    IN  state = "READY" =>
            IF HasList
            THEN \E n \in 0..Len(all) :
                    /\ \A i \in DOMAIN all : Cmd(all[i]) = "ServerList" <=> i <= n
                    /\ written["client"] = OwnServerList \o SubSeq(all, n + 1, Len(all))
            ELSE written["client"] = all

\* A client is connected to the address that the configuration file gives for
\* the name it saw at the index it chose.
RightServer ==
    outgoing_address # Null =>
        IF NamedAt = {} THEN outgoing_address = LastValue("game_server", Null)
        ELSE LET chosen == Arg(arrived["client"][InitialSize + 2]) + 1
             IN  \E f \in Numberings :
                    /\ chosen \in DOMAIN f
                    /\ outgoing_address = lines[f[chosen]].value
                    /\ written["client"][1][3][chosen] = lines[f[chosen]].name

\* Does what arrived conform to what the code expects of a client ...
ClientConforms ==
    LET s == arrived["client"]
    IN  /\ \A i \in DOMAIN s : Cmd(s[i]) # "Junk"
        /\ Len(s) > InitialSize =>
             IF HasList
             THEN /\ Cmd(s[InitialSize + 1]) = "PlayServer"
                  /\ Len(s) >= InitialSize + 2 =>
                        Arg(s[InitialSize + 2]) < Len(config.server_list)
             ELSE written["client"] # <<>>

\* ... and of a game server?
ServerConforms ==
    LET s == arrived["server"]
    IN  s # <<>> => /\ Cmd(s[1]) = "ServerList"
                    /\ Len(s) >= 2 => Arg(s[2]) >= ServerListMin

\* A session is dropped only for a reason: a peer has not kept to the
\* protocol (a client that does not wait for its server is one), or a
\* PlayServer or ServerList packet came in two pieces.  Login packets may
\* come in pieces, and packets may arrive early and stick together.
ConformingNotDropped ==
    state = "dropped" => torn \/ ~ClientConforms \/ ~ServerConforms

\* A client that has sent all it owes, its login and, where there is a list
\* to choose from, its choice, is never kept waiting for more: whether it sent
\* them in pieces or all at once, ahead of the verdict and of the list, they
\* are found where they belong, and it is linked to a game server or its
\* connection ends.  No timeout of uologin is needed for that, and no further
\* word of the client.
HandshakeServed ==
    (phase = "running"
        /\ Len(arrived["client"]) >= InitialSize + (IF HasList THEN 2 ELSE 0))
            ~> state \in {"SEND_PLAY_SERVER", "READY"} \cup Ended
=============================================================================

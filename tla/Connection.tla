----------------------------- MODULE Connection ------------------------------
(***************************************************************************)
(* The Connection objects of uologin (Connection.cxx) and the credential   *)
(* checks they have running in the thread pool (Database.cxx).             *)
(*                                                                         *)
(* The objects are identified by their address: once a Connection has been *)
(* deleted, a new one may appear under the same k, and a callback bound to *)
(* the old one would reach the new one.                                    *)
(*                                                                         *)
(* Sockets are reduced to the events uologin has subscribed to: whenever   *)
(* READ is scheduled the peer may make it fire, with any data, and a       *)
(* hangup or reset may be reported at any time.  Of the READY state only   *)
(* what it does to READ on the client socket is here; what it does with    *)
(* the data is the subject of module Relay.                                *)
(***************************************************************************)
EXTENDS Integers, Sequences, FiniteSets, Tokens

CONSTANTS
    Conns,   \* identities (addresses) of Connection objects
    Jobs,    \* identities of CheckCredentialsJob objects (a bound)
    NoJob,   \* the null pointer
    Full     \* size of initial_packets, in the units reads are counted in

ASSUME FullAssumption == Full \in Nat \ {0}
ASSUME FiniteAssumption == IsFiniteSet(Conns)
ASSUME NoJobAssumption == NoJob \notin Jobs

VARIABLES
    conn,                \* the Connection objects
    job,                 \* the CheckCredentialsJob objects
    bill,                \* tokens charged through accounting.UpdateTokenBucket
    counted,             \* counters of Instance::metrics that k has incremented
    client_connections,  \* the two gauges of Instance::metrics
    server_connections,
    server_list,         \* configuration: is there a server_list?
    database,            \* configuration: is there a user database?
    running              \* FALSE once Instance::OnShutdown has run

vars == <<conn, job, bill, counted, client_connections, server_connections,
          server_list, database, running>>

config == <<server_list, database>>
gauges == <<client_connections, server_connections>>
books == <<bill, counted>>

Counters == {"malformed_logins", "rejected_logins", "accepted_logins",
             "server_connections_established", "server_connections_failed"}

States == {"none", "INITIAL", "CHECK_CREDENTIALS", "SERVER_LIST",
           "CONNECTING", "SEND_PLAY_SERVER", "READY"}

ConnRecord ==
    [state            : States,
     fill             : 0..Full,      \* initial_packets_fill
     credentials      : {"nothing", "good", "bad"},
     in_read          : BOOLEAN,      \* is READ scheduled on incoming?
     timeout          : BOOLEAN,      \* timeout.IsPending()
     connecting       : BOOLEAN,      \* connect.IsPending()
     out              : BOOLEAN,      \* outgoing.IsDefined()
     send_play_server : BOOLEAN,
     cancel_ptr       : Jobs \cup {NoJob}]

Gone ==
    [state            |-> "none",
     fill             |-> 0,
     credentials      |-> "nothing",
     in_read          |-> FALSE,
     timeout          |-> FALSE,
     connecting       |-> FALSE,
     out              |-> FALSE,
     send_play_server |-> FALSE,
     cancel_ptr       |-> NoJob]

\* The constructor: READ and READ_HANGUP scheduled, 5 seconds for the login.
Constructed == [Gone EXCEPT !.state = "INITIAL", !.in_read = TRUE, !.timeout = TRUE]

\* "username" and "password" of a job are copies, so the verdict is about
\* what the client had sent when the job was created.
JobRecord ==
    [status      : {"none", "waiting", "busy", "done"},
     target      : Conns \cup {NoJob},
     credentials : {"nothing", "good", "bad"},
     canceled    : BOOLEAN,
     result      : BOOLEAN]

FreeJob == [status |-> "none", target |-> NoJob, credentials |-> "nothing",
            canceled |-> FALSE, result |-> FALSE]

MaxBill == AcceptedLoginCost + MalformedLoginCost

TypeOK ==
    /\ conn \in [Conns -> ConnRecord]
    /\ job \in [Jobs -> JobRecord]
    /\ bill \in [Conns -> 0..MaxBill]
    /\ counted \in [Conns -> Seq(Counters)]
    /\ client_connections \in 0..Cardinality(Conns)
    /\ server_connections \in 0..Cardinality(Conns)
    /\ server_list \in BOOLEAN
    /\ database \in BOOLEAN
    /\ running \in BOOLEAN

Init ==
    /\ conn = [k \in Conns |-> Gone]
    /\ job = [j \in Jobs |-> FreeJob]
    /\ bill = [k \in Conns |-> 0]
    /\ counted = [k \in Conns |-> <<>>]
    /\ client_connections = 0
    /\ server_connections = 0
    /\ server_list \in BOOLEAN
    /\ database \in BOOLEAN
    /\ running = TRUE

-----------------------------------------------------------------------------
(***************************************************************************)
(* Construction, destruction and cancellation.                             *)
(***************************************************************************)

NewConnection(k) ==
    /\ running
    /\ conn[k].state = "none"
    /\ conn' = [conn EXCEPT ![k] = Constructed]
    /\ bill' = [bill EXCEPT ![k] = 0]
    /\ counted' = [counted EXCEPT ![k] = <<>>]
    /\ client_connections' = client_connections + 1
    /\ UNCHANGED <<job, server_connections, config, running>>

CancelForgetsBusy(jb) == IF jb.status = "busy" THEN {jb} ELSE {FreeJob}

\* CheckCredentialsJob::Cancel.  ThreadQueue::Cancel can take back a job no
\* worker has started, it cannot take back a running one; for one that is
\* done but not yet delivered the caller is prepared for both answers.
CancelOutcomes(jb) ==
    CASE jb.status = "busy" -> {[jb EXCEPT !.canceled = TRUE]}
      [] jb.status = "done" -> {[jb EXCEPT !.canceled = TRUE], FreeJob}
      [] OTHER -> {FreeJob}

CancelNothing(j) == UNCHANGED job

Cancel(j) ==
    IF j = NoJob THEN UNCHANGED job
    ELSE \E r \in CancelOutcomes(job[j]) : job' = [job EXCEPT ![j] = r]

ServerGaugeKept(k) == server_connections

ServerGaugeWithout(k) ==
    IF conn[k].out THEN server_connections - 1 ELSE server_connections

DeleteLeaksGauge(k) ==
    /\ conn' = [conn EXCEPT ![k] = Gone]
    /\ UNCHANGED client_connections
    /\ server_connections' = ServerGaugeWithout(k)

\* The rest of ~Connection.
Delete(k) ==
    /\ conn' = [conn EXCEPT ![k] = Gone]
    /\ client_connections' = client_connections - 1
    /\ server_connections' = ServerGaugeWithout(k)

\* UpdateTokenBucket(cost), which is not called if 0, and the increments.
Book(k, cost, counters) ==
    /\ bill' = [bill EXCEPT ![k] = @ + cost]
    /\ counted' = [counted EXCEPT ![k] = @ \o counters]

Destroy(k, cost, counters) ==
    /\ Book(k, cost, counters)
    /\ Cancel(conn[k].cancel_ptr)
    /\ Delete(k)

-----------------------------------------------------------------------------
(***************************************************************************)
(* OnCheckCredentials with a good verdict.  With a server list, the client *)
(* is sent the list and has a minute to choose; without one, uologin       *)
(* connects to the only game server.                                       *)
(***************************************************************************)

SendServerListWithoutTimeout(cn) ==
    [cn EXCEPT !.state = "SERVER_LIST", !.in_read = TRUE]

SendServerList(cn) ==
    [cn EXCEPT !.state = "SERVER_LIST", !.in_read = TRUE, !.timeout = TRUE]

ConnectToGameServer(cn) ==
    [cn EXCEPT !.state = "CONNECTING", !.in_read = TRUE, !.connecting = TRUE]

\* The connection that OnCheckCredentials(true) leaves behind if it survives.
AcceptedConn(cn) ==
    LET told == [cn EXCEPT !.cancel_ptr = NoJob]
    IN  IF server_list THEN SendServerList(told) ELSE ConnectToGameServer(told)

\* The part of ReceiveLoginPackets that ends with fill = Full and READ and
\* the timeout cancelled.
LoginReceived(cn, credentials) ==
    [cn EXCEPT !.state = "CHECK_CREDENTIALS", !.fill = Full,
               !.in_read = FALSE, !.timeout = FALSE, !.credentials = credentials]

-----------------------------------------------------------------------------
(***************************************************************************)
(* OnIncomingReady.                                                        *)
(***************************************************************************)

OnIncomingDead(k) ==
    /\ conn[k].state # "none"
    /\ Destroy(k, IF conn[k].state = "INITIAL" THEN InitialHangupCost ELSE 0, <<>>)
    /\ UNCHANGED <<config, running>>

Readable(k, state) == conn[k].state = state /\ conn[k].in_read

LoginFailuresRejected ==
    {<<0, <<>>>>,
     <<MalformedLoginCost, <<"malformed_logins">>>>,
     <<BadUsernameCost, <<"malformed_logins", "rejected_logins">>>>}

\* ReadNoWait fails, or the packets or the user name are malformed: what is
\* charged and counted.
LoginFailures ==
    {<<0, <<>>>>,
     <<MalformedLoginCost, <<"malformed_logins">>>>,
     <<BadUsernameCost, <<"malformed_logins">>>>}

\* Or Database::CheckCredentials throws because a reload failed.
ReceiveLoginPacketsFail(k) ==
    /\ Readable(k, "INITIAL")
    /\ \/ \E failure \in LoginFailures : Destroy(k, failure[1], failure[2])
       \/ database /\ Destroy(k, DatabaseErrorCost, <<>>)
    /\ UNCHANGED <<config, running>>

ReceiveLoginPacketsPartial(k) ==
    /\ Readable(k, "INITIAL")
    /\ \E n \in 1..Full :
         /\ conn[k].fill + n < Full
         /\ conn' = [conn EXCEPT ![k].fill = @ + n]
    /\ UNCHANGED <<job, books, gauges, config, running>>

\* Without a database the callback is invoked before CheckCredentials
\* returns; sending the server list may fail.
ReceiveLoginPacketsUnchecked(k, credentials) ==
    /\ Readable(k, "INITIAL")
    /\ ~database
    /\ \/ /\ conn' = [conn EXCEPT ![k] = AcceptedConn(LoginReceived(@, credentials))]
          /\ Book(k, AcceptedLoginCost, <<"accepted_logins">>)
          /\ UNCHANGED <<job, gauges>>
       \/ server_list /\ Destroy(k, AcceptedLoginCost, <<"accepted_logins">>)
    /\ UNCHANGED <<config, running>>

ReceiveLoginPacketsChecked(k, credentials, j) ==
    /\ Readable(k, "INITIAL")
    /\ database
    /\ job[j].status = "none"
    /\ conn' = [conn EXCEPT ![k] = [LoginReceived(@, credentials)
                                    EXCEPT !.cancel_ptr = j]]
    /\ job' = [job EXCEPT ![j] = [FreeJob EXCEPT !.status = "waiting",
                                                !.target = k,
                                                !.credentials = credentials]]
    /\ UNCHANGED <<books, gauges, config, running>>

ChosenKeepsTimeout(cn) ==
    [cn EXCEPT !.state = "CONNECTING", !.in_read = FALSE, !.connecting = TRUE,
               !.send_play_server = TRUE]

ServerChosen(cn) ==
    [cn EXCEPT !.state = "CONNECTING", !.in_read = FALSE, !.timeout = FALSE,
               !.connecting = TRUE, !.send_play_server = TRUE]

\* A short, wrong or out of range PlayServer packet ends the connection.
ReceivePlayServer(k) ==
    /\ Readable(k, "SERVER_LIST")
    /\ \/ Destroy(k, 0, <<>>)
       \/ /\ conn' = [conn EXCEPT ![k] = ServerChosen(@)]
          /\ UNCHANGED <<job, books, gauges>>
    /\ UNCHANGED <<config, running>>

\* Data while the connect is pending: assert(!connect.IsPending()) fails, see
\* NotReadableWhileConnecting.  With NDEBUG, the data is spliced to an
\* undefined outgoing socket, which fails and ends the connection.
OnIncomingWhileConnecting(k) ==
    /\ Readable(k, "CONNECTING")
    /\ Destroy(k, 0, <<>>)
    /\ UNCHANGED <<config, running>>

-----------------------------------------------------------------------------
(***************************************************************************)
(* ConnectSocketHandler.                                                   *)
(***************************************************************************)

LinkedConn(cn) ==
    IF cn.send_play_server
    THEN [cn EXCEPT !.connecting = FALSE, !.out = TRUE, !.state = "SEND_PLAY_SERVER"]
    ELSE [cn EXCEPT !.connecting = FALSE, !.out = TRUE, !.state = "READY",
                    !.in_read = TRUE]

\* SendInitialPackets may fail, before the new socket is counted.
OnSocketConnectSuccess(k) ==
    /\ conn[k].connecting
    /\ \/ Destroy(k, 0, <<>>)
       \/ /\ conn' = [conn EXCEPT ![k] = LinkedConn(@)]
          /\ server_connections' = server_connections + 1
          /\ Book(k, 0, <<"server_connections_established">>)
          /\ UNCHANGED <<job, client_connections>>
    /\ UNCHANGED <<config, running>>

OnSocketConnectError(k) ==
    /\ conn[k].connecting
    /\ Destroy(k, 0, <<"server_connections_failed">>)
    /\ UNCHANGED <<config, running>>

-----------------------------------------------------------------------------
(***************************************************************************)
(* OnOutgoingReady and OnTimeout.                                          *)
(***************************************************************************)

OnOutgoingDead(k) ==
    /\ conn[k].out
    /\ Destroy(k, ServerDeadCost, <<>>)
    /\ UNCHANGED <<config, running>>

\* The ServerList of the game server must arrive in one piece; it is
\* discarded and answered with a PlayServer.
ReceiveServerList(k) ==
    /\ conn[k].state = "SEND_PLAY_SERVER"
    /\ \/ Destroy(k, 0, <<>>)
       \/ /\ conn' = [conn EXCEPT ![k] =
                        [@ EXCEPT !.state = "READY", !.in_read = TRUE]]
          /\ UNCHANGED <<job, books, gauges>>
    /\ UNCHANGED <<config, running>>

\* READY: the game server does not take all of the client's data, so
\* DoSpliceSend cancels READ on incoming (and so does a full pipe).  Nothing
\* schedules it again; see EverythingForwarded of module Relay.
RelayBlocks(k) ==
    /\ Readable(k, "READY")
    /\ conn' = [conn EXCEPT ![k].in_read = FALSE]
    /\ UNCHANGED <<job, books, gauges, config, running>>

\* READY: one of the two splices saw the end of its stream or failed.
RelayEnds(k) ==
    /\ conn[k].state = "READY"
    /\ Destroy(k, 0, <<>>)
    /\ UNCHANGED <<config, running>>

OnTimeout(k) ==
    /\ conn[k].timeout
    /\ Destroy(k, TimeoutCost, <<>>)
    /\ UNCHANGED <<config, running>>

-----------------------------------------------------------------------------
(***************************************************************************)
(* The thread pool.  JobRun is a worker thread: it starts a job, and later *)
(* it is done with CheckPassword.  JobDone is CheckCredentialsJob::Done in *)
(* the event loop thread, with Connection::OnCheckCredentials inside.      *)
(***************************************************************************)

JobStart(j) ==
    /\ running
    /\ job[j].status = "waiting"
    /\ job' = [job EXCEPT ![j].status = "busy"]
    /\ UNCHANGED <<conn, books, gauges, config, running>>

JobFinish(j) ==
    /\ job[j].status = "busy"
    /\ job' = [job EXCEPT ![j].status = "done",
                          ![j].result = (job[j].credentials = "good")]
    /\ UNCHANGED <<conn, books, gauges, config, running>>

JobDoneCanceled(j) ==
    /\ job[j].status = "done"
    /\ job[j].canceled
    /\ job' = [job EXCEPT ![j] = FreeJob]
    /\ UNCHANGED <<conn, books, gauges, config, running>>

\* cancel_ptr is cleared first, so ~Connection does not cancel the job that
\* is being delivered.
DestroyInCallback(k, cost, counters) ==
    /\ Book(k, cost, counters)
    /\ Delete(k)

JobDoneRejected(j) ==
    /\ job[j].status = "done"
    /\ ~job[j].canceled
    /\ ~job[j].result
    /\ job' = [job EXCEPT ![j] = FreeJob]
    /\ DestroyInCallback(job[j].target, RejectedLoginCost, <<"rejected_logins">>)
    /\ UNCHANGED <<config, running>>

JobDoneAccepted(j) ==
    LET k == job[j].target
    IN  /\ job[j].status = "done"
        /\ ~job[j].canceled
        /\ job[j].result
        /\ job' = [job EXCEPT ![j] = FreeJob]
        /\ \/ /\ conn' = [conn EXCEPT ![k] = AcceptedConn(@)]
              /\ Book(k, AcceptedLoginCost, <<"accepted_logins">>)
              /\ UNCHANGED gauges
           \/ server_list /\ DestroyInCallback(k, AcceptedLoginCost, <<"accepted_logins">>)
        /\ UNCHANGED <<config, running>>

-----------------------------------------------------------------------------
(***************************************************************************)
(* Instance::OnShutdown: the workers take no more jobs, then the listener  *)
(* destroys all its connections, which cancels their jobs.                 *)
(***************************************************************************)
OnShutdown ==
    /\ running
    /\ running' = FALSE
    /\ \E outcome \in [Jobs -> UNION {CancelOutcomes(job[j]) : j \in Jobs}] :
         /\ \A j \in Jobs : outcome[j] \in CancelOutcomes(job[j])
         /\ job' = [j \in Jobs |-> IF \E k \in Conns : conn[k].cancel_ptr = j
                                  THEN outcome[j] ELSE job[j]]
    /\ conn' = [k \in Conns |-> Gone]
    /\ client_connections' =
         client_connections - Cardinality({k \in Conns : conn[k].state # "none"})
    /\ server_connections' =
         server_connections - Cardinality({k \in Conns : conn[k].out})
    /\ UNCHANGED <<books, config>>

ConnectionStep(k) ==
    \/ NewConnection(k)
    \/ OnIncomingDead(k)
    \/ ReceiveLoginPacketsFail(k)
    \/ ReceiveLoginPacketsPartial(k)
    \/ \E credentials \in {"good", "bad"} : ReceiveLoginPacketsUnchecked(k, credentials)
    \/ \E credentials \in {"good", "bad"}, j \in Jobs :
            ReceiveLoginPacketsChecked(k, credentials, j)
    \/ ReceivePlayServer(k)
    \/ OnIncomingWhileConnecting(k)
    \/ OnSocketConnectSuccess(k)
    \/ OnSocketConnectError(k)
    \/ OnOutgoingDead(k)
    \/ ReceiveServerList(k)
    \/ RelayBlocks(k)
    \/ RelayEnds(k)
    \/ OnTimeout(k)

JobStep(j) ==
    \/ JobStart(j)
    \/ JobFinish(j)
    \/ JobDoneCanceled(j)
    \/ JobDoneRejected(j)
    \/ JobDoneAccepted(j)

Next ==
    \/ \E k \in Conns : ConnectionStep(k)
    \/ \E j \in Jobs : JobStep(j)
    \/ OnShutdown

Spec == Init /\ [][Next]_vars

\* Timers fire, connect.Connect() has a timeout of its own, and the worker
\* threads and the event loop work off what is queued.  Peers owe nothing.
Fairness ==
    /\ \A k \in Conns : WF_vars(OnTimeout(k))
    /\ \A k \in Conns : WF_vars(OnSocketConnectSuccess(k) \/ OnSocketConnectError(k))
    /\ \A j \in Jobs : WF_vars(JobStep(j))

FairSpec == Spec /\ Fairness

-----------------------------------------------------------------------------
(***************************************************************************)
(* Properties.                                                             *)
(***************************************************************************)

Accepted(k) == conn[k].state \in {"SERVER_LIST", "CONNECTING", "SEND_PLAY_SERVER", "READY"}

\* A job that will call back is bound to a Connection that still exists, is
\* waiting for exactly this job and will cancel it in its destructor: no
\* callback reaches a deleted Connection, or a new one at the same address.
CallbackTargetAlive ==
    \A j \in Jobs :
        (job[j].status # "none" /\ ~job[j].canceled) =>
            /\ job[j].target \in Conns
            /\ conn[job[j].target].state = "CHECK_CREDENTIALS"
            /\ conn[job[j].target].cancel_ptr = j
            /\ conn[job[j].target].credentials = job[j].credentials

\* The Prometheus gauges count the Connection objects and the open outgoing
\* sockets, on every error path; after the shutdown both are zero, as the
\* destructor of Instance asserts.
GaugesExact ==
    /\ client_connections = Cardinality({k \in Conns : conn[k].state # "none"})
    /\ server_connections = Cardinality({k \in Conns : conn[k].out})

\* The counters, the bill and the fate of a connection tell the same story,
\* on every path through the handlers: one outcome for each login, at most
\* one for the connect that follows an accepted one, each with its price.
CountedAsBilled ==
    \A k \in Conns :
        LET price == AcceptedLoginCost
            accepted == <<"accepted_logins">>
            linked == <<"accepted_logins", "server_connections_established">>
        IN  <<counted[k], bill[k]>> \in
              CASE conn[k].state \in {"INITIAL", "CHECK_CREDENTIALS"} -> {<<<<>>, 0>>}
                [] Accepted(k) -> {<<IF conn[k].out THEN linked ELSE accepted, price>>}
                [] OTHER ->
                     ({<<>>} \X {0, DatabaseErrorCost, InitialHangupCost, TimeoutCost})
                     \cup ({<<"malformed_logins">>} \X {MalformedLoginCost, BadUsernameCost})
                     \cup {<<<<"rejected_logins">>, RejectedLoginCost>>}
                     \cup ({accepted} \X {price, price + TimeoutCost})
                     \cup {<<Append(accepted, "server_connections_failed"), price>>}
                     \cup ({linked} \X {price, price + ServerDeadCost})

\* What each handler relies on without looking: only a connection that still
\* owes its login or its choice of a server has a timeout running (one left
\* behind would kill a game session), the packets to replay are complete
\* once the login has been accepted, an outgoing socket exists exactly from
\* the end of the connect on, and READ is off in the two states for which
\* OnIncomingReady has no branch: what the client sends ahead of the verdict
\* would be spliced to no socket, what it sends ahead of the game server's
\* list would overtake the PlayServer packet.
HandlerAssumptions ==
    \A k \in Conns :
        /\ conn[k].timeout => conn[k].state \in {"INITIAL", "SERVER_LIST"}
        /\ Accepted(k) => conn[k].fill = Full /\ conn[k].cancel_ptr = NoJob
        /\ conn[k].connecting <=> conn[k].state = "CONNECTING"
        /\ conn[k].out <=> conn[k].state \in {"SEND_PLAY_SERVER", "READY"}
        /\ conn[k].in_read => conn[k].state \notin {"CHECK_CREDENTIALS", "SEND_PLAY_SERVER"}

\* No client can keep a Connection in its login phase: it times out, is
\* answered by the database or ends up connected.
HandshakeEnds ==
    \A k \in Conns :
        conn[k].state \in {"INITIAL", "CHECK_CREDENTIALS", "SERVER_LIST", "CONNECTING"}
            ~> conn[k].state \in {"none", "SEND_PLAY_SERVER", "READY"}

Phase(k) ==
    CASE conn[k].state = "none" -> "none"
      [] Accepted(k) -> "accepted"
      [] OTHER -> "login"

Gate == INSTANCE LoginGate WITH
    phase   <- [k \in Conns |-> Phase(k)],
    offer   <- [k \in Conns |-> conn[k].credentials],
    linked  <- [k \in Conns |-> conn[k].out],
    checked <- database

\* Connection implements LoginGate: however hangups, timeouts, shutdown and
\* late answers of the thread pool interleave, a client is linked to a game
\* server only with credentials it sent itself on this connection and that
\* were found good, and is charged what LoginGate says.
GateImplemented == Gate!Spec

\* Stated by the assertion in OnIncomingReady, assert(!connect.IsPending()):
\* no READ event is scheduled on the client socket while connecting.
NotReadableWhileConnecting ==
    \A k \in Conns : conn[k].connecting => ~conn[k].in_read
=============================================================================

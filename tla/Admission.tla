------------------------------ MODULE Admission ------------------------------
(***************************************************************************)
(* Who gets a Connection: Listener, DelayedConnection, KnockListener and   *)
(* the ClientAccountingMap they share.  All of it runs in the event loop   *)
(* thread, so every handler is one action; what interleaves is the order   *)
(* in which accepts, datagrams, hangups, timers, answers of the user       *)
(* database and the shutdown signal are dispatched.                        *)
(*                                                                         *)
(* A Connection is reduced to what it does to the accounting: it may be    *)
(* charged for an accepted login and it is charged for the way it ends.    *)
(***************************************************************************)
EXTENDS ClientAccounting

CONSTANTS
    None,          \* the null pointer: an address ToInteger maps to 0
    CleanupAfter,  \* ClientAccountingMap::ScheduleCleanup delay
    NftTimeout,    \* timeout of the nftables set, 0 if none is configured
    MaxRequests    \* bound: knock requests of one client in the thread pool

ASSUME NoneAssumption == None \notin Clients
ASSUME CleanupAssumption == CleanupAfter \in Nat /\ NftTimeout \in Nat
ASSUME RequestsAssumption == MaxRequests \in Nat
\* One minute of tarpit, five minutes of memory.
ASSUME LifetimeAssumption == TarpitFor <= ExpiresAfter

VARIABLES
    map,            \* ClientAccountingMap::map: the addresses with an entry
    per,            \* the entries; NewPerClient where there is none
    cleanup_timer,  \* ticks left, Off when not pending
    kind,           \* what became of an accepted TCP connection
    owner,          \* AccountedClientConnection::per_client
    timer,          \* DelayedConnection::timer
    requests,       \* KnockListener::Request objects waiting for the database
    nft,            \* ticks the address stays in the kernel's nft set
    require_knock,  \* configuration: is there a KnockListener?
    database,       \* configuration: is there a user database?
    running         \* FALSE once Instance::OnShutdown has run

vars == <<map, per, cleanup_timer, kind, owner, timer, requests, nft,
          require_knock, database, running>>

config == <<require_knock, database>>

Off == -1
MaxTimer == MaxDelay + DelayStep
Kinds == {"none", "delayed", "login", "accepted"}

TypeOK ==
    /\ map \in SUBSET Clients
    /\ per \in [Clients -> PerClient]
    /\ cleanup_timer \in Off..CleanupAfter
    /\ kind \in [Conns -> Kinds]
    /\ owner \in [Conns -> Clients \cup {None}]
    /\ timer \in [Conns -> Off..MaxTimer]
    /\ requests \in [Clients -> 0..MaxRequests]
    /\ nft \in [Clients -> 0..NftTimeout]
    /\ require_knock \in BOOLEAN
    /\ database \in BOOLEAN
    /\ running \in BOOLEAN

Init ==
    /\ map = {}
    /\ per = [c \in Clients |-> NewPerClient]
    /\ cleanup_timer = Off
    /\ kind = [k \in Conns |-> "none"]
    /\ owner = [k \in Conns |-> None]
    /\ timer = [k \in Conns |-> Off]
    /\ requests = [c \in Clients |-> 0]
    /\ nft = [c \in Clients |-> 0]
    /\ require_knock \in BOOLEAN
    /\ database \in BOOLEAN
    /\ running = TRUE

-----------------------------------------------------------------------------
(***************************************************************************)
(* ClientAccountingMap.                                                    *)
(***************************************************************************)

ScheduleCleanup(t) == IF t = Off THEN CleanupAfter ELSE t

\* Get(c) followed by storing the entry the handler leaves behind.
GetAndSet(c, pc) ==
    /\ map' = map \cup {c}
    /\ per' = [per EXCEPT ![c] = pc]

\* ~AccountedClientConnection of k, whose entry the handler left as pc.
ReleaseAccounting(k, pc) ==
    IF owner[k] = None THEN UNCHANGED <<per, cleanup_timer>>
    ELSE LET left == RemoveConnection(pc, k)
         IN  /\ per' = [per EXCEPT ![owner[k]] = left]
             /\ cleanup_timer' = IF left.connections = {}
                                 THEN ScheduleCleanup(cleanup_timer)
                                 ELSE cleanup_timer

\* AccountedClientConnection::UpdateTokenBucket; 0 stands for "not called".
Charged(k, size) ==
    IF owner[k] = None THEN NewPerClient
    ELSE IF size = 0 THEN per[owner[k]]
    ELSE UpdateTokenBucket(per[owner[k]], size)

ExpiredWhileConnected == {c \in map : per[c].expires = 0}

Expired == {c \in map : per[c].connections = {} /\ per[c].expires = 0}

NoCleanupAgain == Off

\* An entry without connections that is not yet expired needs another visit.
CleanupAgain ==
    IF \E c \in map \ Expired : per[c].connections = {} THEN CleanupAfter ELSE Off

OnCleanupTimer ==
    /\ running
    /\ cleanup_timer = 0
    /\ map' = map \ Expired
    /\ per' = [c \in Clients |-> IF c \in Expired THEN NewPerClient ELSE per[c]]
    /\ cleanup_timer' = CleanupAgain
    /\ UNCHANGED <<kind, owner, timer, requests, nft, config, running>>

-----------------------------------------------------------------------------
(***************************************************************************)
(* Listener::OnAccept.  The token is taken first; all checks look at what  *)
(* that leaves behind.                                                     *)
(***************************************************************************)

AcceptedEntry(c) == UpdateTokenBucket(per[c], AcceptCost)

Refused(pc) == (require_knock /\ ~pc.knocked) \/ ~Check(pc)

\* Listener::AddConnection and Connection::Connection, or the constructor of
\* DelayedConnection.
Enter(k, c, what, delay) ==
    /\ kind' = [kind EXCEPT ![k] = what]
    /\ owner' = [owner EXCEPT ![k] = c]
    /\ timer' = [timer EXCEPT ![k] = delay]

OnAcceptRefused(c) ==
    /\ running
    /\ Refused(AcceptedEntry(c))
    /\ GetAndSet(c, AcceptedEntry(c))
    /\ UNCHANGED <<cleanup_timer, kind, owner, timer, requests, nft, config, running>>

TimerNotScheduled(pc) == Off

\* The constructor of DelayedConnection schedules its timer.
DelayTimer(pc) == pc.delay

OnAcceptDelayed(k, c) ==
    LET pc == AcceptedEntry(c)
    IN  /\ running
        /\ kind[k] = "none"
        /\ ~Refused(pc)
        /\ pc.delay > 0
        /\ GetAndSet(c, AddConnection(pc, k))
        /\ Enter(k, c, "delayed", DelayTimer(pc))
        /\ UNCHANGED <<cleanup_timer, requests, nft, config, running>>

OpenBeforeCharge(k, c) ==
    /\ running
    /\ kind[k] = "none"
    /\ ~Refused(per[c])
    /\ per[c].delay = 0
    /\ GetAndSet(c, AddConnection(AcceptedEntry(c), k))
    /\ Enter(k, c, "login", Off)
    /\ UNCHANGED <<cleanup_timer, requests, nft, config, running>>

OnAcceptOpen(k, c) ==
    LET pc == AcceptedEntry(c)
    IN  /\ running
        /\ kind[k] = "none"
        /\ ~Refused(pc)
        /\ pc.delay = 0
        /\ GetAndSet(c, AddConnection(pc, k))
        /\ Enter(k, c, "login", Off)
        /\ UNCHANGED <<cleanup_timer, requests, nft, config, running>>

\* GetClientAccounting returned nullptr: no accounting, and no knock either.
OnAcceptUnaccounted(k) ==
    /\ running
    /\ kind[k] = "none"
    /\ Enter(k, None, "login", Off)
    /\ UNCHANGED <<map, per, cleanup_timer, requests, nft, config, running>>

-----------------------------------------------------------------------------
(***************************************************************************)
(* DelayedConnection.                                                      *)
(***************************************************************************)

\* OnTimer: the new Connection joins the list before ~DelayedConnection
\* leaves it, so the list does not become empty; both are k here.
OnTimer(k) ==
    /\ running
    /\ kind[k] = "delayed"
    /\ timer[k] = 0
    /\ Enter(k, owner[k], "login", Off)
    /\ per' = [per EXCEPT ![owner[k]] = AddConnection(RemoveConnection(@, k), k)]
    /\ UNCHANGED <<map, cleanup_timer, requests, nft, config, running>>

\* OnSocketReady: the client has hung up.
OnSocketReady(k) ==
    /\ running
    /\ kind[k] = "delayed"
    /\ ReleaseAccounting(k, Charged(k, DelayedHangupCost))
    /\ Enter(k, None, "none", Off)
    /\ UNCHANGED <<map, requests, nft, config, running>>

-----------------------------------------------------------------------------
(***************************************************************************)
(* Connection, as far as the accounting sees it.                           *)
(***************************************************************************)

LoginAccepted(k) ==
    /\ running
    /\ kind[k] = "login"
    /\ kind' = [kind EXCEPT ![k] = "accepted"]
    /\ per' = IF owner[k] = None THEN per
              ELSE [per EXCEPT ![owner[k]] = Charged(k, AcceptedLoginCost)]
    /\ UNCHANGED <<map, cleanup_timer, owner, timer, requests, nft, config, running>>

ConnectionDestroy(k, cost) ==
    /\ running
    /\ \/ kind[k] = "login" /\ cost \in LoginDestroyCosts
       \/ kind[k] = "accepted" /\ cost \in AcceptedDestroyCosts
    /\ ReleaseAccounting(k, Charged(k, cost))
    /\ Enter(k, None, "none", Off)
    /\ UNCHANGED <<map, requests, nft, config, running>>

-----------------------------------------------------------------------------
(***************************************************************************)
(* KnockListener.                                                          *)
(***************************************************************************)

\* `nft` may not start, die or fail, which the caller only logs.
NftAddElement(c) ==
    \/ nft' = [nft EXCEPT ![c] = NftTimeout]
    \/ UNCHANGED nft

\* Request::OnCheckCredentials.  The entry is looked up again, by address:
\* the one the datagram saw may have been cleaned up since.
OnCheckCredentials(c, result) ==
    /\ GetAndSet(c, IF result THEN [per[c] EXCEPT !.knocked = TRUE]
                    ELSE UpdateTokenBucket(per[c], RejectedKnockCost))
    /\ IF result THEN NftAddElement(c) ELSE UNCHANGED nft

MalformedDatagram(c, cost) ==
    /\ running
    /\ require_knock
    /\ GetAndSet(c, UpdateTokenBucket(per[c], cost))
    /\ UNCHANGED <<cleanup_timer, kind, owner, timer, requests, nft, config, running>>

\* Without a user database, Database::CheckCredentials calls back at once.
KnockWithoutDatabase(c) ==
    /\ running
    /\ require_knock
    /\ ~database
    /\ OnCheckCredentials(c, TRUE)
    /\ UNCHANGED <<cleanup_timer, kind, owner, timer, requests, config, running>>

KnockRequest(c) ==
    /\ running
    /\ require_knock
    /\ database
    /\ requests[c] < MaxRequests
    /\ GetAndSet(c, per[c])
    /\ requests' = [requests EXCEPT ![c] = @ + 1]
    /\ UNCHANGED <<cleanup_timer, kind, owner, timer, nft, config, running>>

\* A Request is not cancelled by anything, not even by the shutdown.
KnockRequestDone(c, result) ==
    /\ requests[c] > 0
    /\ requests' = [requests EXCEPT ![c] = @ - 1]
    /\ OnCheckCredentials(c, result)
    /\ UNCHANGED <<cleanup_timer, kind, owner, timer, config, running>>

-----------------------------------------------------------------------------
(***************************************************************************)
(* Instance::OnShutdown: the listeners are cleared, which destroys all     *)
(* their connections, and only then is the cleanup timer cancelled.        *)
(***************************************************************************)

Disconnected(pc) ==
    IF pc.connections = {} THEN pc
    ELSE [pc EXCEPT !.connections = {}, !.expires = ExpiresAfter]

ClearListeners ==
    /\ kind' = [k \in Conns |-> "none"]
    /\ owner' = [k \in Conns |-> None]
    /\ timer' = [k \in Conns |-> Off]
    /\ per' = [c \in Clients |-> Disconnected(per[c])]

\* The cleanup timer after the last connection of every client is gone.
TimerAfterClear(t) ==
    IF \E c \in Clients : per[c].connections # {} THEN ScheduleCleanup(t) ELSE t

TimerKept(t) == t

\* ClientAccountingMap::Shutdown.
Shutdown(t) == Off

OnShutdown ==
    /\ running
    /\ running' = FALSE
    /\ ClearListeners
    /\ cleanup_timer' = Shutdown(TimerAfterClear(cleanup_timer))
    /\ UNCHANGED <<map, requests, nft, config>>

-----------------------------------------------------------------------------
(***************************************************************************)
(* Time passes.  A timer that is due may fire late, never early.           *)
(***************************************************************************)
Tick ==
    /\ \E level \in [Clients -> (-MaxDebt)..Burst] :
         /\ \A c \in Clients : level[c] \in Refill(per[c].available)
         /\ per' = [c \in Clients |-> AgeTo(per[c], level[c])]
    /\ cleanup_timer' = Less(cleanup_timer)
    /\ timer' = [k \in Conns |-> Less(timer[k])]
    /\ nft' = [c \in Clients |-> Less(nft[c])]
    /\ UNCHANGED <<map, kind, owner, requests, config, running>>

OnAccept ==
    \/ \E c \in Clients : OnAcceptRefused(c)
    \/ \E k \in Conns, c \in Clients : OnAcceptDelayed(k, c)
    \/ \E k \in Conns, c \in Clients : OnAcceptOpen(k, c)
    \/ \E k \in Conns : OnAcceptUnaccounted(k)

OnUdpDatagram ==
    \/ \E c \in Clients : MalformedDatagram(c, MalformedKnockCost)
    \/ \E c \in Clients : MalformedDatagram(c, BadKnockNameCost)
    \/ \E c \in Clients : KnockWithoutDatabase(c)
    \/ \E c \in Clients : KnockRequest(c)

Next ==
    \/ OnAccept
    \/ OnUdpDatagram
    \/ \E k \in Conns : OnTimer(k)
    \/ \E k \in Conns : OnSocketReady(k)
    \/ \E k \in Conns : LoginAccepted(k)
    \/ \E k \in Conns, cost \in LoginDestroyCosts : ConnectionDestroy(k, cost)
    \/ \E c \in Clients, result \in BOOLEAN : KnockRequestDone(c, result)
    \/ OnCleanupTimer
    \/ OnShutdown
    \/ Tick

Spec == Init /\ [][Next]_vars

\* The clock advances and the event loop dispatches timers that are due;
\* nothing is assumed of clients, of the network or of the thread pool.
Fairness ==
    /\ WF_vars(Tick)
    /\ WF_vars(OnCleanupTimer)
    /\ \A k \in Conns : WF_vars(OnTimer(k))

FairSpec == Spec /\ Fairness

-----------------------------------------------------------------------------
(***************************************************************************)
(* Properties.                                                             *)
(***************************************************************************)

\* The per_client pointer of a connection and the list it is linked into
\* agree, and the entry they meet in is never deleted by the cleanup timer
\* while a connection still points to it (no dangling per_client).
NoDangling ==
    \A k \in Conns :
        /\ owner[k] # None => owner[k] \in map /\ kind[k] # "none"
        /\ \A c \in Clients : k \in per[c].connections <=> owner[k] = c

\* However accepts, delayed connections that are promoted without a new
\* Check() and hangups interleave, an address never holds more than
\* max_connections connections, the delayed ones included.
ConnectionLimit ==
    MaxConnections > 0 =>
        \A c \in Clients : Cardinality(per[c].connections) <= MaxConnections

\* Listener::OnAccept never serves a client at once that its token bucket
\* says is over the limit or still in the tarpit; and where a knock is
\* required it admits nobody, delayed or not, who has not knocked since it
\* last was over the limit.
AdmissionControl ==
    [][\A k \in Conns, c \in Clients :
          (kind[k] = "none" /\ owner'[k] = c) =>
              /\ kind'[k] = "login" =>
                    per'[c].available >= 0 /\ per'[c].delay = 0
              /\ require_knock =>
                    per'[c].knocked /\ per'[c].available >= 0]_vars

\* During its tarpit a remembered client's delay is worked off one step at a
\* time and never to zero ("After this time point, the delay can be cleared").
DelayKeptInTarpit ==
    [][\A c \in Clients :
          (c \in map' /\ per[c].tarpit_until > 0 /\ per[c].delay > 0) =>
              /\ per'[c].delay > 0
              /\ per'[c].delay >= per[c].delay - DelayStep]_vars

\* Without a knock listener, OnCleanupTimer never forgets a client that is
\* still in the tarpit: an idle entry lives at least as long as its tarpit,
\* because every charge is followed by a RemoveConnection.
TarpitOutlived ==
    ~require_knock =>
        \A c \in map : per[c].connections = {} =>
                          per[c].expires >= per[c].tarpit_until

\* An idle entry that once had a connection is never left behind with the
\* cleanup timer unarmed.
CleanupArmed ==
    running => \A c \in map :
        (per[c].connections = {} /\ per[c].expires > 0) => cleanup_timer # Off

\* After OnShutdown nothing of the admission control keeps the event loop
\* running, and nothing arms a timer again: neither the destructors that
\* OnShutdown runs nor knock requests that complete later.
QuietAfterShutdown ==
    ~running => /\ cleanup_timer = Off
                /\ \A k \in Conns : timer[k] = Off /\ owner[k] = None

\* A client in the tarpit is served after its delay unless it hangs up.
DelayedServed ==
    \A k \in Conns : kind[k] = "delayed" ~> kind[k] # "delayed"

\* The map does not grow forever: while the cleanup timer is armed, an entry
\* without connections, whether it once had some or was created by a knock
\* or a bad datagram, is deleted eventually, unless the client comes back; and
\* an entry that had connections does not even have to wait for another
\* client to arm the timer.
EntryReclaimed ==
    \A c \in Clients :
        (c \in map /\ per[c].connections = {} /\ (cleanup_timer # Off \/ per[c].expires > 0))
            ~> (c \notin map \/ per[c].connections # {} \/ ~running)

\* Stated by the example nftables.conf, where a knock lasts ("timeout 5m"),
\* with the one reset that UpdateTokenBucket explains ("reset the 'knocked'
\* flag for clients that are over the limit"): a knock that the firewall
\* still honours is taken back for that reason.
KnockResetOnlyOverLimit ==
    [][\A c \in Clients :
          (per[c].knocked /\ nft[c] > 0 /\ ~per'[c].knocked) =>
              per'[c].available < 0]_vars
=============================================================================

-------------------------------- MODULE Relay --------------------------------
(***************************************************************************)
(* The READY state of a Connection: two Splice objects move data between   *)
(* the client and the game server through pipes from a shared PipeStock.   *)
(* (Connection.cxx: DoSpliceSend, OnIncomingReady, OnOutgoingReady;        *)
(* Splice.cxx; PipeStock.cxx)                                              *)
(*                                                                         *)
(* A link is one direction of one Connection.  READ is a subscription on   *)
(* the socket a link comes from, WRITE on the socket it goes to, and both  *)
(* concern only this link: a handler that is called for both events is the *)
(* WRITE step of one link followed by the READ step of the other.          *)
(***************************************************************************)
EXTENDS Integers, Sequences, FiniteSets, SequencesExt

CONSTANTS
    Conns,     \* Connection objects, each used for one session
    Pipes,     \* identities of pipes
    NoPipe,    \* the null pointer
    PipeSize,  \* capacity of a pipe
    MaxIdle,   \* pipes the PipeStock keeps for reuse (64)
    Window,    \* what the kernel buffers for a peer that does not read
    MaxBytes   \* bound: units of data in all open sessions together

ASSUME SizeAssumption ==
    /\ PipeSize \in Nat \ {0}
    /\ MaxIdle \in Nat
    /\ Window \in Nat \ {0}
    /\ MaxBytes \in Nat
ASSUME PipeAssumption == NoPipe \notin Pipes

Dirs == {"in_out", "out_in"}
Links == Conns \X Dirs

VARIABLES
    session,  \* of a Connection: "new", "open" (READY) or "closed"
    link,     \* the state of a link, see LinkRecord
    content,  \* what is in the pipes: units are <<link, number>>
    idle,     \* PipeStock: pipes kept for reuse
    process   \* "up" or "terminated"

vars == <<session, link, content, idle, process>>

LinkRecord ==
    [read      : BOOLEAN,               \* from.IsReadPending()
     write     : BOOLEAN,               \* to.IsWritePending()
     pipe      : Pipes \cup {NoPipe},   \* Splice::pipe
     size      : 0..PipeSize,           \* Splice::size
     sent      : Nat,                   \* units the sending peer has sent
     received  : Nat,                   \* units spliced from its socket
     eof       : BOOLEAN,               \* the sending peer has sent FIN
     delivered : Seq(Links \X Nat),     \* spliced to the other socket
     unread    : 0..Window,             \* of these, not yet read by the peer
     fin       : BOOLEAN]               \* ShutdownWrite() on that socket

Blank == [read |-> FALSE, write |-> FALSE, pipe |-> NoPipe, size |-> 0,
          sent |-> 0, received |-> 0, eof |-> FALSE,
          delivered |-> <<>>, unread |-> 0, fin |-> FALSE]

TypeOK ==
    /\ session \in [Conns -> {"new", "open", "closed"}]
    /\ link \in [Links -> LinkRecord]
    /\ content \in [Pipes -> Seq(Links \X Nat)]
    /\ idle \in SUBSET Pipes
    /\ process \in {"up", "terminated"}

Init ==
    /\ session = [k \in Conns |-> "new"]
    /\ link = [l \in Links |-> Blank]
    /\ content = [p \in Pipes |-> <<>>]
    /\ idle = {}
    /\ process = "up"

Smaller(a, b) == IF a < b THEN a ELSE b

-----------------------------------------------------------------------------
(***************************************************************************)
(* PipeStock.                                                              *)
(***************************************************************************)

InUse == {link[l].pipe : l \in Links} \ {NoPipe}

\* GetNow: an idle pipe if there is one, else a new one.
Obtainable == IF idle # {} THEN idle ELSE Pipes \ InUse

\* The pipe a ReceiveFrom on l works with.
PipesFor(l) == IF link[l].pipe # NoPipe THEN {link[l].pipe} ELSE Obtainable

\* Put(REUSE): kept if there are not too many idle ones already.
IdleAfterPut(idles, put) ==
    {s \in SUBSET (idles \cup put) :
        /\ idles \subseteq s
        /\ Cardinality(s) = Smaller(MaxIdle, Cardinality(idles \cup put))}

-----------------------------------------------------------------------------
(***************************************************************************)
(* The peers, and the connection's arrival in READY.                       *)
(***************************************************************************)

Open(k) ==
    /\ process = "up"
    /\ session[k] = "new"
    /\ session' = [session EXCEPT ![k] = "open"]
    /\ link' = [l \in Links |-> IF l[1] = k THEN [link[l] EXCEPT !.read = TRUE]
                                ELSE link[l]]
    /\ UNCHANGED <<content, idle, process>>

IsOpen(l) == session[l[1]] = "open"

TotalSent == MapThenSumSet(LAMBDA m : link[m].sent, Links)

PeerSend(l) ==
    /\ IsOpen(l)
    /\ ~link[l].eof
    /\ TotalSent < MaxBytes
    /\ link' = [link EXCEPT ![l].sent = @ + 1]
    /\ UNCHANGED <<session, content, idle, process>>

PeerEof(l) ==
    /\ IsOpen(l)
    /\ ~link[l].eof
    /\ link' = [link EXCEPT ![l].eof = TRUE]
    /\ UNCHANGED <<session, content, idle, process>>

PeerRead(l) ==
    /\ IsOpen(l)
    /\ link[l].unread > 0
    /\ link' = [link EXCEPT ![l].unread = @ - 1]
    /\ UNCHANGED <<session, content, idle, process>>

-----------------------------------------------------------------------------
(***************************************************************************)
(* DoSpliceSend with Splice::SendTo: what is in the pipe goes to the       *)
(* socket, as far as that has room.                                        *)
(***************************************************************************)

\* How much splice() may move, which is for the kernel to say; 0 is EAGAIN.
SendSizes(lk) ==
    LET room == Smaller(lk.size, Window - lk.unread)
    IN  IF room = 0 THEN {0} ELSE 1..room

KeepsReading(lk) == [lk EXCEPT !.write = TRUE]

\* PARTIAL and SOCKET_BLOCKING: READ is cancelled and WRITE scheduled.
Blocked(lk) == [lk EXCEPT !.read = FALSE, !.write = TRUE]

KeepsWriting(lk) == [lk EXCEPT !.pipe = NoPipe]

\* The pipe is empty: it is given back and WRITE cancelled.
Flushed(lk) == [lk EXCEPT !.pipe = NoPipe, !.write = FALSE]

SizeNotReduced(lk, m, data) ==
    LET moved == [lk EXCEPT !.delivered = @ \o SubSeq(data, 1, m),
                            !.unread = @ + m]
    IN  IF m = lk.size THEN Flushed(moved) ELSE Blocked(moved)

\* The link after m units of data were moved.
SpliceSend(lk, m, data) ==
    LET moved == [lk EXCEPT !.size = @ - m,
                            !.delivered = @ \o SubSeq(data, 1, m),
                            !.unread = @ + m]
    IN  IF moved.size = 0 THEN Flushed(moved) ELSE Blocked(moved)

\* The whole of DoSpliceSend on link l, whose state is lk by now and whose
\* pipe p holds data; "idles" are the pipes that are idle by now.
DoSpliceSend(l, lk, p, data, idles) ==
    \E m \in SendSizes(lk) :
        /\ link' = [link EXCEPT ![l] = SpliceSend(lk, m, data)]
        /\ content' = [content EXCEPT ![p] = SubSeq(data, m + 1, Len(data))]
        /\ idle' \in IdleAfterPut(idles, IF m = lk.size THEN {p} ELSE {})
        /\ UNCHANGED <<session, process>>

ReuseAll(k, idles, broken) ==
    LET mine == {link[l].pipe : l \in {k} \X Dirs} \ ({NoPipe} \cup broken)
    IN  /\ idle' \in IdleAfterPut(idles, mine)
        /\ UNCHANGED content

\* ~Splice of both directions: an empty pipe is reused; one that holds data,
\* such as the pipe a SendTo failed on in this very handler, is closed.
ReleasePipes(k, idles, broken) ==
    LET mine == {l \in {k} \X Dirs : link[l].pipe # NoPipe}
        dirty == broken \cup {link[l].pipe : l \in {m \in mine : link[m].size > 0}}
        clean == {link[l].pipe : l \in mine} \ dirty
    IN  /\ idle' \in IdleAfterPut(idles, clean)
        /\ content' = [p \in Pipes |-> IF p \in dirty THEN <<>> ELSE content[p]]

\* ~Connection.  Of a link to which ShutdownWrite() was applied before, what
\* was sent and delivered is remembered.
CloseSession(k, fin) ==
    /\ session' = [session EXCEPT ![k] = "closed"]
    /\ link' = [l \in Links |->
                  CASE l[1] # k -> link[l]
                    [] l \in fin -> [Blank EXCEPT !.sent = link[l].sent,
                                                  !.received = link[l].received,
                                                  !.delivered = link[l].delivered,
                                                  !.fin = TRUE]
                    [] OTHER -> Blank]
    /\ UNCHANGED process

Destroy(k, fin) == ReleasePipes(k, idle, {}) /\ CloseSession(k, fin)

-----------------------------------------------------------------------------
(***************************************************************************)
(* OnIncomingReady and OnOutgoingReady.  ReceiveFrom can only return       *)
(* PIPE_FULL if READ fires while the pipe holds data; ReadOnlyWhenEmpty    *)
(* says that it does not.                                                  *)
(***************************************************************************)

\* The link after n units were spliced from its socket to pipe p.
Received(l, p, n) ==
    [link[l] EXCEPT !.pipe = p, !.size = @ + n, !.received = @ + n]

Units(l, n) == [i \in 1..n |-> <<l, link[l].received + i>>]

OnReadable(l) ==
    /\ IsOpen(l)
    /\ link[l].read
    /\ \E p \in PipesFor(l) :
         \E n \in 1..Smaller(link[l].sent - link[l].received,
                             PipeSize - Len(content[p])) :
           DoSpliceSend(l, Received(l, p, n), p, content[p] \o Units(l, n), idle \ {p})

\* ReceiveFrom succeeds and SendTo fails.
OnReadableSendFails(l) ==
    /\ IsOpen(l)
    /\ link[l].read
    /\ link[l].sent > link[l].received
    /\ \E p \in PipesFor(l) : ReleasePipes(l[1], idle \ {p}, {p})
    /\ CloseSession(l[1], {})

\* EAGAIN although READ was reported: the Splice keeps the empty pipe.
OnReadableSpurious(l) ==
    /\ IsOpen(l)
    /\ link[l].read
    /\ link[l].pipe = NoPipe
    /\ \E p \in Obtainable :
         /\ link' = [link EXCEPT ![l].pipe = p]
         /\ idle' = idle \ {p}
    /\ UNCHANGED <<session, content, process>>

\* SOCKET_CLOSED: ReceiveFrom gives back the pipe, which it may have got just
\* before; the end of the stream is passed on with ShutdownWrite().
OnReadableEof(l) ==
    /\ IsOpen(l)
    /\ link[l].read
    /\ link[l].eof
    /\ link[l].received = link[l].sent
    /\ \E p \in PipesFor(l) :
         \E idles \in IdleAfterPut(idle \ {p}, {p}) : ReleasePipes(l[1], idles, {})
    /\ CloseSession(l[1], {l})

OnWritable(l) ==
    /\ IsOpen(l)
    /\ link[l].write
    /\ link[l].unread < Window
    /\ DoSpliceSend(l, link[l], link[l].pipe, content[link[l].pipe], idle)

\* A dead socket, a failing splice() of a pipe or socket that was not read
\* in the same handler, or the shutdown of uologin.
Abort(k) ==
    /\ session[k] = "open"
    /\ Destroy(k, {})

\* No idle pipe, and pipe() fails: the exception of PipeStock::Create leaves
\* OnIncomingReady or OnOutgoingReady, which are noexcept.
OnReadableNoPipe(l) ==
    /\ IsOpen(l)
    /\ link[l].read
    /\ link[l].pipe = NoPipe
    /\ idle = {}
    /\ process' = "terminated"
    /\ session' = [k \in Conns |-> "closed"]
    /\ link' = [m \in Links |-> Blank]
    /\ content' = [p \in Pipes |-> <<>>]
    /\ UNCHANGED idle

Next ==
    \/ \E k \in Conns : Open(k)
    \/ \E l \in Links : PeerSend(l)
    \/ \E l \in Links : PeerEof(l)
    \/ \E l \in Links : PeerRead(l)
    \/ \E l \in Links : OnReadable(l)
    \/ \E l \in Links : OnReadableSendFails(l)
    \/ \E l \in Links : OnReadableSpurious(l)
    \/ \E l \in Links : OnReadableEof(l)
    \/ \E l \in Links : OnReadableNoPipe(l)
    \/ \E l \in Links : OnWritable(l)
    \/ \E k \in Conns : Abort(k)

Spec == Init /\ [][Next]_vars

\* epoll is level triggered: what is ready and subscribed to is dispatched.
\* The peers are assumed to read what reaches them.
Fairness ==
    \A l \in Links :
        /\ WF_vars(OnReadable(l))
        /\ WF_vars(OnReadableEof(l))
        /\ WF_vars(OnWritable(l))
        /\ WF_vars(PeerRead(l))

FairSpec == Spec /\ Fairness

-----------------------------------------------------------------------------
(***************************************************************************)
(* Properties.                                                             *)
(***************************************************************************)

\* Whatever pipe a Splice got from the stock and however the transfers were
\* cut into pieces: each socket receives exactly a prefix of what the peer of
\* its own Connection sent, in order, with nothing of anybody else.
NoCrossTalk ==
    \A l \in Links :
        /\ Len(link[l].delivered) + link[l].size <= link[l].received
        /\ \A i \in DOMAIN link[l].delivered : link[l].delivered[i] = <<l, i>>

\* Pipes are not shared: not between two splices, and not with the stock,
\* whose pipes are all empty.
PipesExclusive ==
    /\ \A l, m \in Links : link[l].pipe = link[m].pipe => l = m \/ link[l].pipe = NoPipe
    /\ idle \cap InUse = {}
    /\ \A p \in idle : content[p] = <<>>

\* The assertions of SendTo and of the PIPE_FULL branches: WRITE is scheduled
\* exactly while the Splice holds data (an idle WRITE would spin, a missing
\* one would hang), and READ never fires before that data is gone.
ReadOnlyWhenEmpty ==
    \A l \in Links : IsOpen(l) =>
        /\ link[l].write <=> link[l].size > 0
        /\ link[l].size > 0 => ~link[l].read /\ link[l].pipe # NoPipe
        /\ link[l].size = (IF link[l].pipe = NoPipe THEN 0
                           ELSE Len(content[link[l].pipe]))

Abstract == INSTANCE Channel WITH
    sent     <- [l \in Links |-> link[l].sent],
    got      <- [l \in Links |-> link[l].delivered],
    complete <- {l \in Links : link[l].fin}

\* As long as the process lives, Relay implements Channel: whatever is read,
\* written, blocked, reused or torn down in between, each receiver gets the
\* data of its own session in order and without gaps, and an end of stream
\* only after the last of it.
ChannelImplemented == Abstract!Init /\ [][process' = "up" => Abstract!Next]_(Abstract!channelVars)

\* Stated by the noexcept of OnIncomingReady and OnOutgoingReady: an error in
\* one session does not end the process, and with it all the others.
HandlersDoNotThrow == process = "up"

\* The package description says "game proxy": what a peer sends is forwarded
\* as long as the connection lasts and the receiver reads.
EverythingForwarded ==
    \A l \in Links :
        (IsOpen(l) /\ link[l].sent > link[l].received)
            ~> (~IsOpen(l) \/ link[l].sent = link[l].received)
=============================================================================

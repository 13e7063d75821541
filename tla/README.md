# A verification project for uologin

uologin is a login server and proxy for Ultima Online.  It accepts TCP
connections from game clients, checks their credentials against a Berkeley DB
file, connects to a game server on their behalf and then forwards data in both
directions with `splice()`.  It defends itself with per-address limits, a
tarpit and, if configured, a UDP "knock" that must precede the TCP connection.

This directory holds TLA+ models of that program, the TLC configurations that
check them and TLAPS proofs of what they show, for every value of their constants.
`PROJECT.json` maps every definition to the lines it models and lists the
hazards, runs, mutants, findings and theorems.

## The system

Everything but the password check runs in one event loop thread, so a handler
is one atomic step.  What interleaves is the order in which handlers are
dispatched, the worker threads of the thread pool, the peers and the clock.

| component | source (`src/src/`) | state | operations |
|---|---|---|---|
| client accounting | `net/ClientAccounting.*`, `net/AccountedClientConnection.*` | one entry per address (connections, expiry, tarpit, delay, token bucket, knock), cleanup timer | Get, Check, Add/RemoveConnection, UpdateTokenBucket, OnCleanupTimer |
| listener | `Listener.*`, `DelayedConnection.*` | connections, delayed connections and their timers | OnAccept, OnTimer, OnSocketReady |
| knock listener | `KnockListener.*`, `Nftables.*` | requests waiting for the database | OnUdpDatagram, OnCheckCredentials, `nft add element` |
| connection | `Connection.*` | state, packets read so far, subscriptions, timeout, connect, job | OnIncomingReady, OnOutgoingReady, OnTimeout, OnCheckCredentials, OnSocketConnect* |
| splice | `Splice.*`, `PipeStock.*` | pipe and fill level per direction, idle pipes | ReceiveFrom, SendTo, Get/Put |
| user database | `Database.*`, `BerkeleyDB.*` | handle, mtime and error of the last reload, jobs | CheckCredentials, MaybeAutoReload, job Run/Done/Cancel |
| instance | `Instance.*` | the above, gauges and counters | OnShutdown, Prometheus text |
| configuration, start | `Config.*`, `CommandLine.*`, `Main.cxx` | settings | ParseLine, Finish, Run |
| protocol | `uo/*`, `Validate.hxx` | the two byte streams of a connection | packets read, hidden, inserted and passed on |

They interact by direct calls and callbacks: the listener creates connections
and charges entries; a connection, its `DelayedConnection` predecessor and the
knock listener share the entries through raw pointers or by looking them up
again; connections and knock requests share the database, whose jobs call back
later; all connections share the pipe stock; the shutdown destroys the
listeners, which destroys the connections, which cancels their jobs and
releases their entries.

What is hard: object lifetimes across callbacks (a job that outlives its
connection, an entry that is deleted by a timer), the order of checks and
charges, timers that must be armed or cancelled, error paths that must undo
exactly what was done, worker threads that use a handle the event loop
replaces, flow control that is a matter of event subscriptions, and a byte
stream that is cut where packets do not end.  The
properties that make each part correct are the ones listed with the runs below;
`hazards` in `PROJECT.json` names the line where each one bites.

## The modules

| module | models | |
|---|---|---|
| `Tokens` | the price of each call of UpdateTokenBucket | shared by the next four |
| `ClientAccounting` | PerClientAccounting: each method as an operator on a record | pure |
| `Admission` | ClientAccountingMap, Listener, DelayedConnection, KnockListener, the shutdown | composes `ClientAccounting` |
| `LoginGate` | what a Connection promises | abstract specification |
| `Connection` | the Connection state machine and CheckCredentialsJob | implements `LoginGate` |
| `Channel` | what the READY state promises | abstract specification |
| `Relay` | Splice, PipeStock and the READY state | implements `Channel` |
| `Config` | the configuration file, its checks, the start | |
| `Session` | the byte streams of one connection, from the client to the server its configuration names | extends `Config` |
| `Database` | reload, errors, worker threads | |
| `MC*` | instances for TLC | |
| `AdmissionProofs`, `AdmissionLimitProofs`, `AdmissionTarpitProofs` | theorems about `Admission` | TLAPS |
| `DatabaseProofs` | theorems about `Database` | TLAPS |
| `ConnectionProofs`, `ConnectionBooksProofs` | theorems about `Connection`, and that it implements `LoginGate` | TLAPS |
| `RelayProofs` | theorems about `Relay`, and that it implements `Channel` | TLAPS |
| `SessionProofs` | theorems about `Config` and `Session` | TLAPS |

**ClientAccounting, Admission.**  A point in time is kept as the number of ticks
until it is reached, 0 meaning "not in the future"; that is also what the
value-initialised `expires` and `tarpit_until` of a new entry are, which
matters.  `per` is the content of the map, `owner[k]` the `per_client` pointer
of connection `k` and `per[c].connections` the intrusive list, so pointer and
list are separate state that the handlers must keep consistent.  `k` stands for
an accepted TCP connection from accept to close: `DelayedConnection` and the
`Connection` that replaces it have the same `k`.  A connection to the accounting
is only what it charges: `LoginAccepted` and `ConnectionDestroy` with the cost
sets of `Tokens`, which are the ones `LoginGate` promises.  Each handler of the
code is one action, split where OnAccept returns early.  The token bucket level
is an integer; a debt below `-MaxDebt` is not told apart, and a tick may leave a
debt at that bound where it is, so the model allows every refill the code can
produce and more.  Timers may fire late, never early.

`Admission` and `Connection` are not composed into one state space: their only
interface is the list of prices, which `Admission` assumes of a connection
(`LoginDestroyCosts`, `AcceptedDestroyCosts`) and `LoginGate` guarantees of it,
both from the same module `Tokens`.

**Connection, LoginGate.**  `conn[k]` has one field per member of `Connection`
that a handler looks at.  A socket is reduced to its subscriptions: with READ
scheduled any data may arrive, and a hangup may be reported in any state.  Of the
READY state, `RelayBlocks` and `RelayEnds` are what is left: DoSpliceSend turns
READ on the client socket off for good, or the connection ends.  `k`
is the *address* of the object: a new connection may reuse it, so a callback
that was not cancelled would reach the wrong client.  `Cancel` has the outcomes
`ThreadQueue::Cancel` can have: a waiting job is taken back, a running one is
not, for a finished one that is not yet delivered both are allowed.  `LoginGate`
says what matters to everybody else: a client is linked to a game server only
after its login was accepted, accepted only with good credentials it sent itself
(if credentials are checked), and charged from a fixed list.  `counted[k]` is the
sequence of counters of `Instance::metrics` that were incremented for the
connection at `k`: the exits of a connection charge, count and tear down in
different places, and `CountedAsBilled` relates the three.

**Relay.**  A link is one direction of one connection.  READ is a subscription
on its source and WRITE on its destination; a handler that is called for both
events is the WRITE step of one link followed by the READ step of the other, so
the two are separate actions on separate links.  Units of data carry the link
they were sent on, pipes have content, and the kernel buffers `Window` units for
a peer that does not read.  Creating a pipe may fail, which ends the process.
ReceiveFrom takes a pipe before it knows whether there is data, so one is kept
empty (`OnReadableSpurious`) or goes to the stock (`OnReadableEof`) without ever
having carried any.
`Channel` is a pair of lossless ordered channels per session; an orderly end
comes after all the data of its direction.  The mapping counts a unit as sent
when the peer has sent it and as received when it has left the pipe.

**Config, Session.**  A line of the file is an option and a value, a
`game_server` line may have a name; the parser's branches, the truncation of a
port to 16 bits, the defaults, Finish and the failures of the start are one
action each.  The lines stay in the state after the start: what a file means is
said by positions of lines (`At`, `Numberings`), not by parsing it once more, and
what a client is connected to is compared with that, not with the parsed list.
`Session` then follows one connection under every configuration
that reached the start.  A stream is a sequence of units, one per field uologin
looks at; a peer's packets arrive whole, in pieces or glued together, and at any
time.  `Connection` has the lifetime and the errors of the object; `Session` has
what it reads and writes, which needs the contents that `Connection` leaves out.
`Dies` stands for the ends that do not depend on a packet (timeout, hangup,
refused login).

**Database.**  A reload is three steps (stat and close, copy, open) because the
workers run and the file may change meanwhile; a lookup is two (load the pointer,
use it).  The administrator may replace the file by a good or a bad one of any
size, or remove it, at any time; time has the resolution of `st_mtime`.  What is
copied is the size that the stat told of: a file that has grown since is cut off
(`Truncated`), and such a copy may open or not.  The copy itself is one step; a
change while it runs is a change before or after it.  Of the
administrator one thing is assumed: a change sets the modification time to the
current second, as writing a file does (and `mv` of an old file, or `touch -d`,
does not).

Models of code outside the tree (libcommon, the kernel, the peers) are marked
external in `PROJECT.json`: the token bucket takes tokens even when there are
too few, event subscriptions are level triggered, `ConnectSocket` always reports
success or failure because it is given a timeout, the stock hands out an idle
pipe if it has one.

## The runs

Passing runs:

| run | bounds | shows |
|---|---|---|
| `admission` | 2 addresses, 2 connections, limit 1, tarpit on, all four configurations | `NoDangling`, `ConnectionLimit`, `AdmissionControl`, `TarpitOutlived`, `CleanupArmed`, `QuietAfterShutdown` |
| `admission_live` | 2 addresses, 1 connection, tarpit of 3 ticks, no knock requests in flight | `DelayKeptInTarpit`, `DelayedServed`, `EntryReclaimed` (also of an entry that only datagrams have made, once another client's disconnect has armed the timer) |
| `connection` | 2 objects, 2 jobs, 2 reads for a login, all four configurations | `CallbackTargetAlive`, `GaugesExact`, `CountedAsBilled`, `HandlerAssumptions`, `HandshakeEnds`, and `GateImplemented` (Connection implements LoginGate) |
| `relay` | 2 connections, 4 pipes of 2 units, 1 idle pipe, window 1, 3 units of data | `NoCrossTalk`, `PipesExclusive`, `ReadOnlyWhenEmpty`, and `ChannelImplemented` (Relay implements Channel: what comes out is what went in, in order, and a FIN follows all of it) |
| `session` | 2 lines, 2 addresses, 2 names, ports 80 and 65536, index up to 1, 5 units from each peer | `ParsedAsWritten`, `UpstreamExact`, `DownstreamExact`, `RightServer`, `ConformingNotDropped`, `HandshakeServed` |
| `database` | 2 jobs, 2 handles, 3 changes of the file, 2 sizes, 3 seconds | `CheckedWhenConfigured`, `OnlyHandleIsDb`, `StaleOnlyWithinSecond` |

Why the bounds are enough to be interesting.  Two addresses are needed for one
client's timer to meet another's entry; limit 1 makes the second connection hit
the limit (higher limits and any number of delayed connections are covered by
the theorem `LimitKept`); a burst of
1 against prices of 1 to 10 puts clients over the limit and back within two
ticks, so a tarpit of three ticks (`admission_live`) is longer than the refill, as
it is in the code, and clients are charged with tokens left during their tarpit; with `ExpiresAfter` > `CleanupAfter` the cleanup timer has to be
rearmed.  One idle pipe makes the stock destroy the second; a window smaller
than the pipe gives partial writes, and blocked ones.  Two jobs let a cancelled
job finish after its connection's address is in use again.  Three changes within
three seconds include two in the same second, before and after the stat, and two
sizes let the file grow or shrink between the stat and the copy; the clock starts after the epoch,
because a file whose modification time is 0 looks like the one that is already
loaded (`last_mtime` is value-initialised) and would never be opened.  Two lines
are the shortest list in which an index may name the wrong entry; five units are
a login, a choice and one unit of game data, or the shortest server list with two
units behind it; 65536 is the port that truncation turns into 0.  Deadlock is checked for
`Admission` (time always passes); the other models may come to rest: after the
shutdown, when the data is used up, or when the process has died.

Fairness.  `Admission` assumes that the clock advances and due timers are
dispatched; `Connection` that timers fire, that a connect ends (the code gives it
ten seconds) and that the thread pool works off its queue; `Session` that what
has arrived is dispatched (epoll is level triggered), that a credential check is
answered and that a connect ends; it does not count on the timeouts for login and
choice, so `HandshakeServed` says more than that a silent handler is ended by
them.  `Relay` (only for the violation below) assumes that epoll reports what is
ready and subscribed to, and that the peer reads.  Otherwise nothing is assumed of
peers.  In particular no property says that SEND_PLAY_SERVER ends: it has no
timeout, and a game server that never sends its list leaves it to a hangup.

Runs that end in a counterexample, each against a text of the repository
(`findings` has the quotes):

| run | what happens |
|---|---|
| `knock_forgotten` | the cleanup timer started by another client deletes the knock of a client that has not connected yet: the entry's expiry was never set |
| `connecting` | without a server list READ stays scheduled on the client while connecting, against the assertion in OnIncomingReady |
| `relay_stall` | after a short write READ is cancelled and never scheduled again: the direction stalls |
| `handle_race` | a reload closes the handle a worker is using, or lets it find a null pointer |
| `knock_throws` | a reload error leaves the noexcept constructor of a knock request |
| `pipe_throws` | `pipe()` fails and the exception leaves a noexcept handler |

Every property of a passing run has a mutant: a plausible mistake in one mapped
definition under which TLC reports that property.  The mutated forms stand just
above the definitions they replace.

## The proofs

TLAPS proves the following for any finite set of connections, any set of
clients, jobs, handles or pipes, and any values of the limits that satisfy the
named assumptions.  Each inductive invariant was checked by TLC before it was
proved.

`Admission`:

* `TypeCorrect`: `Spec => []TypeOK`.
* `NeverDangling`: `Spec => []NoDangling`.  Not inductive alone: `OnTimer` hands
  over the pointer of a delayed connection without looking at it, so the
  invariant is `Linked`, which adds that delayed connections are accounted
  (`DelayedOwned`).  The proof reduces every handler to one of three shapes:
  pointers untouched, one connection joins a list, one leaves.
* `LimitKept`: `Spec => []ConnectionLimit`.  From `Linked'` a list can only hold
  what points to it, so it is enough to follow the pointers (`OwnerStep`): only
  the two accepting branches of OnAccept add one, and they have just passed
  Check().
* `AdmissionControlled`: `Spec => AdmissionControl`.  With a tarpit it follows
  from what UpdateTokenBucket leaves behind; without one the bucket never
  changes, which is the invariant `BucketFull`.
* `DelayKept`: `Spec => DelayKeptInTarpit`, for any tarpit, delay step and maximal
  delay.  Every handler stores at most one entry, and what it stores is either the
  old one with a changed list, expiry or knock, or the result of
  UpdateTokenBucket, which keeps the delay positive while the tarpit lasts
  (`UpdateKeeps`); an entry that the cleanup timer deletes is not a remembered
  one.

* `TarpitNotForgotten` and `CleanupIsArmed`: `Spec => []TarpitOutlived` and
  `Spec => []CleanupArmed`.  The invariant `Memory` adds what holds of entries
  that do not exist yet (their expiry is not set, which is how a new entry starts)
  and of knocks (none is pending where none is required, so nothing is charged
  to an idle entry).  An entry becomes idle only in RemoveConnection, which sets
  an expiry no earlier than any tarpit, by `LifetimeAssumption`, and arms the timer.
* `QuietForGood`: `Spec => []QuietAfterShutdown`.

`Database`:

* `TypeCorrect`: `Spec => []TypeOK`.
* `NoHandleLeaks`: `Spec => []OnlyHandleIsDb`, with `HandleInv`: from closing
  the old database to opening the copy `db` is null.
* `AlwaysChecked`: `FirstMtime > 0 => (Spec => []CheckedWhenConfigured)`.  A null
  `db` means "accept everybody", so the invariant `CheckedInv` says when `db` may
  be null: only before the first reload, after one that has left
  `last_reload_error`, or in the middle of one.  The hypothesis is about the
  file, and it is needed: the `last_mtime` of a new Database is 0, and a file
  with this time is never loaded.
* `StaleWithinSecond`: `Spec => []StaleOnlyWithinSecond`.  If the stat was made in
  a later second than the modification time it told of, any change since then has
  another modification time (no time lies in the future, which is in `TypeOK`).
  `StaleInv` carries that from step to step: the size that was told is the size of
  the file, then the copy is the file, then the handle is.

`Connection`:

* `CallbacksReachTheirTarget` and `HandlersMayAssume`: `Spec => []CallbackTargetAlive`
  and `Spec => []HandlerAssumptions`, from the invariant `Objects`: in each
  record state, timeout, packets, sockets and subscriptions fit together
  (`GoodConn`; that READ is off in SEND_PLAY_SERVER needs that it was off in every
  CONNECTING that leads there, the ones with `send_play_server`), a finished job holds the verdict on its own credentials
  (`Verdicts`), and `CallbackTargetAlive` ties the jobs to their objects.
  `StepKind` also shows that every step is of one of a few kinds (one object is
  created, advances, is accepted, linked or destroyed, or all are destroyed), and
  the theorems below argue by kind, not by action.
* `GaugesAreExact`: `Spec => []GaugesExact`, by the cardinality of the set of live
  and of linked objects after each kind of step.
* `BooksTellTheFate` and `TypeCorrect`: `Spec => []CountedAsBilled` and
  `Spec => []TypeOK`, with `BooksInv`, which ties what was counted and charged to
  the state of the object at each point, not only at its end.
* `GateRefined`: `Spec => GateImplemented`, each kind of step being a step of
  `LoginGate` or a stutter.

`Relay`:

* The invariant `RelayInv` says where every unit of data is: of an open link,
  what was delivered and then what is in its pipe are the units the peer has
  sent, in order (`Carries`); data in the pipe goes with WRITE and without READ
  (`OpenOK`); a pipe has one owner at most, those in the stock have none, and a
  pipe without an owner is empty (`PipesInv`).  None of the parts is inductive
  alone: that a pipe from the stock brings nothing along needs that it was empty
  when it was given back, which needs that `size` is what is in it, which needs
  that nobody else writes to it.  The steps are of four shapes: one link sends
  (`SendStep`), a peer does something (`PeerStep`), a session begins (`OpenStep`)
  or ends (`EndStep`).
* `TypeCorrect`, `PipesNotShared`, `ReadsOnlyWhenEmpty`, `NothingCrosses`:
  `Spec => []TypeOK`, `[]PipesExclusive`, `[]ReadOnlyWhenEmpty`, `[]NoCrossTalk`.
* `ChannelRefined`: `Spec => ChannelImplemented`.  A send that moves nothing is a
  stutter; one that moves something delivers the next units because the pipe
  holds them in order; an end of stream is passed on only by a READ, and then
  `ReadOnlyWhenEmpty` leaves nothing to deliver.

`Config`, `Session`:

* The invariant is `SessionInv`: the types, `ConfigInv`, `StreamsInv` and
  `HandlerInv`.  `ConfigInv`: each option has the meaning of its last line and the
  server list is numbered like the named lines of the file (`Lists`); it is what
  one more line preserves, and `SettingsWritten` derives `ParsedAsWritten` from it.
  `StreamsInv`: what a peer has sent, arrived or not, begins as its packets do
  (`ClientShape`, `ServerShape`), something is still on its way only if a packet is
  torn, and nothing has happened before uologin runs.  `HandlerInv`: in each state
  of the Connection, how much was read, what was written and which server was
  chosen, in terms of the streams.
* None of the properties is inductive alone.  What uologin forwards is right only
  if it began to read where the login, the choice and the server list end, which
  is about the states before READY.  That a drop has a reason needs that what is
  read is a whole packet or the beginning of a torn one, hence the shapes of the
  streams.  And a stream that grows must not change what was said about its
  beginning (`ArrivalKeeps`).
* `TypeCorrect`, `ConfigParsed`, `StreamUp`, `StreamDown`, `RightServerChosen`,
  `OnlyMisfitsDropped`: `Spec => []TypeOK`, `[]ParsedAsWritten`,
  `[]UpstreamExact`, `[]DownstreamExact`, `[]RightServer`,
  `[]ConformingNotDropped`, for files of any length, any addresses, names and
  ports, streams of any length and any index.  The server lists that a game server
  sends are those of `ServerPackets`: too short, the shortest and one unit longer.

Assumptions.  `Admission`: `ConnsAssumption` (finitely many connections),
`LimitAssumption`, `BucketAssumption`, `TimeAssumption` (one delay step is at most
the maximal delay), `LifetimeAssumption` (the tarpit is no longer than the life of
an idle entry), `NoneAssumption`, `CleanupAssumption`, `RequestsAssumption`.
`Connection`: `FiniteAssumption`, `FullAssumption` (login packets are not empty),
`NoJobAssumption`.  `Database`: `NullAssumption`, `ClockAssumption`,
`SizeAssumption` (a file has a size).  `Relay`:
`SizeAssumption` (pipes and windows hold something), `PipeAssumption`.  `Config`
and `Session`: `PortsAssumption`, `NullAssumption` (an unset value is no value),
`LinesAssumption`, `IndexAssumption`.  TLC
evaluates all of them in the runs.

Only model-checked: the liveness properties `DelayedServed`, `EntryReclaimed`,
`HandshakeEnds` and `HandshakeServed` (the prover has no reasoning about
fairness), and the counterexamples.  Every invariant and every other action or
refinement property of the passing runs has a theorem.

## Not modelled

* libcommon itself, the kernel, systemd: not part of the tree.
* The layout of packets below the fields uologin reads, user name validation (a
  login is well-formed or not), log output, the Prometheus text: data without
  control.  So are the counters of knocks, delays and bytes; the gauges and the
  counters of a connection's fate are modelled.
* The command line, which only names the configuration file, and the resolution
  of addresses.
* Short sends of the first packets and of the server list: the socket is idle and
  takes them whole.
* The number of entries while only datagrams arrive: nothing arms the cleanup
  timer until some connection ends, so `EntryReclaimed` is about armed timers.
* The hash of an IPv6 address to 64 bits, which may map two addresses to one
  entry: clients are distinct keys.
* Running out of memory, or of file descriptors elsewhere than in `pipe()` (which is
  modelled, see `pipe_throws`), and the time `nft` blocks the loop.

## Plan

1. (done) `Admission` with its accounting, `Connection` with `LoginGate`,
   `Relay`, `Database`; theorems about types, pointers and limits of
   `Admission`.
2. (done) `Channel` and the refinement of `Relay`; `Config` and `Session`; the
   counters of a connection; the theorem about the delay in the tarpit.
3. (done) `TarpitOutlived`, `CleanupArmed` and `QuietAfterShutdown` for
   `Admission`; the invariants of `Connection`, `Relay` and `Database`; the
   refinements of `LoginGate` and `Channel`.
4. (done) `Session` and `Config`: what a file means and what the client sees, by
   positions of lines and units; `ParsedAsWritten`, `UpstreamExact`,
   `DownstreamExact`, `RightServer` and `ConformingNotDropped` proved.

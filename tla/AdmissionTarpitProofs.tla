------------------------ MODULE AdmissionTarpitProofs -------------------------
(***************************************************************************)
(* How long a client is remembered, for any number of clients and          *)
(* connections: proofs of DelayKeptInTarpit, of TarpitOutlived and         *)
(* CleanupArmed, and of QuietAfterShutdown.                                *)
(***************************************************************************)
EXTENDS AdmissionLimitProofs

\* An entry in the tarpit keeps a delay and loses at most one step of it.
Keeps(old, new) ==
    (old.tarpit_until > 0 /\ old.delay > 0) =>
        /\ new.delay > 0
        /\ new.delay >= old.delay - DelayStep

\* An entry whose delay is the same has lost nothing.
LEMMA SameDelay ==
  ASSUME NEW old \in PerClient, NEW new, new.delay = old.delay
  PROVE  Keeps(old, new)
  <1>1. old.delay \in Int /\ DelayStep \in Nat
    BY TimeAssumption, SMT DEF PerClient
  <1> QED
    BY <1>1, SMT DEF Keeps

\* UpdateTokenBucket, and AddConnection or RemoveConnection after it.
LEMMA UpdateKeeps ==
  ASSUME NEW pc \in PerClient, NEW size \in Nat, NEW k \in Conns,
         NEW new, new = UpdateTokenBucket(pc, size)
  PROVE  /\ new \in PerClient
         /\ Keeps(pc, new)
         /\ Keeps(pc, AddConnection(new, k))
         /\ Keeps(pc, RemoveConnection(new, k))
  <1>1. new \in PerClient /\ Keeps(pc, new)
    BY UpdateTokenBucketFacts DEF Keeps
  <1>2. AddConnection(new, k).delay = new.delay
    BY <1>1, ListKeeps
  <1>3. RemoveConnection(new, k).delay = new.delay
    BY <1>1, SMT DEF RemoveConnection, PerClient
  <1> QED
    BY <1>1, <1>2, <1>3 DEF Keeps

\* A handler that stores one entry.
LEMMA OneEntryKeeps ==
  ASSUME TypeOK, NEW c \in Clients, NEW pc, Keeps(per[c], pc),
         per' = [per EXCEPT ![c] = pc]
  PROVE  \A x \in Clients : Keeps(per[x], per'[x])
  <1> SUFFICES ASSUME NEW x \in Clients PROVE Keeps(per[x], per'[x])
    OBVIOUS
  <1>1. CASE x = c
    BY <1>1 DEF TypeOK
  <1>2. CASE x # c
    <2>1. per[x] \in PerClient /\ per'[x] = per[x]
      BY <1>2 DEF TypeOK
    <2> QED
      BY <2>1, SameDelay
  <1> QED
    BY <1>1, <1>2

\* Every handler keeps the delay of the entries that remain in the map.
LEMMA TarpitStep ==
  ASSUME TypeOK, Linked, Next, NEW x \in Clients, x \in map'
  PROVE  Keeps(per[x], per'[x])
  <1>a. \A c \in Clients : per[c] \in PerClient
    BY DEF TypeOK
  <1>1. ASSUME per' = per PROVE Keeps(per[x], per'[x])
    BY <1>1, <1>a, SameDelay
  <1>2. ASSUME NEW c \in Clients, NEW size \in Nat,
               GetAndSet(c, UpdateTokenBucket(per[c], size))
        PROVE  Keeps(per[x], per'[x])
    <2>1. Keeps(per[c], UpdateTokenBucket(per[c], size))
      BY <1>a, UpdateTokenBucketFacts DEF Keeps
    <2> QED
      BY <1>2, <2>1, OneEntryKeeps DEF GetAndSet
  <1>3. ASSUME NEW k \in Conns, NEW size \in Nat, owner[k] \in Clients
        PROVE  /\ Keeps(per[owner[k]], Charged(k, size))
               /\ Keeps(per[owner[k]], RemoveConnection(Charged(k, size), k))
    <2>1. CASE size = 0
      <3>1. Charged(k, size) = per[owner[k]] /\ per[owner[k]] \in PerClient
        BY <1>a, <1>3, <2>1, NoneAssumption DEF Charged
      <3>2. RemoveConnection(per[owner[k]], k).delay = per[owner[k]].delay
        BY <3>1, SMT DEF RemoveConnection, PerClient
      <3> QED
        BY <3>1, <3>2, SameDelay
    <2>2. CASE size # 0
      <3>1. Charged(k, size) = UpdateTokenBucket(per[owner[k]], size)
        BY <1>3, <2>2, NoneAssumption DEF Charged
      <3> QED
        BY <1>a, <1>3, <3>1, UpdateKeeps
    <2> QED
      BY <2>1, <2>2
  <1>4. ASSUME NEW k \in Conns, NEW size \in Nat, ReleaseAccounting(k, Charged(k, size))
        PROVE  Keeps(per[x], per'[x])
    <2>1. CASE owner[k] = None
      BY <1>1, <1>4, <2>1 DEF ReleaseAccounting
    <2>2. CASE owner[k] # None
      <3>1. owner[k] \in Clients
        BY <2>2 DEF TypeOK
      <3>2. per' = [per EXCEPT ![owner[k]] = RemoveConnection(Charged(k, size), k)]
        BY <1>4, <2>2 DEF ReleaseAccounting
      <3> QED
        BY <1>3, <3>1, <3>2, OneEntryKeeps
    <2> QED
      BY <2>1, <2>2
  <1>5. ASSUME NEW c \in Clients, NEW result \in BOOLEAN, OnCheckCredentials(c, result)
        PROVE  Keeps(per[x], per'[x])
    <2>1. CASE GetAndSet(c, [per[c] EXCEPT !.knocked = TRUE])
      <3>1. [per[c] EXCEPT !.knocked = TRUE].delay = per[c].delay
        BY <1>a, Zenon DEF PerClient
      <3>2. Keeps(per[c], [per[c] EXCEPT !.knocked = TRUE])
        BY <1>a, <3>1, SameDelay
      <3> QED
        BY <2>1, <3>2, OneEntryKeeps DEF GetAndSet
    <2>2. CASE GetAndSet(c, UpdateTokenBucket(per[c], RejectedKnockCost))
      BY <1>2, <2>2, CostType
    <2> QED
      BY <1>5, <2>1, <2>2 DEF OnCheckCredentials
  <1>6. ASSUME OnUdpDatagram PROVE Keeps(per[x], per'[x])
    <2>1. ASSUME NEW c \in Clients, NEW cost \in Nat, MalformedDatagram(c, cost)
          PROVE  Keeps(per[x], per'[x])
      BY <1>2, <2>1 DEF MalformedDatagram
    <2>2. ASSUME NEW c \in Clients, KnockWithoutDatabase(c) PROVE Keeps(per[x], per'[x])
      BY <1>5, <2>2 DEF KnockWithoutDatabase
    <2>3. ASSUME NEW c \in Clients, KnockRequest(c) PROVE Keeps(per[x], per'[x])
      BY <1>a, <2>3, SameDelay, OneEntryKeeps DEF KnockRequest, GetAndSet
    <2> QED
      BY <1>6, <2>1, <2>2, <2>3, CostType DEF OnUdpDatagram
  <1>7. ASSUME OnAccept PROVE Keeps(per[x], per'[x])
    <2>1. ASSUME NEW c \in Clients, OnAcceptRefused(c) PROVE Keeps(per[x], per'[x])
      BY <1>2, <2>1, CostType DEF OnAcceptRefused, AcceptedEntry
    <2>2. ASSUME NEW k \in Conns, NEW c \in Clients,
                 OnAcceptDelayed(k, c) \/ OnAcceptOpen(k, c)
          PROVE  Keeps(per[x], per'[x])
      <3>1. Keeps(per[c], AddConnection(AcceptedEntry(c), k))
        BY <1>a, CostType, UpdateKeeps DEF AcceptedEntry
      <3>2. per' = [per EXCEPT ![c] = AddConnection(AcceptedEntry(c), k)]
        BY <2>2, AcceptFacts
      <3> QED
        BY <3>1, <3>2, OneEntryKeeps
    <2>3. ASSUME NEW k \in Conns, OnAcceptUnaccounted(k) PROVE Keeps(per[x], per'[x])
      BY <1>1, <2>3 DEF OnAcceptUnaccounted
    <2> QED
      BY <1>7, <2>1, <2>2, <2>3 DEF OnAccept
  <1>8. ASSUME NEW k \in Conns, OnTimer(k) PROVE Keeps(per[x], per'[x])
    <2>1. owner[k] \in Clients
      BY <1>8 DEF OnTimer, Linked, DelayedOwned
    <2> DEFINE left == RemoveConnection(per[owner[k]], k)
    <2>2. left \in PerClient /\ left.delay = per[owner[k]].delay
      <3>1. per[owner[k]] \in PerClient
        BY <1>a, <2>1
      <3>2. left \in PerClient
        BY <3>1, ListFacts
      <3>3. left.delay = per[owner[k]].delay
        BY <3>1, SMT DEF RemoveConnection, PerClient
      <3> QED
        BY <3>2, <3>3
    <2>3. AddConnection(left, k).delay = left.delay
      BY <2>2, ListKeeps
    <2>4. per' = [per EXCEPT ![owner[k]] = AddConnection(left, k)]
      BY <1>8 DEF OnTimer
    <2> HIDE DEF left
    <2>5. Keeps(per[owner[k]], AddConnection(left, k))
      BY <1>a, <2>1, <2>2, <2>3, SameDelay
    <2> QED
      BY <2>1, <2>4, <2>5, OneEntryKeeps
  <1>9. ASSUME NEW k \in Conns, OnSocketReady(k) PROVE Keeps(per[x], per'[x])
    BY <1>4, <1>9, CostType DEF OnSocketReady
  <1>10. ASSUME NEW k \in Conns, LoginAccepted(k) PROVE Keeps(per[x], per'[x])
    <2>1. CASE owner[k] = None
      BY <1>1, <1>10, <2>1 DEF LoginAccepted
    <2>2. CASE owner[k] # None
      <3>1. owner[k] \in Clients
        BY <2>2 DEF TypeOK
      <3>2. per' = [per EXCEPT ![owner[k]] = Charged(k, AcceptedLoginCost)]
        BY <1>10, <2>2 DEF LoginAccepted
      <3> QED
        BY <1>3, <3>1, <3>2, CostType, OneEntryKeeps
    <2> QED
      BY <2>1, <2>2
  <1>11. ASSUME NEW k \in Conns, NEW cost \in LoginDestroyCosts, ConnectionDestroy(k, cost)
         PROVE  Keeps(per[x], per'[x])
    <2>1. cost \in Nat
      BY CostType
    <2> QED
      BY <1>4, <1>11, <2>1 DEF ConnectionDestroy
  <1>12. ASSUME NEW c \in Clients, NEW result \in BOOLEAN, KnockRequestDone(c, result)
         PROVE  Keeps(per[x], per'[x])
    BY <1>5, <1>12 DEF KnockRequestDone
  <1>13. ASSUME OnCleanupTimer PROVE Keeps(per[x], per'[x])
    <2>1. per'[x] = per[x]
      BY <1>13 DEF OnCleanupTimer
    <2> QED
      BY <1>a, <2>1, SameDelay
  <1>14. ASSUME OnShutdown PROVE Keeps(per[x], per'[x])
    <2>1. per'[x] = Disconnected(per[x])
      BY <1>14 DEF OnShutdown, ClearListeners
    <2>2. Disconnected(per[x]).delay = per[x].delay
      BY <1>a DEF Disconnected, PerClient
    <2> QED
      BY <1>a, <2>1, <2>2, SameDelay
  <1>15. ASSUME Tick PROVE Keeps(per[x], per'[x])
    <2>1. PICK level \in [Clients -> (-MaxDebt)..Burst] :
             per' = [c \in Clients |-> AgeTo(per[c], level[c])]
      BY <1>15 DEF Tick
    <2>2. per'[x].delay = per[x].delay
      BY <1>a, <2>1, AgeFacts
    <2> QED
      BY <1>a, <2>2, SameDelay
  <1> QED
    BY <1>6, <1>7, <1>8, <1>9, <1>10, <1>11, <1>12, <1>13, <1>14, <1>15 DEF Next

\* Whatever a client in the tarpit does, or does not do, its delay is worked
\* off one step at a time and never to zero, as long as it is remembered: for
\* any prices, delays and numbers of clients and connections.
THEOREM DelayKept == Spec => DelayKeptInTarpit
  <1> DEFINE Kept(c) ==
        (c \in map' /\ per[c].tarpit_until > 0 /\ per[c].delay > 0) =>
              /\ per'[c].delay > 0
              /\ per'[c].delay >= per[c].delay - DelayStep
  <1>1. TypeOK /\ Linked /\ [Next]_vars => [\A c \in Clients : Kept(c)]_vars
    BY TarpitStep DEF Keeps
  <1>2. DelayKeptInTarpit <=> [][\A c \in Clients : Kept(c)]_vars
    BY PTL DEF DelayKeptInTarpit
  <1> HIDE DEF Kept
  <1> QED
    BY <1>1, <1>2, TypeCorrect, AlwaysLinked, PTL DEF Spec

-----------------------------------------------------------------------------
(***************************************************************************)
(* TarpitOutlived and CleanupArmed are inductive only together with what   *)
(* holds of the entries that do not exist, and of the requests that cannot *)
(* exist without a KnockListener.                                          *)
(***************************************************************************)

\* What an entry without connections owes, if the cleanup timer is t.
Idle(pc, t) ==
    pc.connections = {} =>
        /\ running /\ pc.expires > 0 => t # Off
        /\ ~require_knock => pc.expires >= pc.tarpit_until

Memory ==
    /\ ~require_knock => \A c \in Clients : requests[c] = 0
    /\ \A c \in map : Idle(per[c], cleanup_timer)
    /\ \A c \in Clients \ map : per[c].expires = 0

\* The cleanup timer, once armed, stays armed until it fires.
LEMMA StaysArmed ==
  ASSUME NEW t \in Off..CleanupAfter
  PROVE  /\ ScheduleCleanup(t) # Off
         /\ t # Off => Less(t) # Off
  BY CleanupAssumption, SMT DEF ScheduleCleanup, Off, Less

\* A handler that stores one entry, and creates it if need be.
LEMMA EntryMemory ==
  ASSUME TypeOK, Memory, NEW c \in Clients, NEW pc,
         per' = [per EXCEPT ![c] = pc],
         c \in map', map \subseteq map', map' \subseteq map \cup {c},
         cleanup_timer # Off => cleanup_timer' # Off,
         Idle(pc, cleanup_timer'),
         running' = running, require_knock' = require_knock, requests' = requests
  PROVE  Memory'
  <1>1. \A x \in Clients : per'[x] = IF x = c THEN pc ELSE per[x]
    BY DEF TypeOK
  <1>2. ASSUME NEW x \in map' PROVE Idle(per[x], cleanup_timer)'
    <2>1. x \in Clients
      BY DEF TypeOK
    <2>2. CASE x = c
      BY <1>1, <2>1, <2>2 DEF Idle
    <2>3. CASE x # c
      <3>1. x \in map /\ per'[x] = per[x]
        BY <1>1, <2>1, <2>3
      <3>2. Idle(per[x], cleanup_timer)
        BY <3>1 DEF Memory
      <3> QED
        BY <3>1, <3>2 DEF Idle
    <2> QED
      BY <2>2, <2>3
  <1>3. \A x \in Clients \ map' : per'[x].expires = 0
    BY <1>1 DEF Memory
  <1> QED
    BY <1>2, <1>3 DEF Memory

\* An entry that has a connection owes nothing.
LEMMA BusyEntry ==
  ASSUME NEW pc, NEW t, NEW k, k \in pc.connections
  PROVE  Idle(pc, t)
  BY DEF Idle

\* Charging an idle entry is harmless where a knock is required: it expires
\* when it did, and does not outlive a longer tarpit.
LEMMA KnockedEntry ==
  ASSUME TypeOK, Memory, require_knock, NEW c \in Clients, NEW pc,
         pc.connections = per[c].connections, pc.expires = per[c].expires
  PROVE  Idle(pc, cleanup_timer)
  <1>1. CASE c \in map
    BY <1>1 DEF Memory, Idle
  <1>2. CASE c \notin map
    BY <1>2 DEF Memory, Idle
  <1> QED
    BY <1>1, <1>2

\* Where no knock is required, only clients with a connection are refused.
LEMMA RefusedHasConnection ==
  ASSUME TypeOK, NEW c \in Clients, ~require_knock, Refused(AcceptedEntry(c))
  PROVE  per[c].connections # {}
  <1>1. per[c] \in PerClient
    BY DEF TypeOK
  <1>2. AcceptedEntry(c).connections = per[c].connections
    BY <1>1, CostType, UpdateKeepsConnections DEF AcceptedEntry
  <1>3. SUFFICES ASSUME per[c].connections = {} PROVE FALSE
    OBVIOUS
  <1>4. MaxConnections # 0 /\ ~(Cardinality({}) < MaxConnections)
    BY <1>2, <1>3 DEF Refused, Check
  <1> QED
    BY <1>4, FS_EmptySet, LimitAssumption, SMT

\* ~AccountedClientConnection: the entry outlives its tarpit, and if it is
\* idle now the cleanup timer is armed.
LEMMA ReleaseMemory ==
  ASSUME TypeOK, Linked, Memory, NEW k \in Conns, NEW size \in Nat,
         ReleaseAccounting(k, Charged(k, size)),
         UNCHANGED <<map, requests, config, running>>
  PROVE  Memory'
  <1>1. CASE owner[k] = None
    BY <1>1 DEF ReleaseAccounting, Memory, Idle, config
  <1>2. CASE owner[k] # None
    <2> DEFINE left == RemoveConnection(Charged(k, size), k)
    <2>1. owner[k] \in Clients /\ owner[k] \in map
      BY <1>2 DEF TypeOK, Linked, NoDangling
    <2>2. Charged(k, size) \in PerClient
      BY ChargedType
    <2>3. left \in PerClient /\ left.expires = ExpiresAfter
      BY <2>2, ListFacts
    <2>4. /\ per' = [per EXCEPT ![owner[k]] = left]
          /\ cleanup_timer' = IF left.connections = {}
                              THEN ScheduleCleanup(cleanup_timer) ELSE cleanup_timer
      BY <1>2 DEF ReleaseAccounting
    <2> HIDE DEF left
    <2>5. left.expires >= left.tarpit_until
      <3>1. left.tarpit_until \in 0..TarpitFor
        BY <2>3 DEF PerClient
      <3> QED
        BY <2>3, <3>1, LifetimeAssumption, TimeAssumption, SMT
    <2>6. ScheduleCleanup(cleanup_timer) # Off
      BY StaysArmed DEF TypeOK
    <2>7. Idle(left, cleanup_timer')
      BY <2>4, <2>5, <2>6 DEF Idle
    <2>8. cleanup_timer # Off => cleanup_timer' # Off
      BY <2>4, <2>6
    <2> QED
      BY <2>1, <2>4, <2>7, <2>8, EntryMemory DEF config
  <1> QED
    BY <1>1, <1>2

\* Every handler.
LEMMA MemoryStep ==
  ASSUME TypeOK, Linked, Memory, Next
  PROVE  Memory'
  <1>a. \A c \in Clients : per[c] \in PerClient
    BY DEF TypeOK
  <1>b. ASSUME NEW c \in Clients, NEW size \in Nat
        PROVE  /\ UpdateTokenBucket(per[c], size).connections = per[c].connections
               /\ UpdateTokenBucket(per[c], size).expires = per[c].expires
    <2>1. per[c] \in PerClient
      BY <1>a
    <2> QED
      BY <2>1, UpdateTokenBucketFacts
  <1> USE CostType
  <1>c. ASSUME NEW c \in Clients, NEW pc, GetAndSet(c, pc), Idle(pc, cleanup_timer),
               UNCHANGED <<cleanup_timer, config, running, requests>>
        PROVE  Memory'
    BY <1>c, EntryMemory DEF GetAndSet, config
  <1>1. ASSUME NEW c \in Clients, OnAcceptRefused(c) PROVE Memory'
    <2>1. /\ AcceptedEntry(c).connections = per[c].connections
          /\ AcceptedEntry(c).expires = per[c].expires
      BY <1>b DEF AcceptedEntry
    <2>2. Idle(AcceptedEntry(c), cleanup_timer)
      <3>1. CASE require_knock
        BY <2>1, <3>1, KnockedEntry
      <3>2. CASE ~require_knock
        BY <1>1, <2>1, <3>2, RefusedHasConnection DEF OnAcceptRefused, Idle
      <3> QED
        BY <3>1, <3>2
    <2> QED
      BY <1>1, <1>c, <2>2 DEF OnAcceptRefused
  <1>2. ASSUME NEW k \in Conns, NEW c \in Clients, OnAcceptDelayed(k, c) \/ OnAcceptOpen(k, c)
        PROVE  Memory'
    <2>1. AcceptedEntry(c) \in PerClient
      BY <1>a, UpdateTokenBucketFacts DEF AcceptedEntry
    <2>2. k \in AddConnection(AcceptedEntry(c), k).connections
      BY <2>1, ListFacts
    <2>3. Idle(AddConnection(AcceptedEntry(c), k), cleanup_timer)
      BY <2>2, BusyEntry
    <2>4. /\ GetAndSet(c, AddConnection(AcceptedEntry(c), k))
          /\ UNCHANGED <<cleanup_timer, config, running, requests>>
      BY <1>2 DEF OnAcceptDelayed, OnAcceptOpen
    <2> QED
      BY <1>c, <2>3, <2>4
  <1>d. ASSUME UNCHANGED <<map, per, cleanup_timer, requests, config, running>> PROVE Memory'
    BY <1>d DEF Memory, Idle, config
  <1>3. ASSUME NEW k \in Conns, OnAcceptUnaccounted(k) PROVE Memory'
    BY <1>3, <1>d DEF OnAcceptUnaccounted
  <1>4. ASSUME NEW k \in Conns, OnTimer(k) PROVE Memory'
    <2>1. owner[k] \in Clients /\ owner[k] \in map
      BY <1>4, NoneAssumption DEF OnTimer, Linked, DelayedOwned, NoDangling
    <2> DEFINE pc == AddConnection(RemoveConnection(per[owner[k]], k), k)
    <2>2. RemoveConnection(per[owner[k]], k) \in PerClient
      BY <1>a, <2>1, ListFacts
    <2>3. k \in pc.connections
      BY <2>2, ListFacts
    <2>4. per' = [per EXCEPT ![owner[k]] = pc]
      BY <1>4 DEF OnTimer
    <2>5. UNCHANGED <<map, cleanup_timer, requests, config, running>>
      BY <1>4 DEF OnTimer
    <2> HIDE DEF pc
    <2>6. Idle(pc, cleanup_timer')
      BY <2>3, BusyEntry
    <2> QED
      BY <2>1, <2>4, <2>5, <2>6, EntryMemory DEF config
  <1>5. ASSUME NEW k \in Conns, OnSocketReady(k) PROVE Memory'
    BY <1>5, ReleaseMemory DEF OnSocketReady
  <1>6. ASSUME NEW k \in Conns, LoginAccepted(k) PROVE Memory'
    <2>1. CASE owner[k] = None
      BY <1>6, <1>d, <2>1 DEF LoginAccepted
    <2>2. CASE owner[k] # None
      <3>1. owner[k] \in Clients /\ owner[k] \in map
        BY <2>2 DEF TypeOK, Linked, NoDangling
      <3>2. k \in Charged(k, AcceptedLoginCost).connections
        BY <2>2, <3>1, ChargedConnections DEF Linked, NoDangling
      <3>3. per' = [per EXCEPT ![owner[k]] = Charged(k, AcceptedLoginCost)]
        BY <1>6, <2>2 DEF LoginAccepted
      <3>4. UNCHANGED <<map, cleanup_timer, requests, config, running>>
        BY <1>6 DEF LoginAccepted
      <3>5. Idle(Charged(k, AcceptedLoginCost), cleanup_timer')
        BY <3>2, BusyEntry
      <3> QED
        BY <3>1, <3>3, <3>4, <3>5, EntryMemory DEF config
    <2> QED
      BY <2>1, <2>2
  <1>7. ASSUME NEW k \in Conns, NEW cost \in LoginDestroyCosts, ConnectionDestroy(k, cost)
        PROVE  Memory'
    <2>1. cost \in Nat
      OBVIOUS
    <2> QED
      BY <1>7, <2>1, ReleaseMemory DEF ConnectionDestroy
  <1>8. ASSUME require_knock, NEW c \in Clients, NEW pc, GetAndSet(c, pc),
               pc.connections = per[c].connections, pc.expires = per[c].expires,
               UNCHANGED <<cleanup_timer, config, running>>
        PROVE  Memory'
    <2>1. Idle(pc, cleanup_timer)
      BY <1>8, KnockedEntry
    <2>2. /\ \A x \in Clients : per'[x] = IF x = c THEN pc ELSE per[x]
          /\ map' = map \cup {c} /\ require_knock' = require_knock
          /\ running' = running /\ cleanup_timer' = cleanup_timer
      BY <1>8 DEF GetAndSet, TypeOK, config
    <2>3. ASSUME NEW x \in map' PROVE Idle(per[x], cleanup_timer)'
      <3>1. x \in Clients
        BY <2>2 DEF TypeOK
      <3>2. CASE x = c
        BY <2>1, <2>2, <3>1, <3>2 DEF Idle
      <3>3. CASE x # c
        BY <2>2, <3>1, <3>3 DEF Idle, Memory
      <3> QED
        BY <3>2, <3>3
    <2>4. \A x \in Clients \ map' : per'[x].expires = 0
      BY <2>2 DEF Memory
    <2> QED
      BY <1>8, <2>2, <2>3, <2>4 DEF Memory
  <1>9. ASSUME require_knock, NEW c \in Clients, NEW result \in BOOLEAN,
               OnCheckCredentials(c, result), UNCHANGED <<cleanup_timer, config, running>>
        PROVE  Memory'
    <2>1. CASE GetAndSet(c, [per[c] EXCEPT !.knocked = TRUE])
      <3>1. /\ [per[c] EXCEPT !.knocked = TRUE].connections = per[c].connections
            /\ [per[c] EXCEPT !.knocked = TRUE].expires = per[c].expires
        BY <1>a, Zenon DEF PerClient
      <3> QED
        BY <1>8, <1>9, <2>1, <3>1
    <2>2. CASE GetAndSet(c, UpdateTokenBucket(per[c], RejectedKnockCost))
      BY <1>8, <1>9, <1>b, <2>2
    <2> QED
      BY <1>9, <2>1, <2>2 DEF OnCheckCredentials
  <1>10. ASSUME OnUdpDatagram PROVE Memory'
    <2>1. ASSUME NEW c \in Clients, NEW cost \in Nat, MalformedDatagram(c, cost) PROVE Memory'
      BY <1>8, <1>b, <2>1 DEF MalformedDatagram
    <2>2. ASSUME NEW c \in Clients, KnockWithoutDatabase(c) PROVE Memory'
      BY <1>9, <2>2 DEF KnockWithoutDatabase
    <2>3. ASSUME NEW c \in Clients, KnockRequest(c) PROVE Memory'
      BY <1>8, <2>3 DEF KnockRequest
    <2> QED
      BY <1>10, <2>1, <2>2, <2>3 DEF OnUdpDatagram
  <1>11. ASSUME NEW c \in Clients, NEW result \in BOOLEAN, KnockRequestDone(c, result)
         PROVE  Memory'
    <2>1. require_knock
      <3>1. requests[c] # 0
        BY <1>11 DEF KnockRequestDone, TypeOK
      <3> QED
        BY <3>1 DEF Memory, TypeOK
    <2> QED
      BY <1>9, <1>11, <2>1 DEF KnockRequestDone
  <1>12. ASSUME OnCleanupTimer PROVE Memory'
    <2>1. /\ map' = map \ Expired /\ cleanup_timer' = CleanupAgain
          /\ UNCHANGED <<requests, config, running>>
          /\ \A c \in Clients : per'[c] = IF c \in Expired THEN NewPerClient ELSE per[c]
      BY <1>12 DEF OnCleanupTimer
    <2>2. ASSUME NEW c \in map' PROVE Idle(per[c], cleanup_timer)'
      <3>1. c \in Clients /\ c \in map \ Expired /\ per'[c] = per[c]
        BY <2>1 DEF TypeOK
      <3>2. per[c].connections = {} => cleanup_timer' # Off
        BY <2>1, <3>1, StaysArmed, CleanupAssumption, SMT DEF CleanupAgain, Off
      <3>3. Idle(per[c], cleanup_timer)
        BY <3>1 DEF Memory
      <3> QED
        BY <2>1, <3>1, <3>2, <3>3 DEF Idle, config
    <2>3. ASSUME NEW c \in Clients \ map' PROVE per'[c].expires = 0
      <3>1. NewPerClient.expires = 0
        BY DEF NewPerClient
      <3> QED
        BY <2>1, <3>1 DEF Memory
    <2> QED
      BY <2>1, <2>2, <2>3 DEF Memory, config
  <1>13. ASSUME OnShutdown PROVE Memory'
    <2>1. /\ map' = map /\ running' = FALSE /\ UNCHANGED <<requests, config>>
          /\ \A c \in Clients : per'[c] = Disconnected(per[c])
      BY <1>13 DEF OnShutdown, ClearListeners
    <2>2. ASSUME NEW c \in map PROVE Idle(per[c], cleanup_timer)'
      <3>1. c \in Clients /\ per[c] \in PerClient
        BY <1>a DEF TypeOK
      <3>2. CASE per[c].connections = {}
        <4>1. per'[c] = per[c]
          BY <2>1, <3>1, <3>2 DEF Disconnected
        <4>2. Idle(per[c], cleanup_timer)
          BY DEF Memory
        <4> QED
          BY <2>1, <4>1, <4>2 DEF Idle, config
      <3>3. CASE per[c].connections # {}
        <4>1. per'[c].expires = ExpiresAfter /\ per'[c].tarpit_until = per[c].tarpit_until
          BY <2>1, <3>1, <3>3 DEF Disconnected, PerClient
        <4>2. per[c].tarpit_until \in 0..TarpitFor
          BY <3>1 DEF PerClient
        <4>3. per'[c].expires >= per'[c].tarpit_until
          BY <4>1, <4>2, LifetimeAssumption, TimeAssumption, SMT
        <4> QED
          BY <2>1, <4>3 DEF Idle
      <3> QED
        BY <3>2, <3>3
    <2>3. ASSUME NEW c \in Clients \ map PROVE per'[c].expires = 0
      <3>1. per[c].connections = {}
        <4>1. per[c].connections \subseteq Conns
          BY <1>a DEF PerClient
        <4> QED
          BY <4>1, NoneAssumption DEF Linked, NoDangling
      <3>2. per'[c] = per[c]
        BY <2>1, <3>1 DEF Disconnected
      <3> QED
        BY <3>2 DEF Memory
    <2> QED
      BY <2>1, <2>2, <2>3 DEF Memory, config
  <1>14. ASSUME Tick PROVE Memory'
    <2>1. PICK level \in [Clients -> (-MaxDebt)..Burst] :
             per' = [c \in Clients |-> AgeTo(per[c], level[c])]
      BY <1>14 DEF Tick
    <2>2. /\ cleanup_timer' = Less(cleanup_timer)
          /\ UNCHANGED <<map, requests, config, running>>
      BY <1>14 DEF Tick
    <2>3. ASSUME NEW c \in Clients
          PROVE  /\ per'[c].connections = per[c].connections
                 /\ per'[c].expires = Less(per[c].expires)
                 /\ per'[c].tarpit_until = Less(per[c].tarpit_until)
                 /\ per[c].expires \in Nat /\ per[c].tarpit_until \in Nat
      <3>1. per[c].expires \in Nat /\ per[c].tarpit_until \in Nat
        BY <1>a, SMT DEF PerClient
      <3> QED
        BY <1>a, <2>1, <3>1, AgeFacts
    <2>4. ASSUME NEW c \in map PROVE Idle(per[c], cleanup_timer)'
      <3>1. c \in Clients /\ Idle(per[c], cleanup_timer)
        BY DEF TypeOK, Memory
      <3>2. /\ per'[c].expires > 0 => per[c].expires > 0
            /\ per[c].expires >= per[c].tarpit_until => per'[c].expires >= per'[c].tarpit_until
        BY <2>3, <3>1, SMT DEF Less
      <3>3. cleanup_timer # Off => cleanup_timer' # Off
        BY <2>2, StaysArmed DEF TypeOK
      <3> QED
        BY <2>2, <2>3, <3>1, <3>2, <3>3 DEF Idle, config
    <2>5. \A c \in Clients \ map : per'[c].expires = 0
      BY <2>3, SMT DEF Memory, Less
    <2> QED
      BY <2>2, <2>4, <2>5 DEF Memory, config
  <1> QED
    BY <1>1, <1>2, <1>3, <1>4, <1>5, <1>6, <1>7, <1>10, <1>11, <1>12, <1>13, <1>14
       DEF Next, OnAccept

\* Memory holds in every reachable state.
LEMMA AlwaysMemory == Spec => []Memory
  <1>1. Init => Memory
    BY DEF Init, Memory, NewPerClient
  <1>2. TypeOK /\ Linked /\ Memory /\ [Next]_vars => Memory'
    <2>1. ASSUME Memory, UNCHANGED vars PROVE Memory'
      BY <2>1 DEF Memory, Idle, vars
    <2> QED
      BY <2>1, MemoryStep
  <1> QED
    BY <1>1, <1>2, TypeCorrect, AlwaysLinked, PTL DEF Spec

\* Without a KnockListener the cleanup timer never forgets a client that is
\* still in the tarpit, whatever charges it on the way: LifetimeAssumption,
\* TARPIT_FOR not longer than the life of an idle entry, is what it takes.
THEOREM TarpitNotForgotten == Spec => []TarpitOutlived
  <1>1. Memory => TarpitOutlived
    BY DEF Memory, Idle, TarpitOutlived
  <1> QED
    BY <1>1, AlwaysMemory, PTL

\* While uologin runs, an idle entry with a lifetime has the cleanup timer
\* armed for it, on every order of hangups, cleanups and accepts.
THEOREM CleanupIsArmed == Spec => []CleanupArmed
  <1>1. Memory => CleanupArmed
    BY DEF Memory, Idle, CleanupArmed
  <1> QED
    BY <1>1, AlwaysMemory, PTL

-----------------------------------------------------------------------------
(***************************************************************************)
(* QuietAfterShutdown.                                                     *)
(***************************************************************************)

\* After the shutdown only requests and time go on.
LEMMA QuietStep ==
  ASSUME TypeOK, QuietAfterShutdown, Next
  PROVE  QuietAfterShutdown'
  <1>1. CASE running /\ running' = running
    BY <1>1 DEF QuietAfterShutdown
  <1>2. CASE OnShutdown
    BY <1>2 DEF OnShutdown, ClearListeners, Shutdown, QuietAfterShutdown
  <1>3. ASSUME NEW c \in Clients, NEW result \in BOOLEAN, KnockRequestDone(c, result)
        PROVE  QuietAfterShutdown'
    BY <1>3 DEF KnockRequestDone, QuietAfterShutdown
  <1>4. CASE Tick
    <2>1. Less(Off) = Off
      BY SMT DEF Less, Off
    <2> QED
      BY <1>4, <2>1 DEF Tick, QuietAfterShutdown
  <1>5. \/ running /\ running' = running
        \/ OnShutdown
        \/ \E c \in Clients, result \in BOOLEAN : KnockRequestDone(c, result)
        \/ Tick
    BY DEF Next, OnAccept, OnAcceptRefused, OnAcceptDelayed, OnAcceptOpen, OnAcceptUnaccounted,
           OnUdpDatagram, MalformedDatagram, KnockWithoutDatabase, KnockRequest, OnTimer,
           OnSocketReady, LoginAccepted, ConnectionDestroy, OnCleanupTimer
  <1> QED
    BY <1>1, <1>2, <1>3, <1>4, <1>5

\* After Instance::OnShutdown no timer of the admission control is pending and
\* none is armed again, and no connection points to an entry.
THEOREM QuietForGood == Spec => []QuietAfterShutdown
  <1>1. Init => QuietAfterShutdown
    BY DEF Init, QuietAfterShutdown
  <1>2. TypeOK /\ QuietAfterShutdown /\ [Next]_vars => QuietAfterShutdown'
    <2>1. ASSUME QuietAfterShutdown, UNCHANGED vars PROVE QuietAfterShutdown'
      BY <2>1 DEF QuietAfterShutdown, vars
    <2> QED
      BY <2>1, QuietStep
  <1> QED
    BY <1>1, <1>2, TypeCorrect, PTL DEF Spec
=============================================================================

------------------------- MODULE AdmissionLimitProofs -------------------------
(***************************************************************************)
(* The limits Listener::OnAccept enforces hold for any number of clients   *)
(* and connections: proofs of ConnectionLimit and AdmissionControl, on top *)
(* of the pointer invariant of AdmissionProofs.                            *)
(***************************************************************************)
EXTENDS AdmissionProofs

-----------------------------------------------------------------------------
(***************************************************************************)
(* Who gets a per_client pointer.                                          *)
(***************************************************************************)

\* Only OnAccept gives a connection to an entry; every other step leaves the
\* pointers alone or drops them.
LEMMA OwnerStep ==
  ASSUME TypeOK, Linked, Next
  PROVE  \/ \A k \in Conns : owner'[k] \in {owner[k], None}
         \/ \E k \in Conns, c \in Clients : OnAcceptDelayed(k, c) \/ OnAcceptOpen(k, c)
  <1> DEFINE Kept == \A k \in Conns : owner'[k] \in {owner[k], None}
  <1>1. ASSUME owner' = owner PROVE Kept
    BY <1>1
  <1>2. ASSUME NEW k \in Conns, owner' = [owner EXCEPT ![k] = None] PROVE Kept
    BY <1>2 DEF TypeOK
  <1>3. ASSUME NEW k \in Conns, OnTimer(k) PROVE Kept
    <2>1. owner' = owner
      BY <1>3 DEF OnTimer, Enter, TypeOK
    <2> QED
      BY <1>1, <2>1
  <1>4. ASSUME NEW k \in Conns, OnAcceptUnaccounted(k) \/ OnSocketReady(k)
        PROVE  Kept
    BY <1>2, <1>4 DEF OnAcceptUnaccounted, OnSocketReady, Enter
  <1>5. ASSUME NEW k \in Conns, NEW cost \in LoginDestroyCosts, ConnectionDestroy(k, cost)
        PROVE  Kept
    BY <1>2, <1>5 DEF ConnectionDestroy, Enter
  <1>6. ASSUME NEW k \in Conns, LoginAccepted(k) PROVE Kept
    BY <1>1, <1>6 DEF LoginAccepted
  <1>7. ASSUME OnUdpDatagram PROVE Kept
    BY <1>1, <1>7 DEF OnUdpDatagram, MalformedDatagram, KnockWithoutDatabase, KnockRequest
  <1>8. ASSUME NEW c \in Clients, NEW result \in BOOLEAN, KnockRequestDone(c, result)
        PROVE  Kept
    BY <1>1, <1>8 DEF KnockRequestDone
  <1>9. ASSUME NEW c \in Clients, OnAcceptRefused(c) PROVE Kept
    BY <1>1, <1>9 DEF OnAcceptRefused
  <1>10. ASSUME OnCleanupTimer \/ Tick PROVE Kept
    BY <1>1, <1>10 DEF OnCleanupTimer, Tick
  <1>11. ASSUME OnShutdown PROVE Kept
    BY <1>11 DEF OnShutdown, ClearListeners
  <1> HIDE DEF Kept
  <1>12. Kept \/ \E k \in Conns, c \in Clients : OnAcceptDelayed(k, c) \/ OnAcceptOpen(k, c)
    BY <1>3, <1>4, <1>5, <1>6, <1>7, <1>8, <1>9, <1>10, <1>11 DEF Next, OnAccept
  <1> QED
    BY <1>12 DEF Kept

\* What an accounted accept of k for c does: Check() held before k joined the
\* list, and the entry that remains is the charged one.
LEMMA AcceptFacts ==
  ASSUME TypeOK, NEW k \in Conns, NEW c \in Clients,
         OnAcceptDelayed(k, c) \/ OnAcceptOpen(k, c)
  PROVE  /\ kind[k] = "none"
         /\ owner' = [owner EXCEPT ![k] = c]
         /\ per' = [per EXCEPT ![c] = AddConnection(AcceptedEntry(c), k)]
         /\ AcceptedEntry(c) \in PerClient
         /\ AcceptedEntry(c).connections = per[c].connections
         /\ Check(per[c])
         /\ require_knock => AcceptedEntry(c).knocked
  <1>1. per[c] \in PerClient
    BY DEF TypeOK
  <1>2. /\ AcceptedEntry(c) \in PerClient
        /\ AcceptedEntry(c).connections = per[c].connections
    BY <1>1, CostType, UpdateKeepsConnections DEF AcceptedEntry
  <1>3. ~Refused(AcceptedEntry(c)) /\ kind[k] = "none"
    BY DEF OnAcceptDelayed, OnAcceptOpen
  <1>4. owner' = [owner EXCEPT ![k] = c]
        /\ per' = [per EXCEPT ![c] = AddConnection(AcceptedEntry(c), k)]
    BY DEF OnAcceptDelayed, OnAcceptOpen, Enter, GetAndSet
  <1>5. Check(per[c])
    BY <1>2, <1>3 DEF Refused, Check
  <1> QED
    BY <1>2, <1>3, <1>4, <1>5 DEF Refused

-----------------------------------------------------------------------------
(***************************************************************************)
(* ConnectionLimit.                                                        *)
(***************************************************************************)

\* A list without new members is not longer than before.
LEMMA ShrinkStep ==
  ASSUME TypeOK, ConnectionLimit,
         \A c \in Clients : per'[c].connections \subseteq per[c].connections
  PROVE  ConnectionLimit'
  <1> SUFFICES ASSUME MaxConnections > 0, NEW c \in Clients
               PROVE  Cardinality(per'[c].connections) <= MaxConnections
    BY DEF ConnectionLimit
  <1>1. per[c].connections \in SUBSET Conns
    BY DEF TypeOK, PerClient
  <1>2. IsFiniteSet(per[c].connections)
    BY <1>1, ConnsAssumption, FS_Subset
  <1>3. per'[c].connections \in SUBSET per[c].connections
    OBVIOUS
  <1>4. /\ IsFiniteSet(per'[c].connections)
        /\ Cardinality(per'[c].connections) <= Cardinality(per[c].connections)
    BY <1>2, <1>3, FS_Subset
  <1>5. Cardinality(per'[c].connections) \in Nat /\ Cardinality(per[c].connections) \in Nat
    BY <1>2, <1>4, FS_CardinalityType
  <1>6. Cardinality(per[c].connections) <= MaxConnections
    BY DEF ConnectionLimit
  <1> QED
    BY <1>4, <1>5, <1>6, LimitAssumption, SMT

\* A list that passed Check() may grow by one.
LEMMA GrowStep ==
  ASSUME TypeOK, ConnectionLimit, NEW k \in Conns, NEW c \in Clients,
         OnAcceptDelayed(k, c) \/ OnAcceptOpen(k, c)
  PROVE  ConnectionLimit'
  <1> SUFFICES ASSUME MaxConnections > 0, NEW x \in Clients
               PROVE  Cardinality(per'[x].connections) <= MaxConnections
    BY DEF ConnectionLimit
  <1>1. per'[x].connections = IF x = c THEN per[c].connections \cup {k}
                              ELSE per[x].connections
    <2>1. /\ per' = [per EXCEPT ![c] = AddConnection(AcceptedEntry(c), k)]
          /\ AcceptedEntry(c) \in PerClient
          /\ AcceptedEntry(c).connections = per[c].connections
      BY AcceptFacts
    <2>2. AddConnection(AcceptedEntry(c), k).connections = per[c].connections \cup {k}
      BY <2>1, ListFacts
    <2> QED
      BY <2>1, <2>2 DEF TypeOK
  <1>2. CASE x = c
    <2>1. per[c].connections \in SUBSET Conns
      BY DEF TypeOK, PerClient
    <2>2. IsFiniteSet(per[c].connections)
      BY <2>1, ConnsAssumption, FS_Subset
    <2>3. Cardinality(per[c].connections) \in Nat
      BY <2>2, FS_CardinalityType
    <2>4. Cardinality(per[c].connections \cup {k}) =
            IF k \in per[c].connections THEN Cardinality(per[c].connections)
            ELSE Cardinality(per[c].connections) + 1
      BY <2>2, FS_AddElement
    <2>5. MaxConnections = 0 \/ Cardinality(per[c].connections) < MaxConnections
      BY AcceptFacts DEF Check
    <2>6. Cardinality(per[c].connections \cup {k}) <= MaxConnections
      BY <2>3, <2>4, <2>5, LimitAssumption, SMT
    <2> QED
      BY <1>1, <1>2, <2>6
  <1>3. CASE x # c
    BY <1>1, <1>3 DEF ConnectionLimit
  <1> QED
    BY <1>2, <1>3

\* Every handler keeps the limit.
LEMMA LimitStep ==
  ASSUME TypeOK, Linked, ConnectionLimit, Next
  PROVE  ConnectionLimit'
  <1>1. Linked' /\ TypeOK'
    BY LinkedStep, TypeStep
  <1>2. ASSUME \A k \in Conns : owner'[k] \in {owner[k], None}
        PROVE  ConnectionLimit'
    <2>1. ASSUME NEW c \in Clients, NEW k \in per'[c].connections
          PROVE  k \in per[c].connections
      <3>1. k \in Conns
        BY <1>1, <2>1 DEF TypeOK, PerClient
      <3>2. owner'[k] = c
        BY <1>1, <2>1, <3>1 DEF Linked, NoDangling
      <3>3. owner[k] = c
        BY <1>2, <3>1, <3>2, NoneAssumption
      <3> QED
        BY <3>1, <3>3 DEF Linked, NoDangling
    <2> QED
      BY <2>1, ShrinkStep
  <1> QED
    BY <1>2, OwnerStep, GrowStep

\* No address ever holds more than max_connections connections, for any
\* number of clients and connections and whatever the interleaving of accepts,
\* delayed connections, hangups, knocks and the cleanup timer.
THEOREM LimitKept == Spec => []ConnectionLimit
  <1>1. Init => ConnectionLimit
    <2> SUFFICES ASSUME Init, MaxConnections > 0, NEW c \in Clients
                 PROVE  Cardinality(per[c].connections) <= MaxConnections
      BY DEF ConnectionLimit
    <2>1. per[c].connections = {}
      BY DEF Init, NewPerClient
    <2>2. Cardinality(per[c].connections) = 0
      BY <2>1, FS_EmptySet
    <2> QED
      BY <2>2, LimitAssumption, SMT
  <1>2. TypeOK /\ Linked /\ ConnectionLimit /\ [Next]_vars => ConnectionLimit'
    <2>1. ConnectionLimit /\ UNCHANGED vars => ConnectionLimit'
      BY DEF ConnectionLimit, vars
    <2> QED
      BY <2>1, LimitStep
  <1> QED
    BY <1>1, <1>2, TypeCorrect, AlwaysLinked, PTL DEF Spec

-----------------------------------------------------------------------------
(***************************************************************************)
(* AdmissionControl.  Without a tarpit UpdateTokenBucket takes no token,   *)
(* so the bucket has to be known to be full.                               *)
(***************************************************************************)

BucketFull == ~Tarpit => \A c \in Clients : per[c].available = Burst

\* The list operations leave the bucket and the tarpit alone.
LEMMA ListKeeps ==
  ASSUME NEW pc \in PerClient, NEW k \in Conns
  PROVE  /\ AddConnection(pc, k).available = pc.available
         /\ AddConnection(pc, k).delay = pc.delay
         /\ AddConnection(pc, k).expires = pc.expires
         /\ AddConnection(pc, k).tarpit_until = pc.tarpit_until
         /\ RemoveConnection(pc, k).available = pc.available
         /\ RemoveConnection(pc, k).tarpit_until = pc.tarpit_until
  BY SMT DEF AddConnection, RemoveConnection, PerClient

\* AddConnection does not touch the knock.
LEMMA AddKeepsKnock ==
  ASSUME NEW pc \in PerClient, NEW k \in Conns
  PROVE  AddConnection(pc, k).knocked = pc.knocked
  BY Zenon DEF AddConnection, PerClient

\* A step that stores one entry with a full bucket.
LEMMA FullEntryStep ==
  ASSUME TypeOK, BucketFull, ~Tarpit, NEW c \in Clients, NEW pc,
         per' = [per EXCEPT ![c] = pc], pc.available = Burst
  PROVE  BucketFull'
  BY DEF BucketFull, TypeOK

\* Without a tarpit no handler takes a token.
LEMMA BucketStep ==
  ASSUME TypeOK, Linked, BucketFull, Next
  PROVE  BucketFull'
  <1> SUFFICES ASSUME ~Tarpit PROVE BucketFull'
    BY DEF BucketFull
  <1>a. \A c \in Clients : per[c] \in PerClient /\ per[c].available = Burst
    BY DEF TypeOK, BucketFull
  <1>b. \A c \in Clients, size \in Nat : UpdateTokenBucket(per[c], size) = per[c]
    BY DEF UpdateTokenBucket
  <1>c. ASSUME NEW k \in Conns, NEW size \in Nat, owner[k] # None
        PROVE  owner[k] \in Clients /\ Charged(k, size) = per[owner[k]]
    BY <1>b, <1>c DEF Charged, TypeOK
  <1>1. ASSUME per' = per PROVE BucketFull'
    BY <1>1 DEF BucketFull
  <1>2. ASSUME NEW c \in Clients, NEW pc, GetAndSet(c, pc), pc.available = Burst
        PROVE  BucketFull'
    BY <1>2, FullEntryStep DEF GetAndSet
  <1>3. ASSUME NEW k \in Conns, NEW size \in Nat, ReleaseAccounting(k, Charged(k, size))
        PROVE  BucketFull'
    <2>1. CASE owner[k] = None
      BY <1>1, <1>3, <2>1 DEF ReleaseAccounting
    <2>2. CASE owner[k] # None
      <3>1. owner[k] \in Clients /\ Charged(k, size) = per[owner[k]]
        BY <1>c, <2>2
      <3>2. per' = [per EXCEPT ![owner[k]] = RemoveConnection(per[owner[k]], k)]
        BY <1>3, <2>2, <3>1 DEF ReleaseAccounting
      <3>3. RemoveConnection(per[owner[k]], k).available = Burst
        BY <1>a, <3>1, ListKeeps
      <3> QED
        BY <3>1, <3>2, <3>3, FullEntryStep
    <2> QED
      BY <2>1, <2>2
  <1>4. ASSUME NEW c \in Clients, NEW result \in BOOLEAN, OnCheckCredentials(c, result)
        PROVE  BucketFull'
    <2>1. [per[c] EXCEPT !.knocked = TRUE].available = Burst
      BY <1>a, Zenon DEF PerClient
    <2>2. UpdateTokenBucket(per[c], RejectedKnockCost).available = Burst
      BY <1>a, <1>b, CostType
    <2>3. \/ GetAndSet(c, [per[c] EXCEPT !.knocked = TRUE])
          \/ GetAndSet(c, UpdateTokenBucket(per[c], RejectedKnockCost))
      BY <1>4 DEF OnCheckCredentials
    <2> QED
      BY <1>2, <2>1, <2>2, <2>3
  <1>5. ASSUME NEW c \in Clients, NEW cost \in Nat, MalformedDatagram(c, cost)
        PROVE  BucketFull'
    BY <1>2, <1>5, <1>a, <1>b DEF MalformedDatagram
  <1>6. ASSUME OnUdpDatagram PROVE BucketFull'
    <2>1. ASSUME NEW c \in Clients, KnockWithoutDatabase(c) PROVE BucketFull'
      BY <1>4, <2>1 DEF KnockWithoutDatabase
    <2>2. ASSUME NEW c \in Clients, KnockRequest(c) PROVE BucketFull'
      BY <1>2, <1>a, <2>2 DEF KnockRequest
    <2> QED
      BY <1>5, <1>6, <2>1, <2>2, CostType DEF OnUdpDatagram
  <1>7. ASSUME OnAccept PROVE BucketFull'
    <2>1. ASSUME NEW c \in Clients, OnAcceptRefused(c) PROVE BucketFull'
      BY <1>2, <1>a, <1>b, <2>1, CostType DEF OnAcceptRefused, AcceptedEntry
    <2>2. ASSUME NEW k \in Conns, NEW c \in Clients,
                 OnAcceptDelayed(k, c) \/ OnAcceptOpen(k, c)
          PROVE  BucketFull'
      <3>1. AcceptedEntry(c) = per[c]
        BY <1>b, CostType DEF AcceptedEntry
      <3>2. AddConnection(per[c], k).available = Burst
        BY <1>a, ListKeeps
      <3>3. per' = [per EXCEPT ![c] = AddConnection(per[c], k)]
        BY <2>2, <3>1, AcceptFacts
      <3> QED
        BY <3>2, <3>3, FullEntryStep
    <2>3. ASSUME NEW k \in Conns, OnAcceptUnaccounted(k) PROVE BucketFull'
      BY <1>1, <2>3 DEF OnAcceptUnaccounted
    <2> QED
      BY <1>7, <2>1, <2>2, <2>3 DEF OnAccept
  <1>8. ASSUME NEW k \in Conns, OnTimer(k) PROVE BucketFull'
    <2>1. owner[k] \in Clients
      BY <1>8 DEF OnTimer, Linked, DelayedOwned
    <2>2. RemoveConnection(per[owner[k]], k) \in PerClient
          /\ RemoveConnection(per[owner[k]], k).available = Burst
      BY <1>a, <2>1, ListFacts, ListKeeps
    <2>3. AddConnection(RemoveConnection(per[owner[k]], k), k).available = Burst
      BY <2>2, ListKeeps
    <2>4. per' = [per EXCEPT ![owner[k]] =
                     AddConnection(RemoveConnection(per[owner[k]], k), k)]
      BY <1>8 DEF OnTimer
    <2> QED
      BY <2>1, <2>3, <2>4, FullEntryStep
  <1>9. ASSUME NEW k \in Conns, OnSocketReady(k) PROVE BucketFull'
    BY <1>3, <1>9, CostType DEF OnSocketReady
  <1>10. ASSUME NEW k \in Conns, LoginAccepted(k) PROVE BucketFull'
    <2>1. CASE owner[k] = None
      BY <1>1, <1>10, <2>1 DEF LoginAccepted
    <2>2. CASE owner[k] # None
      <3>1. owner[k] \in Clients /\ Charged(k, AcceptedLoginCost) = per[owner[k]]
        BY <1>c, <2>2, CostType
      <3>2. per' = [per EXCEPT ![owner[k]] = per[owner[k]]]
        BY <1>10, <2>2, <3>1 DEF LoginAccepted
      <3> QED
        BY <1>a, <3>1, <3>2, FullEntryStep
    <2> QED
      BY <2>1, <2>2
  <1>11. ASSUME NEW k \in Conns, NEW cost \in LoginDestroyCosts, ConnectionDestroy(k, cost)
         PROVE  BucketFull'
    <2>1. cost \in Nat
      BY CostType
    <2> QED
      BY <1>3, <1>11, <2>1 DEF ConnectionDestroy
  <1>12. ASSUME NEW c \in Clients, NEW result \in BOOLEAN, KnockRequestDone(c, result)
         PROVE  BucketFull'
    BY <1>4, <1>12 DEF KnockRequestDone
  <1>13. ASSUME OnCleanupTimer PROVE BucketFull'
    <2>1. per' = [c \in Clients |-> IF c \in Expired THEN NewPerClient ELSE per[c]]
      BY <1>13 DEF OnCleanupTimer
    <2> QED
      BY <1>a, <2>1 DEF BucketFull, NewPerClient
  <1>14. ASSUME OnShutdown PROVE BucketFull'
    <2>1. per' = [c \in Clients |-> Disconnected(per[c])]
      BY <1>14 DEF OnShutdown, ClearListeners
    <2>2. \A c \in Clients : Disconnected(per[c]).available = Burst
      BY <1>a DEF Disconnected, PerClient
    <2> QED
      BY <2>1, <2>2 DEF BucketFull
  <1>15. ASSUME Tick PROVE BucketFull'
    <2>1. PICK level \in [Clients -> (-MaxDebt)..Burst] :
             /\ \A c \in Clients : level[c] \in Refill(per[c].available)
             /\ per' = [c \in Clients |-> AgeTo(per[c], level[c])]
      BY <1>15 DEF Tick
    <2>2. Refill(Burst) = {Burst}
      BY BucketAssumption, SMT DEF Refill
    <2>3. \A c \in Clients : level[c] = Burst
      BY <1>a, <2>1, <2>2
    <2>4. \A c \in Clients : AgeTo(per[c], level[c]).available = Burst
      BY <1>a, <2>1, <2>3, AgeFacts
    <2> QED
      BY <2>1, <2>4 DEF BucketFull
  <1> QED
    BY <1>6, <1>7, <1>8, <1>9, <1>10, <1>11, <1>12, <1>13, <1>14, <1>15 DEF Next

\* Without a tarpit every bucket stays full.
LEMMA AlwaysFull == Spec => []BucketFull
  <1>1. Init => BucketFull
    BY DEF Init, BucketFull, NewPerClient
  <1>2. TypeOK /\ Linked /\ BucketFull /\ [Next]_vars => BucketFull'
    <2>1. BucketFull /\ UNCHANGED vars => BucketFull'
      BY DEF BucketFull, vars
    <2> QED
      BY <2>1, BucketStep
  <1> QED
    BY <1>1, <1>2, TypeCorrect, AlwaysLinked, PTL DEF Spec

\* The entry that an accepted connection finds: whoever is admitted at once
\* or, where a knock is required, at all, is not over the limit.
LEMMA AcceptedWithinLimit ==
  ASSUME TypeOK, BucketFull, NEW c \in Clients
  PROVE  /\ AcceptedEntry(c).delay = 0 => AcceptedEntry(c).available >= 0
         /\ AcceptedEntry(c).knocked => AcceptedEntry(c).available >= 0
  <1>1. per[c] \in PerClient
    BY DEF TypeOK
  <1> DEFINE pc == AcceptedEntry(c)
  <1>2. /\ pc \in PerClient
        /\ Tarpit /\ pc.available < 0 => pc.delay > 0
        /\ Tarpit /\ pc.available < 0 => pc.knocked = FALSE
        /\ ~Tarpit => pc = per[c]
    <2>1. pc = UpdateTokenBucket(per[c], AcceptCost) /\ AcceptCost \in Nat
      BY CostType DEF AcceptedEntry
    <2> HIDE DEF pc
    <2> QED
      BY <1>1, <2>1, UpdateTokenBucketFacts
  <1> HIDE DEF pc
  <1>3. pc.available \in (-MaxDebt)..Burst /\ pc.delay \in 0..(MaxDelay + DelayStep)
    BY <1>2 DEF PerClient
  <1>4. pc.available \in Int /\ pc.delay \in Int
    BY <1>3, BucketAssumption, TimeAssumption, SMT
  <1>5. CASE Tarpit
    <2>1. pc.available < 0 => pc.delay > 0 /\ pc.knocked = FALSE
      BY <1>2, <1>5
    <2>2. pc.delay = 0 => pc.available >= 0
      BY <1>4, <2>1, SMT
    <2>3. pc.available >= 0 \/ pc.available < 0
      BY <1>4, SMT
    <2>4. pc.knocked => pc.available >= 0
      BY <2>1, <2>3
    <2> QED
      BY <2>2, <2>4 DEF pc
  <1>6. CASE ~Tarpit
    <2>1. pc.available = Burst
      BY <1>2, <1>6 DEF BucketFull
    <2>2. pc.available >= 0
      BY <2>1, BucketAssumption, SMT
    <2> QED
      BY <2>2 DEF pc
  <1> QED
    BY <1>5, <1>6, LimitAssumption

\* Listener::OnAccept admits nobody at once who is over the limit or in the
\* tarpit, and nobody at all without a knock where one is required.
THEOREM AdmissionControlled == Spec => AdmissionControl
  <1> DEFINE Admits(k, c) ==
        (kind[k] = "none" /\ owner'[k] = c) =>
              /\ kind'[k] = "login" =>
                    per'[c].available >= 0 /\ per'[c].delay = 0
              /\ require_knock =>
                    per'[c].knocked /\ per'[c].available >= 0
  <1>1. ASSUME TypeOK, Linked, BucketFull, Next, NEW k \in Conns, NEW c \in Clients,
               kind[k] = "none", owner'[k] = c
        PROVE  /\ kind'[k] = "login" => per'[c].available >= 0 /\ per'[c].delay = 0
               /\ require_knock => per'[c].knocked /\ per'[c].available >= 0
    <2>1. owner[k] = None
      BY <1>1 DEF Linked, NoDangling
    <2>2. PICK m \in Conns, x \in Clients : OnAcceptDelayed(m, x) \/ OnAcceptOpen(m, x)
      BY <1>1, <2>1, OwnerStep, NoneAssumption
    <2>3. owner' = [owner EXCEPT ![m] = x]
      BY <1>1, <2>2, AcceptFacts
    <2>4. m = k /\ x = c
      BY <1>1, <2>1, <2>3, NoneAssumption DEF TypeOK
    <2>5. /\ per' = [per EXCEPT ![c] = AddConnection(AcceptedEntry(c), k)]
          /\ AcceptedEntry(c) \in PerClient
          /\ require_knock => AcceptedEntry(c).knocked
      BY <1>1, <2>2, <2>4, AcceptFacts
    <2>6. /\ per'[c].available = AcceptedEntry(c).available
          /\ per'[c].delay = AcceptedEntry(c).delay
      BY <1>1, <2>5, ListKeeps DEF TypeOK
    <2>7. per'[c].knocked = AcceptedEntry(c).knocked
      BY <1>1, <2>5, AddKeepsKnock DEF TypeOK
    <2>8. kind'[k] = "login" => AcceptedEntry(c).delay = 0
      <3>1. CASE OnAcceptDelayed(k, c)
        BY <1>1, <3>1 DEF OnAcceptDelayed, Enter, TypeOK
      <3>2. CASE OnAcceptOpen(k, c)
        BY <3>2 DEF OnAcceptOpen
      <3> QED
        BY <2>2, <2>4, <3>1, <3>2
    <2> QED
      BY <1>1, <2>5, <2>6, <2>7, <2>8, AcceptedWithinLimit
  <1>2. TypeOK /\ Linked /\ BucketFull /\ [Next]_vars =>
          [\A k \in Conns, c \in Clients : Admits(k, c)]_vars
    BY <1>1
  <1>3. AdmissionControl <=> [][\A k \in Conns, c \in Clients : Admits(k, c)]_vars
    BY PTL DEF AdmissionControl
  <1> HIDE DEF Admits
  <1> QED
    BY <1>2, <1>3, TypeCorrect, AlwaysLinked, AlwaysFull, PTL DEF Spec
=============================================================================

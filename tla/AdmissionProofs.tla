--------------------------- MODULE AdmissionProofs ---------------------------
(***************************************************************************)
(* Proofs about Admission, for any number of clients and connections and   *)
(* any limits.                                                             *)
(***************************************************************************)
EXTENDS Admission, FiniteSetTheorems, TLAPS

-----------------------------------------------------------------------------
(***************************************************************************)
(* The methods of PerClientAccounting.                                     *)
(***************************************************************************)

\* The entry that ClientAccountingMap::Get creates is well-formed.
LEMMA NewPerClientType == NewPerClient \in PerClient
  BY BucketAssumption, TimeAssumption, SMT DEF NewPerClient, PerClient

\* The token bucket stays within its bounds.
LEMMA ConsumeType ==
  ASSUME NEW a \in (-MaxDebt)..Burst, NEW size \in Nat
  PROVE  Consume(a, size) \in (-MaxDebt)..Burst
  BY BucketAssumption, SMT DEF Consume

\* The delay stays within its bounds, and it is positive for a client over
\* the limit.
LEMMA NextDelayType ==
  ASSUME NEW pc \in PerClient, NEW level \in Int
  PROVE  /\ NextDelay(pc, level) \in 0..(MaxDelay + DelayStep)
         /\ level < 0 => NextDelay(pc, level) > 0
         /\ pc.tarpit_until > 0 /\ pc.delay > 0 =>
               /\ NextDelay(pc, level) > 0
               /\ NextDelay(pc, level) >= pc.delay - DelayStep
  <1>1. pc.delay \in 0..(MaxDelay + DelayStep) /\ pc.tarpit_until \in 0..TarpitFor
    BY DEF PerClient
  <1>2. CASE level < 0
    BY <1>1, <1>2, TimeAssumption, SMT DEF NextDelay
  <1>3. CASE level >= 0 /\ pc.tarpit_until > 0
    BY <1>1, <1>3, TimeAssumption, SMT DEF NextDelay
  <1>4. CASE level >= 0 /\ ~(pc.tarpit_until > 0)
    BY <1>1, <1>4, TimeAssumption, SMT DEF NextDelay
  <1> QED
    BY <1>2, <1>3, <1>4, SMT

\* UpdateTokenBucket returns a well-formed entry with the same connections
\* and expiry; with a tarpit it leaves a client over the limit delayed and
\* without its knock.
LEMMA UpdateTokenBucketFacts ==
  ASSUME NEW pc \in PerClient, NEW size \in Nat,
         NEW new, new = UpdateTokenBucket(pc, size)
  PROVE  /\ new \in PerClient
         /\ new.connections = pc.connections
         /\ new.expires = pc.expires
         /\ Tarpit /\ new.available < 0 => new.delay > 0
         /\ Tarpit /\ new.available < 0 => new.knocked = FALSE
         /\ ~Tarpit => new = pc
         /\ pc.tarpit_until > 0 /\ pc.delay > 0 =>
               new.delay > 0 /\ new.delay >= pc.delay - DelayStep
  <1> DEFINE level == Consume(pc.available, size)
             d == NextDelay(pc, level)
  <1>1. level \in (-MaxDebt)..Burst
    BY ConsumeType DEF PerClient
  <1>2. level \in Int
    BY <1>1, BucketAssumption, SMT
  <1>3. /\ d \in 0..(MaxDelay + DelayStep)
        /\ level < 0 => d > 0
        /\ pc.tarpit_until > 0 /\ pc.delay > 0 => d > 0 /\ d >= pc.delay - DelayStep
    BY <1>2, NextDelayType
  <1> HIDE DEF level, d
  <1> DEFINE t == IF level < 0 THEN TarpitFor ELSE pc.tarpit_until
             b == pc.knocked /\ level >= 0
  <1>4. t \in 0..TarpitFor /\ b \in BOOLEAN
    BY TimeAssumption, SMT DEF PerClient
  <1>5. CASE Tarpit
    <2>1. new = [pc EXCEPT !.available = level, !.delay = d,
                           !.tarpit_until = t, !.knocked = b]
      BY <1>5 DEF UpdateTokenBucket, level, d
    <2>2. level < 0 => b = FALSE
      BY <1>2, SMT
    <2> HIDE DEF t, b
    <2>3. new \in PerClient
      BY <1>1, <1>3, <1>4, <2>1, Zenon DEF PerClient
    <2>4. /\ new.connections = pc.connections
          /\ new.expires = pc.expires
          /\ new.available = level
          /\ new.delay = d
      BY <2>1, SMT DEF PerClient
    <2>5. new.knocked = b
      BY <2>1, Zenon DEF PerClient
    <2> QED
      BY <1>3, <1>5, <2>2, <2>3, <2>4, <2>5
  <1>6. CASE ~Tarpit
    <2>1. new = pc
      BY <1>6 DEF UpdateTokenBucket
    <2>2. pc.delay \in Int /\ DelayStep \in Nat
      BY TimeAssumption, SMT DEF PerClient
    <2>3. pc.delay >= pc.delay - DelayStep
      BY <2>2, SMT
    <2> QED
      BY <1>6, <2>1, <2>3
  <1> QED
    BY <1>5, <1>6, LimitAssumption

\* AddConnection and RemoveConnection change the list (and the expiry) only.
LEMMA ListFacts ==
  ASSUME NEW pc \in PerClient, NEW k \in Conns
  PROVE  /\ AddConnection(pc, k) \in PerClient
         /\ AddConnection(pc, k) =
               [pc EXCEPT !.connections = pc.connections \cup {k}]
         /\ AddConnection(pc, k).connections = pc.connections \cup {k}
         /\ RemoveConnection(pc, k) \in PerClient
         /\ RemoveConnection(pc, k).connections = pc.connections \ {k}
         /\ RemoveConnection(pc, k).expires = ExpiresAfter
  <1>1. AddConnection(pc, k) \in PerClient
    BY Zenon DEF AddConnection, PerClient
  <1>2. /\ AddConnection(pc, k) = [pc EXCEPT !.connections = pc.connections \cup {k}]
        /\ AddConnection(pc, k).connections = pc.connections \cup {k}
    BY DEF AddConnection, PerClient
  <1>3. ExpiresAfter \in 0..ExpiresAfter
    BY TimeAssumption, SMT
  <1>4. RemoveConnection(pc, k) \in PerClient
    BY <1>3, Zenon DEF RemoveConnection, PerClient
  <1>5. /\ RemoveConnection(pc, k).connections = pc.connections \ {k}
        /\ RemoveConnection(pc, k).expires = ExpiresAfter
    BY DEF RemoveConnection, PerClient
  <1> QED
    BY <1>1, <1>2, <1>4, <1>5

\* A tick keeps an entry well-formed and its connections as they are.
LEMMA AgeFacts ==
  ASSUME NEW pc \in PerClient, NEW level \in (-MaxDebt)..Burst
  PROVE  /\ AgeTo(pc, level) \in PerClient
         /\ AgeTo(pc, level).connections = pc.connections
         /\ AgeTo(pc, level).delay = pc.delay
         /\ AgeTo(pc, level).knocked = pc.knocked
         /\ AgeTo(pc, level).available = level
         /\ AgeTo(pc, level).expires = Less(pc.expires)
         /\ AgeTo(pc, level).tarpit_until = Less(pc.tarpit_until)
  <1>1. Less(pc.expires) \in 0..ExpiresAfter /\ Less(pc.tarpit_until) \in 0..TarpitFor
    BY TimeAssumption, SMT DEF Less, PerClient
  <1>2. AgeTo(pc, level) \in PerClient
    BY <1>1, Zenon DEF AgeTo, PerClient
  <1>3. AgeTo(pc, level).knocked = pc.knocked
    BY Zenon DEF AgeTo, PerClient
  <1>4. /\ AgeTo(pc, level).connections = pc.connections
        /\ AgeTo(pc, level).delay = pc.delay
        /\ AgeTo(pc, level).available = level
        /\ AgeTo(pc, level).expires = Less(pc.expires)
        /\ AgeTo(pc, level).tarpit_until = Less(pc.tarpit_until)
    BY SMT DEF AgeTo, PerClient
  <1> QED
    BY <1>2, <1>3, <1>4

\* The prices are natural numbers.
LEMMA CostType ==
  /\ AcceptCost \in Nat
  /\ DelayedHangupCost \in Nat
  /\ MalformedKnockCost \in Nat
  /\ BadKnockNameCost \in Nat
  /\ RejectedKnockCost \in Nat
  /\ AcceptedLoginCost \in Nat
  /\ LoginDestroyCosts \subseteq Nat
  BY SMT DEF AcceptCost, DelayedHangupCost, MalformedKnockCost, BadKnockNameCost,
     RejectedKnockCost, AcceptedLoginCost, LoginDestroyCosts, MalformedLoginCost,
     BadUsernameCost, DatabaseErrorCost, RejectedLoginCost, InitialHangupCost, TimeoutCost

-----------------------------------------------------------------------------
(***************************************************************************)
(* Type correctness.                                                       *)
(***************************************************************************)

\* Delayed connections always have an entry to wait for.
DelayedOwned == \A k \in Conns : kind[k] = "delayed" => owner[k] \in Clients

\* What ~AccountedClientConnection leaves behind.
LEMMA ReleaseFacts ==
  ASSUME TypeOK, NEW k \in Conns, NEW pc \in PerClient, ReleaseAccounting(k, pc)
  PROVE  /\ per' \in [Clients -> PerClient]
         /\ cleanup_timer' \in Off..CleanupAfter
         /\ owner[k] = None => per' = per
         /\ owner[k] # None =>
               per' = [per EXCEPT ![owner[k]] = RemoveConnection(pc, k)]
  <1>1. RemoveConnection(pc, k) \in PerClient
    BY ListFacts
  <1>2. ScheduleCleanup(cleanup_timer) \in Off..CleanupAfter
    BY CleanupAssumption, SMT DEF ScheduleCleanup, Off, TypeOK
  <1>3. CASE owner[k] = None
    BY <1>3 DEF ReleaseAccounting, TypeOK
  <1>4. CASE owner[k] # None
    <2>1. per' = [per EXCEPT ![owner[k]] = RemoveConnection(pc, k)]
      BY <1>4 DEF ReleaseAccounting
    <2>2. cleanup_timer' \in {ScheduleCleanup(cleanup_timer), cleanup_timer}
      BY <1>4 DEF ReleaseAccounting
    <2> QED
      BY <1>1, <1>2, <1>4, <2>1, <2>2 DEF TypeOK
  <1> QED
    BY <1>3, <1>4

\* UpdateTokenBucket through the connection's own pointer.
LEMMA ChargedType ==
  ASSUME TypeOK, NEW k \in Conns, NEW size \in Nat
  PROVE  Charged(k, size) \in PerClient
  <1>1. CASE owner[k] = None
    BY <1>1, NewPerClientType DEF Charged
  <1>2. CASE owner[k] # None
    <2>1. per[owner[k]] \in PerClient
      BY <1>2 DEF TypeOK
    <2>2. UpdateTokenBucket(per[owner[k]], size) \in PerClient
      BY <2>1, UpdateTokenBucketFacts
    <2> QED
      BY <1>2, <2>1, <2>2 DEF Charged
  <1> QED
    BY <1>1, <1>2

\* The entry a handler stores after Get().
LEMMA GetAndSetType ==
  ASSUME TypeOK, NEW c \in Clients, NEW pc \in PerClient, GetAndSet(c, pc)
  PROVE  map' \in SUBSET Clients /\ per' \in [Clients -> PerClient]
  BY DEF GetAndSet, TypeOK

\* A connection that enters, moves on or leaves.
LEMMA EnterType ==
  ASSUME TypeOK, NEW k \in Conns, NEW c \in Clients \cup {None},
         NEW what \in Kinds, NEW delay \in Off..MaxTimer, Enter(k, c, what, delay)
  PROVE  /\ kind' \in [Conns -> Kinds]
         /\ owner' \in [Conns -> Clients \cup {None}]
         /\ timer' \in [Conns -> Off..MaxTimer]
  BY DEF Enter, TypeOK

\* Off is a value a timer can have, and so is a client's delay.
LEMMA TimerType ==
  /\ Off \in Off..MaxTimer
  /\ Off \in Off..CleanupAfter
  /\ CleanupAfter \in Off..CleanupAfter
  /\ \A n \in Off..MaxTimer : Less(n) \in Off..MaxTimer
  /\ \A n \in Off..CleanupAfter : Less(n) \in Off..CleanupAfter
  /\ \A n \in 0..NftTimeout : Less(n) \in 0..NftTimeout
  /\ NftTimeout \in 0..NftTimeout
  /\ \A pc \in PerClient : pc.delay \in Off..MaxTimer
  <1>1. /\ Off \in Off..MaxTimer
        /\ Off \in Off..CleanupAfter
        /\ CleanupAfter \in Off..CleanupAfter
        /\ NftTimeout \in 0..NftTimeout
    BY TimeAssumption, CleanupAssumption, SMT DEF Off, MaxTimer
  <1>2. /\ \A n \in Off..MaxTimer : Less(n) \in Off..MaxTimer
        /\ \A n \in Off..CleanupAfter : Less(n) \in Off..CleanupAfter
        /\ \A n \in 0..NftTimeout : Less(n) \in 0..NftTimeout
    BY TimeAssumption, CleanupAssumption, SMT DEF Off, MaxTimer, Less
  <1>3. 0..(MaxDelay + DelayStep) \subseteq Off..MaxTimer
    BY TimeAssumption, SMT DEF Off, MaxTimer
  <1>4. \A pc \in PerClient : pc.delay \in 0..(MaxDelay + DelayStep)
    BY DEF PerClient
  <1> QED
    BY <1>1, <1>2, <1>3, <1>4

\* Every handler preserves the types.
LEMMA TypeStep ==
  ASSUME TypeOK, Next
  PROVE  TypeOK'
  <1> USE TimerType, CostType
  <1>a. \A c \in Clients : per[c] \in PerClient
    BY DEF TypeOK
  <1>b. \A c \in Clients : AcceptedEntry(c) \in PerClient
    BY <1>a, UpdateTokenBucketFacts DEF AcceptedEntry
  <1>c. \A w \in {"none", "delayed", "login", "accepted"} : w \in Kinds
    BY DEF Kinds
  <1>1. ASSUME NEW c \in Clients, OnAcceptRefused(c)
        PROVE  TypeOK'
    BY <1>1, <1>b, GetAndSetType DEF OnAcceptRefused, TypeOK, config
  <1>2. ASSUME NEW k \in Conns, NEW c \in Clients, OnAcceptDelayed(k, c)
        PROVE  TypeOK'
    <2>1. AddConnection(AcceptedEntry(c), k) \in PerClient
      BY <1>b, ListFacts
    <2>2. GetAndSet(c, AddConnection(AcceptedEntry(c), k))
          /\ Enter(k, c, "delayed", AcceptedEntry(c).delay)
      BY <1>2 DEF OnAcceptDelayed, DelayTimer
    <2>3. AcceptedEntry(c).delay \in Off..MaxTimer
      BY <1>b
    <2>4. map' \in SUBSET Clients /\ per' \in [Clients -> PerClient]
      BY <2>1, <2>2, GetAndSetType
    <2>5. /\ kind' \in [Conns -> Kinds]
          /\ owner' \in [Conns -> Clients \cup {None}]
          /\ timer' \in [Conns -> Off..MaxTimer]
      BY <1>c, <2>2, <2>3, EnterType
    <2> QED
      BY <1>2, <2>4, <2>5 DEF OnAcceptDelayed, DelayTimer, TypeOK, config
  <1>3. ASSUME NEW k \in Conns, NEW c \in Clients, OnAcceptOpen(k, c)
        PROVE  TypeOK'
    <2>1. AddConnection(AcceptedEntry(c), k) \in PerClient
      BY <1>b, ListFacts
    <2>2. GetAndSet(c, AddConnection(AcceptedEntry(c), k))
          /\ Enter(k, c, "login", Off)
      BY <1>3 DEF OnAcceptOpen
    <2>3. map' \in SUBSET Clients /\ per' \in [Clients -> PerClient]
      BY <2>1, <2>2, GetAndSetType
    <2>4. /\ kind' \in [Conns -> Kinds]
          /\ owner' \in [Conns -> Clients \cup {None}]
          /\ timer' \in [Conns -> Off..MaxTimer]
      BY <1>c, <2>2, EnterType
    <2> QED
      BY <1>3, <2>3, <2>4 DEF OnAcceptOpen, TypeOK, config
  <1>4. ASSUME NEW k \in Conns, OnAcceptUnaccounted(k)
        PROVE  TypeOK'
    BY <1>4, <1>c, EnterType DEF OnAcceptUnaccounted, TypeOK, config
  <1>5. ASSUME NEW k \in Conns, OnTimer(k)
        PROVE  TypeOK'
    <2>1. CASE owner[k] = None
      <3>1. per' = per
        BY <1>5, <2>1, NoneAssumption DEF OnTimer, TypeOK
      <3> QED
        BY <1>5, <1>c, <3>1, EnterType DEF OnTimer, TypeOK, config
    <2>2. CASE owner[k] # None
      <3>1. owner[k] \in Clients /\ per[owner[k]] \in PerClient
        BY <2>2 DEF TypeOK
      <3>2. AddConnection(RemoveConnection(per[owner[k]], k), k) \in PerClient
        BY <3>1, ListFacts
      <3>3. per' \in [Clients -> PerClient]
        BY <1>5, <3>1, <3>2 DEF OnTimer, TypeOK
      <3> QED
        BY <1>5, <1>c, <3>1, <3>3, EnterType DEF OnTimer, TypeOK, config
    <2> QED
      BY <2>1, <2>2
  <1>6. ASSUME NEW k \in Conns, OnSocketReady(k)
        PROVE  TypeOK'
    <2>1. per' \in [Clients -> PerClient] /\ cleanup_timer' \in Off..CleanupAfter
      BY <1>6, ChargedType, ReleaseFacts DEF OnSocketReady
    <2> QED
      BY <1>6, <1>c, <2>1, EnterType DEF OnSocketReady, TypeOK, config
  <1>7. ASSUME NEW k \in Conns, LoginAccepted(k)
        PROVE  TypeOK'
    <2>1. per' \in [Clients -> PerClient]
      BY <1>7, ChargedType DEF LoginAccepted, TypeOK
    <2> QED
      BY <1>7, <1>c, <2>1 DEF LoginAccepted, TypeOK, config
  <1>8. ASSUME NEW k \in Conns, NEW cost \in LoginDestroyCosts, ConnectionDestroy(k, cost)
        PROVE  TypeOK'
    <2>1. per' \in [Clients -> PerClient] /\ cleanup_timer' \in Off..CleanupAfter
      BY <1>8, ChargedType, ReleaseFacts DEF ConnectionDestroy
    <2> QED
      BY <1>8, <1>c, <2>1, EnterType DEF ConnectionDestroy, TypeOK, config
  <1>9. ASSUME NEW c \in Clients, NEW result \in BOOLEAN, OnCheckCredentials(c, result)
        PROVE  /\ map' \in SUBSET Clients
               /\ per' \in [Clients -> PerClient]
               /\ nft' \in [Clients -> 0..NftTimeout]
    <2>1. [per[c] EXCEPT !.knocked = TRUE] \in PerClient
      BY <1>a, Zenon DEF PerClient
    <2>2. UpdateTokenBucket(per[c], RejectedKnockCost) \in PerClient
      BY <1>a, UpdateTokenBucketFacts
    <2>3. map' \in SUBSET Clients /\ per' \in [Clients -> PerClient]
      BY <1>9, <2>1, <2>2, GetAndSetType DEF OnCheckCredentials
    <2>4. nft' \in [Clients -> 0..NftTimeout]
      BY <1>9 DEF OnCheckCredentials, NftAddElement, TypeOK
    <2> QED
      BY <2>3, <2>4
  <1>10. ASSUME NEW c \in Clients, NEW cost \in Nat, MalformedDatagram(c, cost)
         PROVE  TypeOK'
    <2>1. UpdateTokenBucket(per[c], cost) \in PerClient
      BY <1>a, UpdateTokenBucketFacts
    <2> QED
      BY <1>10, <2>1, GetAndSetType DEF MalformedDatagram, TypeOK, config
  <1>11. ASSUME NEW c \in Clients, KnockWithoutDatabase(c)
         PROVE  TypeOK'
    BY <1>11, <1>9 DEF KnockWithoutDatabase, TypeOK, config
  <1>12. ASSUME NEW c \in Clients, KnockRequest(c)
         PROVE  TypeOK'
    <2>1. requests' \in [Clients -> 0..MaxRequests]
      BY <1>12, RequestsAssumption DEF KnockRequest, TypeOK
    <2> QED
      BY <1>12, <1>a, <2>1, GetAndSetType DEF KnockRequest, TypeOK, config
  <1>13. ASSUME NEW c \in Clients, NEW result \in BOOLEAN, KnockRequestDone(c, result)
         PROVE  TypeOK'
    <2>1. requests' \in [Clients -> 0..MaxRequests]
      BY <1>13, RequestsAssumption DEF KnockRequestDone, TypeOK
    <2> QED
      BY <1>13, <1>9, <2>1 DEF KnockRequestDone, TypeOK, config
  <1>14. CASE OnCleanupTimer
    <2>1. per' \in [Clients -> PerClient]
      BY <1>14, <1>a, NewPerClientType DEF OnCleanupTimer
    <2> QED
      BY <1>14, <2>1 DEF OnCleanupTimer, CleanupAgain, TypeOK, config
  <1>15. CASE OnShutdown
    <2>1. \A c \in Clients : Disconnected(per[c]) \in PerClient
      <3> SUFFICES ASSUME NEW c \in Clients
                   PROVE  Disconnected(per[c]) \in PerClient
        OBVIOUS
      <3>1. ExpiresAfter \in 0..ExpiresAfter
        BY TimeAssumption, SMT
      <3>2. [per[c] EXCEPT !.connections = {}, !.expires = ExpiresAfter] \in PerClient
        BY <1>a, <3>1, Zenon DEF PerClient
      <3> QED
        BY <1>a, <3>2 DEF Disconnected
    <2>2. per' \in [Clients -> PerClient]
      BY <1>15, <2>1 DEF OnShutdown, ClearListeners
    <2> QED
      BY <1>15, <1>c, <2>2 DEF OnShutdown, Shutdown, ClearListeners, TypeOK, config
  <1>16. CASE Tick
    <2>1. PICK level \in [Clients -> (-MaxDebt)..Burst] :
             per' = [c \in Clients |-> AgeTo(per[c], level[c])]
      BY <1>16 DEF Tick
    <2>2. \A c \in Clients : AgeTo(per[c], level[c]) \in PerClient
      BY <1>a, AgeFacts
    <2>3. per' \in [Clients -> PerClient]
      BY <2>1, <2>2
    <2> QED
      BY <1>16, <2>3 DEF Tick, TypeOK, config
  <1> QED
    BY <1>1, <1>2, <1>3, <1>4, <1>5, <1>6, <1>7, <1>8, <1>10, <1>11, <1>12, <1>13,
       <1>14, <1>15, <1>16
    DEF Next, OnAccept, OnUdpDatagram

\* Whatever the clients, the database and the timers do, every timer, entry
\* and counter of the admission control stays within its bounds.
THEOREM TypeCorrect == Spec => []TypeOK
  <1>1. Init => TypeOK
    <2> SUFFICES ASSUME Init PROVE TypeOK
      OBVIOUS
    <2>1. per \in [Clients -> PerClient]
      BY NewPerClientType DEF Init
    <2>2. 0 \in 0..MaxRequests /\ 0 \in 0..NftTimeout
      BY RequestsAssumption, CleanupAssumption, SMT
    <2> QED
      BY <2>1, <2>2, TimerType DEF Init, TypeOK, Kinds
  <1>2. TypeOK /\ [Next]_vars => TypeOK'
    <2>1. TypeOK /\ UNCHANGED vars => TypeOK'
      BY DEF TypeOK, vars
    <2> QED
      BY <2>1, TypeStep
  <1> QED
    BY <1>1, <1>2, PTL DEF Spec

-----------------------------------------------------------------------------
(***************************************************************************)
(* The pointers and the lists agree.                                       *)
(***************************************************************************)

Linked == NoDangling /\ DelayedOwned

\* A step that leaves pointers and lists alone, and deletes no entry that has
\* a connection.
LEMMA UnlinkedStep ==
  ASSUME TypeOK, Linked,
         owner' = owner,
         \A k \in Conns : (kind'[k] = "none" <=> kind[k] = "none")
                          /\ (kind'[k] = "delayed" => kind[k] = "delayed"),
         \A c \in map : per[c].connections # {} => c \in map',
         \A c \in Clients : per'[c].connections = per[c].connections
  PROVE  Linked'
  BY NoneAssumption DEF Linked, NoDangling, DelayedOwned, TypeOK

\* A step in which an unused connection k joins the list of c.
LEMMA JoinStep ==
  ASSUME TypeOK, Linked, NEW k \in Conns, NEW c \in Clients, kind[k] = "none",
         NEW what \in {"delayed", "login"},
         kind' = [kind EXCEPT ![k] = what],
         owner' = [owner EXCEPT ![k] = c],
         map' = map \cup {c},
         \A x \in Clients : per'[x].connections =
             IF x = c THEN per[x].connections \cup {k} ELSE per[x].connections
  PROVE  Linked'
  <1>1. owner[k] = None /\ \A x \in Clients : k \notin per[x].connections
    BY NoneAssumption DEF Linked, NoDangling, TypeOK
  <1>2. ASSUME NEW m \in Conns
        PROVE  /\ owner'[m] # None => owner'[m] \in map' /\ kind'[m] # "none"
               /\ \A x \in Clients : m \in per'[x].connections <=> owner'[m] = x
               /\ kind'[m] = "delayed" => owner'[m] \in Clients
    <2>1. CASE m = k
      <3>1. owner'[m] = c /\ kind'[m] = what /\ c # None /\ what # "none"
        BY <2>1, NoneAssumption DEF TypeOK
      <3>2. \A x \in Clients : m \in per'[x].connections <=> x = c
        BY <1>1, <2>1
      <3> QED
        BY <3>1, <3>2
    <2>2. CASE m # k
      <3>1. owner'[m] = owner[m] /\ kind'[m] = kind[m]
        BY <2>2 DEF TypeOK
      <3>2. \A x \in Clients : m \in per'[x].connections <=> m \in per[x].connections
        BY <2>2
      <3> QED
        BY <3>1, <3>2 DEF Linked, NoDangling, DelayedOwned
    <2> QED
      BY <2>1, <2>2
  <1> QED
    BY <1>2 DEF Linked, NoDangling, DelayedOwned

\* A step in which connection k leaves.
LEMMA LeaveStep ==
  ASSUME TypeOK, Linked, NEW k \in Conns,
         kind' = [kind EXCEPT ![k] = "none"],
         owner' = [owner EXCEPT ![k] = None],
         map' = map,
         \A x \in Clients : per'[x].connections =
             IF x = owner[k] THEN per[x].connections \ {k} ELSE per[x].connections
  PROVE  Linked'
  <1>1. ASSUME NEW m \in Conns
        PROVE  /\ owner'[m] # None => owner'[m] \in map' /\ kind'[m] # "none"
               /\ \A x \in Clients : m \in per'[x].connections <=> owner'[m] = x
               /\ kind'[m] = "delayed" => owner'[m] \in Clients
    <2>1. CASE m = k
      <3>1. owner'[m] = None /\ kind'[m] = "none"
        BY <2>1 DEF TypeOK
      <3>2. \A x \in Clients : m \notin per'[x].connections
        <4>1. \A x \in Clients : k \in per[x].connections <=> owner[k] = x
          BY DEF Linked, NoDangling
        <4> QED
          BY <2>1, <4>1
      <3> QED
        BY <3>1, <3>2, NoneAssumption
    <2>2. CASE m # k
      <3>1. owner'[m] = owner[m] /\ kind'[m] = kind[m]
        BY <2>2 DEF TypeOK
      <3>2. \A x \in Clients : m \in per'[x].connections <=> m \in per[x].connections
        BY <2>2
      <3> QED
        BY <3>1, <3>2 DEF Linked, NoDangling, DelayedOwned
    <2> QED
      BY <2>1, <2>2
  <1> QED
    BY <1>1 DEF Linked, NoDangling, DelayedOwned

\* Charging a connection does not change its list.
LEMMA ChargedConnections ==
  ASSUME TypeOK, NEW k \in Conns, NEW size \in Nat, owner[k] # None
  PROVE  Charged(k, size).connections = per[owner[k]].connections
  <1>1. per[owner[k]] \in PerClient
    BY DEF TypeOK
  <1>2. UpdateTokenBucket(per[owner[k]], size).connections = per[owner[k]].connections
    BY <1>1, UpdateTokenBucketFacts
  <1> QED
    BY <1>2 DEF Charged

\* ~AccountedClientConnection takes k off its list.
LEMMA ReleaseConnections ==
  ASSUME TypeOK, NEW k \in Conns, NEW size \in Nat, ReleaseAccounting(k, Charged(k, size))
  PROVE  \A x \in Clients : per'[x].connections =
             IF x = owner[k] THEN per[x].connections \ {k} ELSE per[x].connections
  <1>1. Charged(k, size) \in PerClient
    BY ChargedType
  <1>2. CASE owner[k] = None
    BY <1>1, <1>2, ReleaseFacts, NoneAssumption
  <1>3. CASE owner[k] # None
    <2>1. per' = [per EXCEPT ![owner[k]] = RemoveConnection(Charged(k, size), k)]
      BY <1>1, <1>3, ReleaseFacts
    <2>2. RemoveConnection(Charged(k, size), k).connections = per[owner[k]].connections \ {k}
      BY <1>1, <1>3, ListFacts, ChargedConnections
    <2> QED
      BY <2>1, <2>2 DEF TypeOK
  <1> QED
    BY <1>2, <1>3

\* Storing an entry with the same connections.
LEMMA GetAndSetConnections ==
  ASSUME TypeOK, NEW c \in Clients, NEW pc \in PerClient, GetAndSet(c, pc)
  PROVE  /\ map' = map \cup {c}
         /\ \A x \in Clients : per'[x].connections =
               IF x = c THEN pc.connections ELSE per[x].connections
  BY DEF GetAndSet, TypeOK

\* Charging an entry does not change its list.
LEMMA UpdateKeepsConnections ==
  ASSUME NEW pc \in PerClient, NEW size \in Nat
  PROVE  /\ UpdateTokenBucket(pc, size) \in PerClient
         /\ UpdateTokenBucket(pc, size).connections = pc.connections
  BY UpdateTokenBucketFacts

\* Every handler keeps pointers and lists in agreement.
LEMMA LinkedStep ==
  ASSUME TypeOK, Linked, Next
  PROVE  Linked'
  <1> USE CostType
  <1>a. \A c \in Clients : per[c] \in PerClient
    BY DEF TypeOK
  <1>b. \A c \in Clients : AcceptedEntry(c) \in PerClient
                           /\ AcceptedEntry(c).connections = per[c].connections
    BY <1>a, UpdateKeepsConnections DEF AcceptedEntry
  <1>1. ASSUME NEW c \in Clients, OnAcceptRefused(c)
        PROVE  Linked'
    <2>1. GetAndSet(c, AcceptedEntry(c)) /\ UNCHANGED <<kind, owner>>
      BY <1>1 DEF OnAcceptRefused
    <2>2. \A x \in Clients : per'[x].connections = per[x].connections
      BY <1>b, <2>1, GetAndSetConnections
    <2>3. map' = map \cup {c}
      BY <2>1 DEF GetAndSet
    <2> QED
      BY <2>1, <2>2, <2>3, UnlinkedStep
  <1>2. ASSUME NEW k \in Conns, NEW c \in Clients, OnAcceptDelayed(k, c)
        PROVE  Linked'
    <2>1. /\ kind[k] = "none"
          /\ GetAndSet(c, AddConnection(AcceptedEntry(c), k))
          /\ Enter(k, c, "delayed", AcceptedEntry(c).delay)
      BY <1>2 DEF OnAcceptDelayed, DelayTimer
    <2>2. /\ AddConnection(AcceptedEntry(c), k) \in PerClient
          /\ AddConnection(AcceptedEntry(c), k).connections = per[c].connections \cup {k}
      BY <1>b, ListFacts
    <2>3. /\ map' = map \cup {c}
          /\ \A x \in Clients : per'[x].connections =
                IF x = c THEN per[x].connections \cup {k} ELSE per[x].connections
      BY <2>1, <2>2, GetAndSetConnections
    <2> QED
      BY <2>1, <2>3, JoinStep DEF Enter
  <1>3. ASSUME NEW k \in Conns, NEW c \in Clients, OnAcceptOpen(k, c)
        PROVE  Linked'
    <2>1. /\ kind[k] = "none"
          /\ GetAndSet(c, AddConnection(AcceptedEntry(c), k))
          /\ Enter(k, c, "login", Off)
      BY <1>3 DEF OnAcceptOpen
    <2>2. /\ AddConnection(AcceptedEntry(c), k) \in PerClient
          /\ AddConnection(AcceptedEntry(c), k).connections = per[c].connections \cup {k}
      BY <1>b, ListFacts
    <2>3. /\ map' = map \cup {c}
          /\ \A x \in Clients : per'[x].connections =
                IF x = c THEN per[x].connections \cup {k} ELSE per[x].connections
      BY <2>1, <2>2, GetAndSetConnections
    <2> QED
      BY <2>1, <2>3, JoinStep DEF Enter
  <1>4. ASSUME NEW k \in Conns, OnAcceptUnaccounted(k)
        PROVE  Linked'
    <2>1. owner[k] = None
      BY <1>4 DEF OnAcceptUnaccounted, Linked, NoDangling
    <2>2. owner' = owner /\ kind' = [kind EXCEPT ![k] = "login"]
          /\ per' = per /\ map' = map
      BY <1>4, <2>1 DEF OnAcceptUnaccounted, Enter, TypeOK
    <2> QED
      BY <2>1, <2>2 DEF Linked, NoDangling, DelayedOwned, TypeOK
  <1>5. ASSUME NEW k \in Conns, OnTimer(k)
        PROVE  Linked'
    <2>1. kind[k] = "delayed" /\ owner[k] \in Clients
      BY <1>5 DEF OnTimer, Linked, DelayedOwned
    <2>2. k \in per[owner[k]].connections
      BY <2>1 DEF Linked, NoDangling
    <2>3. AddConnection(RemoveConnection(per[owner[k]], k), k).connections
            = per[owner[k]].connections
      <3>1. per[owner[k]] \in PerClient
        BY <1>a, <2>1
      <3>2. RemoveConnection(per[owner[k]], k) \in PerClient
            /\ RemoveConnection(per[owner[k]], k).connections
                  = per[owner[k]].connections \ {k}
        BY <3>1, ListFacts
      <3>3. AddConnection(RemoveConnection(per[owner[k]], k), k).connections
              = (per[owner[k]].connections \ {k}) \cup {k}
        BY <3>2, ListFacts
      <3> QED
        BY <2>2, <3>3
    <2>4. \A x \in Clients : per'[x].connections = per[x].connections
      BY <1>5, <2>1, <2>3 DEF OnTimer, TypeOK
    <2>5. owner' = owner /\ kind' = [kind EXCEPT ![k] = "login"] /\ map' = map
      BY <1>5 DEF OnTimer, Enter, TypeOK
    <2> QED
      BY <2>1, <2>4, <2>5 DEF Linked, NoDangling, DelayedOwned, TypeOK
  <1>6. ASSUME NEW k \in Conns, OnSocketReady(k)
        PROVE  Linked'
    <2>1. ReleaseAccounting(k, Charged(k, DelayedHangupCost)) /\ map' = map
      BY <1>6 DEF OnSocketReady
    <2>2. kind' = [kind EXCEPT ![k] = "none"] /\ owner' = [owner EXCEPT ![k] = None]
      BY <1>6 DEF OnSocketReady, Enter
    <2> QED
      BY <2>1, <2>2, ReleaseConnections, LeaveStep
  <1>7. ASSUME NEW k \in Conns, LoginAccepted(k)
        PROVE  Linked'
    <2>1. \A x \in Clients : per'[x].connections = per[x].connections
      <3>1. CASE owner[k] = None
        BY <1>7, <3>1 DEF LoginAccepted
      <3>2. CASE owner[k] # None
        <4>1. Charged(k, AcceptedLoginCost).connections = per[owner[k]].connections
          BY <3>2, ChargedConnections
        <4>2. per' = [per EXCEPT ![owner[k]] = Charged(k, AcceptedLoginCost)]
          BY <1>7, <3>2 DEF LoginAccepted
        <4> QED
          BY <4>1, <4>2 DEF TypeOK
      <3> QED
        BY <3>1, <3>2
    <2>2. kind[k] = "login" /\ kind' = [kind EXCEPT ![k] = "accepted"]
          /\ owner' = owner /\ map' = map
      BY <1>7 DEF LoginAccepted
    <2> QED
      BY <2>1, <2>2, UnlinkedStep DEF TypeOK
  <1>8. ASSUME NEW k \in Conns, NEW cost \in LoginDestroyCosts, ConnectionDestroy(k, cost)
        PROVE  Linked'
    <2>1. ReleaseAccounting(k, Charged(k, cost)) /\ map' = map
      BY <1>8 DEF ConnectionDestroy
    <2>2. kind' = [kind EXCEPT ![k] = "none"] /\ owner' = [owner EXCEPT ![k] = None]
      BY <1>8 DEF ConnectionDestroy, Enter
    <2> QED
      BY <2>1, <2>2, ReleaseConnections, LeaveStep
  <1>9. ASSUME NEW c \in Clients, NEW pc \in PerClient, GetAndSet(c, pc),
               pc.connections = per[c].connections, UNCHANGED <<kind, owner>>
        PROVE  Linked'
    <2>1. \A x \in Clients : per'[x].connections = per[x].connections
      BY <1>9, GetAndSetConnections
    <2>2. map' = map \cup {c}
      BY <1>9 DEF GetAndSet
    <2> QED
      BY <1>9, <2>1, <2>2, UnlinkedStep
  <1>10. ASSUME NEW c \in Clients, NEW cost \in Nat
         PROVE  /\ UpdateTokenBucket(per[c], cost) \in PerClient
                /\ UpdateTokenBucket(per[c], cost).connections = per[c].connections
    BY <1>a, UpdateKeepsConnections
  <1>11. ASSUME NEW c \in Clients
         PROVE  /\ [per[c] EXCEPT !.knocked = TRUE] \in PerClient
                /\ [per[c] EXCEPT !.knocked = TRUE].connections = per[c].connections
    BY <1>a, Zenon DEF PerClient
  <1>12. ASSUME NEW c \in Clients, NEW result \in BOOLEAN,
                OnCheckCredentials(c, result), UNCHANGED <<kind, owner>>
         PROVE  Linked'
    <2>1. CASE result
      <3>1. GetAndSet(c, [per[c] EXCEPT !.knocked = TRUE])
        BY <1>12, <2>1 DEF OnCheckCredentials
      <3> QED
        BY <1>9, <1>11, <1>12, <3>1
    <2>2. CASE ~result
      <3>1. GetAndSet(c, UpdateTokenBucket(per[c], RejectedKnockCost))
        BY <1>12, <2>2 DEF OnCheckCredentials
      <3> QED
        BY <1>9, <1>10, <1>12, <3>1
    <2> QED
      BY <2>1, <2>2
  <1>13. ASSUME NEW c \in Clients, NEW cost \in Nat, MalformedDatagram(c, cost)
         PROVE  Linked'
    <2>1. GetAndSet(c, UpdateTokenBucket(per[c], cost)) /\ UNCHANGED <<kind, owner>>
      BY <1>13 DEF MalformedDatagram
    <2> QED
      BY <1>9, <1>10, <2>1
  <1>14. ASSUME NEW c \in Clients, KnockWithoutDatabase(c)
         PROVE  Linked'
    BY <1>12, <1>14 DEF KnockWithoutDatabase
  <1>15. ASSUME NEW c \in Clients, KnockRequest(c)
         PROVE  Linked'
    BY <1>9, <1>a, <1>15 DEF KnockRequest
  <1>16. ASSUME NEW c \in Clients, NEW result \in BOOLEAN, KnockRequestDone(c, result)
         PROVE  Linked'
    BY <1>12, <1>16 DEF KnockRequestDone
  <1>17. CASE OnCleanupTimer
    <2>1. \A c \in Clients : per'[c].connections = per[c].connections
      BY <1>17 DEF OnCleanupTimer, Expired, NewPerClient
    <2>2. \A c \in map : per[c].connections # {} => c \in map'
      BY <1>17 DEF OnCleanupTimer, Expired
    <2>3. UNCHANGED <<kind, owner>>
      BY <1>17 DEF OnCleanupTimer
    <2> QED
      BY <2>1, <2>2, <2>3, UnlinkedStep
  <1>18. CASE OnShutdown
    <2>1. \A c \in Clients : per'[c].connections = {}
      BY <1>18, <1>a DEF OnShutdown, ClearListeners, Disconnected, PerClient
    <2>2. \A k \in Conns : kind'[k] = "none" /\ owner'[k] = None
      BY <1>18 DEF OnShutdown, ClearListeners
    <2> QED
      BY <2>1, <2>2, NoneAssumption DEF Linked, NoDangling, DelayedOwned
  <1>19. CASE Tick
    <2>1. PICK level \in [Clients -> (-MaxDebt)..Burst] :
             per' = [c \in Clients |-> AgeTo(per[c], level[c])]
      BY <1>19 DEF Tick
    <2>2. \A c \in Clients : per'[c].connections = per[c].connections
      BY <1>a, <2>1, AgeFacts
    <2>3. UNCHANGED <<kind, owner, map>>
      BY <1>19 DEF Tick
    <2> QED
      BY <2>2, <2>3, UnlinkedStep
  <1> QED
    BY <1>1, <1>2, <1>3, <1>4, <1>5, <1>6, <1>7, <1>8, <1>13, <1>14, <1>15, <1>16,
       <1>17, <1>18, <1>19
    DEF Next, OnAccept, OnUdpDatagram

\* The inductive invariant behind NoDangling adds that only accounted
\* connections are delayed, because OnTimer hands over the pointer without
\* looking at it.
LEMMA AlwaysLinked == Spec => []Linked
  <1>1. Init => Linked
    <2> SUFFICES ASSUME Init PROVE Linked
      OBVIOUS
    <2>1. \A c \in Clients : per[c].connections = {}
      BY DEF Init, NewPerClient
    <2>2. \A k \in Conns : kind[k] = "none" /\ owner[k] = None
      BY DEF Init
    <2> QED
      BY <2>1, <2>2, NoneAssumption DEF Linked, NoDangling, DelayedOwned
  <1>2. TypeOK /\ Linked /\ [Next]_vars => Linked'
    <2>1. Linked /\ UNCHANGED vars => Linked'
      BY DEF Linked, NoDangling, DelayedOwned, vars
    <2> QED
      BY <2>1, LinkedStep
  <1> QED
    BY <1>1, <1>2, TypeCorrect, PTL DEF Spec

\* No connection is left pointing to an entry that OnCleanupTimer deleted, and
\* every list holds exactly the connections that point to it.
THEOREM NeverDangling == Spec => []NoDangling
  <1>1. Linked => NoDangling
    BY DEF Linked
  <1> QED
    BY <1>1, AlwaysLinked, PTL
=============================================================================

-------------------------- MODULE ClientAccounting --------------------------
(***************************************************************************)
(* PerClientAccounting (net/ClientAccounting.cxx): what uologin remembers  *)
(* about one client address.  Every method is an operator from the old     *)
(* record to the new one; module Admission composes them into the handlers *)
(* of the event loop.                                                      *)
(*                                                                         *)
(* A point in time is kept as the number of ticks that are left until it   *)
(* is reached; 0 is "not in the future", which is also what the            *)
(* value-initialised Event::TimePoint of a new entry is.                   *)
(***************************************************************************)
EXTENDS Integers, FiniteSets, Tokens

CONSTANTS
    Clients,         \* client addresses that ToInteger maps to distinct keys
    Conns,           \* identities of accepted TCP connections
    MaxConnections,  \* ClientAccountingMap::max_connections, 0 is "no limit"
    Tarpit,          \* ClientAccountingMap::tarpit
    Burst,           \* token_bucket_config.burst
    TarpitFor,       \* TARPIT_FOR
    MaxDelay,        \* MAX_DELAY
    DelayStep,       \* DELAY_STEP
    ExpiresAfter,    \* lifetime of an entry after its last connection
    MaxDebt          \* bound: the deepest token debt that is told apart

ASSUME ConnsAssumption == IsFiniteSet(Conns)
ASSUME LimitAssumption == MaxConnections \in Nat /\ Tarpit \in BOOLEAN
ASSUME BucketAssumption == Burst \in Nat /\ MaxDebt \in Nat \ {0}
ASSUME TimeAssumption ==
    /\ TarpitFor \in Nat \ {0}
    /\ ExpiresAfter \in Nat \ {0}
    /\ DelayStep \in Nat \ {0}
    /\ MaxDelay \in Nat
    /\ DelayStep <= MaxDelay

(***************************************************************************)
(* The fields of a PerClientAccounting.  "available" is the level of the   *)
(* token bucket as of now.                                                 *)
(***************************************************************************)
PerClient ==
    [connections  : SUBSET Conns,
     expires      : 0..ExpiresAfter,
     tarpit_until : 0..TarpitFor,
     delay        : 0..(MaxDelay + DelayStep),
     available    : (-MaxDebt)..Burst,
     knocked      : BOOLEAN]

NewPerClient ==
    [connections  |-> {},
     expires      |-> 0,
     tarpit_until |-> 0,
     delay        |-> 0,
     available    |-> Burst,
     knocked      |-> FALSE]

CheckOneTooMany(pc) ==
    MaxConnections = 0 \/ Cardinality(pc.connections) <= MaxConnections

Check(pc) ==
    MaxConnections = 0 \/ Cardinality(pc.connections) < MaxConnections

AddConnection(pc, k) == [pc EXCEPT !.connections = @ \cup {k}]

RemoveWithoutExpiry(pc, k) == [pc EXCEPT !.connections = @ \ {k}]

RemoveConnection(pc, k) ==
    [pc EXCEPT !.connections = @ \ {k}, !.expires = ExpiresAfter]

(***************************************************************************)
(* TokenBucket::Update of libcommon: the tokens are taken even when there  *)
(* are not enough, and the new, possibly negative, level is returned.      *)
(* Levels below -MaxDebt are not told apart.                               *)
(***************************************************************************)
Consume(available, size) ==
    IF available - size < -MaxDebt THEN -MaxDebt ELSE available - size

(***************************************************************************)
(* The delay after the bucket has been updated to the given level: one     *)
(* step up for a client over its limit, one step down (but never to zero)  *)
(* during its tarpit, and cleared afterwards.                              *)
(***************************************************************************)
DelayUncapped(pc, level) ==
    IF level < 0 THEN pc.delay + DelayStep ELSE 0

DelayForgetsTarpit(pc, level) ==
    IF level < 0
    THEN IF pc.delay < MaxDelay THEN pc.delay + DelayStep ELSE pc.delay
    ELSE 0

NextDelay(pc, level) ==
    CASE level < 0 ->
            IF pc.delay < MaxDelay THEN pc.delay + DelayStep ELSE pc.delay
      [] level >= 0 /\ pc.tarpit_until > 0 ->
            IF pc.delay > DelayStep THEN pc.delay - DelayStep ELSE pc.delay
      [] OTHER -> 0

UpdateTokenBucket(pc, size) ==
    LET level == Consume(pc.available, size)
    IN  IF ~Tarpit THEN pc
        ELSE [pc EXCEPT !.available = level,
                        !.delay = NextDelay(pc, level),
                        !.tarpit_until = IF level < 0 THEN TarpitFor ELSE @,
                        !.knocked = @ /\ level >= 0]

(***************************************************************************)
(* One tick passes for an entry.  A debt at the bound may be deeper than   *)
(* the bound, so a tick may leave it there.                                *)
(***************************************************************************)
Less(n) == IF n > 0 THEN n - 1 ELSE n

Refill(available) ==
    IF available = -MaxDebt THEN {available, available + 1}
    ELSE {IF available < Burst THEN available + 1 ELSE available}

AgeTo(pc, available) ==
    [pc EXCEPT !.expires = Less(@), !.tarpit_until = Less(@), !.available = available]
=============================================================================

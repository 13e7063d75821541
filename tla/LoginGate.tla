------------------------------ MODULE LoginGate ------------------------------
(***************************************************************************)
(* What a Connection promises to the rest of uologin, without saying how:  *)
(* a client is linked to a game server only after its login was accepted,  *)
(* a login is accepted only with good credentials when they are checked at *)
(* all, and every connection is billed for how it went.  Module Connection *)
(* implements this specification, module Admission uses it.                *)
(***************************************************************************)
EXTENDS Integers, Tokens

CONSTANTS Conns

VARIABLES
    phase,    \* "none", "login" or "accepted"
    offer,    \* the credentials the client sent: "nothing", "good" or "bad"
    linked,   \* is there a connection to the game server?
    bill,     \* tokens charged to the connection so far
    checked   \* are credentials checked?  Never changes.

gateVars == <<phase, offer, linked, bill, checked>>

Init ==
    /\ phase = [k \in Conns |-> "none"]
    /\ offer = [k \in Conns |-> "nothing"]
    /\ linked = [k \in Conns |-> FALSE]
    /\ bill = [k \in Conns |-> 0]
    /\ checked \in BOOLEAN

Enter(k) ==
    /\ phase[k] = "none"
    /\ phase' = [phase EXCEPT ![k] = "login"]
    /\ bill' = [bill EXCEPT ![k] = 0]
    /\ UNCHANGED <<offer, linked, checked>>

Submit(k, credentials) ==
    /\ phase[k] = "login"
    /\ offer[k] = "nothing"
    /\ offer' = [offer EXCEPT ![k] = credentials]
    /\ UNCHANGED <<phase, linked, bill, checked>>

\* The credentials may be accepted in the step that submits them.
Accept(k, credentials) ==
    /\ phase[k] = "login"
    /\ offer[k] \in {"nothing", credentials}
    /\ checked => credentials = "good"
    /\ phase' = [phase EXCEPT ![k] = "accepted"]
    /\ offer' = [offer EXCEPT ![k] = credentials]
    /\ bill' = [bill EXCEPT ![k] = @ + AcceptedLoginCost]
    /\ UNCHANGED <<linked, checked>>

Link(k) ==
    /\ phase[k] = "accepted"
    /\ ~linked[k]
    /\ linked' = [linked EXCEPT ![k] = TRUE]
    /\ UNCHANGED <<phase, offer, bill, checked>>

Leave(k, cost) ==
    /\ \/ phase[k] = "login" /\ cost \in LoginDestroyCosts
       \/ phase[k] = "accepted" /\ cost \in AcceptedDestroyCosts
    /\ phase' = [phase EXCEPT ![k] = "none"]
    /\ offer' = [offer EXCEPT ![k] = "nothing"]
    /\ linked' = [linked EXCEPT ![k] = FALSE]
    /\ bill' = [bill EXCEPT ![k] = @ + cost]
    /\ UNCHANGED checked

\* The server goes down: everybody leaves, nobody is charged.
LeaveAll ==
    /\ phase' = [k \in Conns |-> "none"]
    /\ offer' = [k \in Conns |-> "nothing"]
    /\ linked' = [k \in Conns |-> FALSE]
    /\ UNCHANGED <<bill, checked>>

Next ==
    \/ \E k \in Conns : Enter(k)
    \/ \E k \in Conns, credentials \in {"good", "bad"} : Submit(k, credentials)
    \/ \E k \in Conns, credentials \in {"good", "bad"} : Accept(k, credentials)
    \/ \E k \in Conns : Link(k)
    \/ \E k \in Conns, cost \in LoginDestroyCosts \cup AcceptedDestroyCosts : Leave(k, cost)
    \/ LeaveAll

Spec == Init /\ [][Next]_gateVars
=============================================================================

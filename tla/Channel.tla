------------------------------- MODULE Channel -------------------------------
(***************************************************************************)
(* What the READY state of a Connection promises: a session is a pair of   *)
(* lossless ordered channels, one in each direction, until it ends.  An    *)
(* orderly end of one direction comes after all of its data; the other     *)
(* direction, and both in any other case, may be cut off.  Module Relay    *)
(* implements this specification with splices and shared pipes.            *)
(***************************************************************************)
EXTENDS Integers, Sequences

CONSTANTS Conns, Dirs

VARIABLES
    session,   \* "new", "open" or "closed"
    sent,      \* how many units of data were sent into each channel
    got,       \* what has come out of it
    complete   \* the channels whose end was reported to the receiver

channelVars == <<session, sent, got, complete>>

Links == Conns \X Dirs

Init ==
    /\ session = [k \in Conns |-> "new"]
    /\ sent = [l \in Links |-> 0]
    /\ got = [l \in Links |-> <<>>]
    /\ complete = {}

Open(k) ==
    /\ session[k] = "new"
    /\ session' = [session EXCEPT ![k] = "open"]
    /\ UNCHANGED <<sent, got, complete>>

Send(l) ==
    /\ session[l[1]] = "open"
    /\ sent' = [sent EXCEPT ![l] = @ + 1]
    /\ UNCHANGED <<session, got, complete>>

\* The next units come out, the i-th one of l being <<l, i>>.
Deliver(l) ==
    /\ session[l[1]] = "open"
    /\ \E n \in (Len(got[l]) + 1)..sent[l] :
         got' = [got EXCEPT ![l] = [i \in 1..n |-> <<l, i>>]]
    /\ UNCHANGED <<session, sent, complete>>

\* The session ends.  Only what is known to be complete is remembered.
End(k, finished) ==
    /\ session[k] = "open"
    /\ finished \subseteq {l \in {k} \X Dirs : Len(got[l]) = sent[l]}
    /\ session' = [session EXCEPT ![k] = "closed"]
    /\ complete' = complete \cup finished
    /\ sent' = [l \in Links |-> IF l[1] = k /\ l \notin finished THEN 0 ELSE sent[l]]
    /\ got' = [l \in Links |-> IF l[1] = k /\ l \notin finished THEN <<>> ELSE got[l]]

Next ==
    \/ \E k \in Conns : Open(k)
    \/ \E l \in Links : Send(l)
    \/ \E l \in Links : Deliver(l)
    \/ \E k \in Conns : \E finished \in SUBSET ({k} \X Dirs) : End(k, finished)

Spec == Init /\ [][Next]_channelVars
=============================================================================

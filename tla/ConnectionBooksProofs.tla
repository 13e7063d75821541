------------------------ MODULE ConnectionBooksProofs ------------------------
(***************************************************************************)
(* Proofs about the gauges, the counters and the charges of Connection and *)
(* that Connection implements LoginGate.                                   *)
(***************************************************************************)
EXTENDS ConnectionProofs, SequenceTheorems

-----------------------------------------------------------------------------
(***************************************************************************)
(* The gauges count sets of Connections that change by one element, or     *)
(* become empty at the shutdown.                                           *)
(***************************************************************************)

Live == {k \in Conns : conn[k].state # "none"}
Linked == {k \in Conns : conn[k].out}

\* The gauges count finite sets: no more than there are Connection objects.
LEMMA GaugesFinite ==
  /\ IsFiniteSet(Live) /\ Cardinality(Live) \in 0..Cardinality(Conns)
  /\ IsFiniteSet(Linked) /\ Cardinality(Linked) \in 0..Cardinality(Conns)
  <1>1. ASSUME NEW S \in SUBSET Conns
        PROVE  IsFiniteSet(S) /\ Cardinality(S) \in 0..Cardinality(Conns)
    <2>1. IsFiniteSet(S) /\ Cardinality(S) <= Cardinality(Conns)
      BY FiniteAssumption, FS_Subset
    <2>2. Cardinality(S) \in Nat /\ Cardinality(Conns) \in Nat
      BY <2>1, FiniteAssumption, FS_CardinalityType
    <2> QED
      BY <2>1, <2>2, SMT
  <1>2. Live \in SUBSET Conns /\ Linked \in SUBSET Conns
    BY DEF Live, Linked
  <1> QED
    BY <1>1, <1>2

\* The only two ways a good Connection counts for a gauge.
LEMMA CountsFor ==
  ASSUME Objects, NEW k \in Conns
  PROVE  /\ k \in Live <=> conn[k].state # "none"
         /\ k \in Linked <=> conn[k].state \in {"SEND_PLAY_SERVER", "READY"}
  BY DEF Objects, GoodConn, ConnOK, Live, Linked

\* If only k changes, the sets differ at most in k.
LEMMA OneConnection ==
  ASSUME Objects, Objects', NEW k \in Conns, NEW cn, conn' = [conn EXCEPT ![k] = cn]
  PROVE  /\ conn'[k] = cn
         /\ Live' = IF cn.state # "none" THEN Live \cup {k} ELSE Live \ {k}
         /\ Linked' = IF cn.state \in {"SEND_PLAY_SERVER", "READY"}
                      THEN Linked \cup {k} ELSE Linked \ {k}
  <1>1. conn'[k] = cn /\ \A c \in Conns \ {k} : conn'[c] = conn[c]
    BY DEF Objects
  <1>2. cn.out <=> cn.state \in {"SEND_PLAY_SERVER", "READY"}
    BY <1>1 DEF Objects, GoodConn, ConnOK
  <1> QED
    BY <1>1, <1>2 DEF Live, Linked

\* A Connection that stays alive, and linked or not linked, is counted as
\* before.
LEMMA StaysCounted ==
  ASSUME Objects, Objects', NEW k \in Conns, NEW cn, conn' = [conn EXCEPT ![k] = cn],
         conn[k].state # "none", cn.state # "none",
         conn[k].state \in {"SEND_PLAY_SERVER", "READY"} <=>
            cn.state \in {"SEND_PLAY_SERVER", "READY"}
  PROVE  Live' = Live /\ Linked' = Linked
  <1>1. Live' = Live \cup {k}
    BY OneConnection
  <1>2. Linked' = IF cn.state \in {"SEND_PLAY_SERVER", "READY"}
                  THEN Linked \cup {k} ELSE Linked \ {k}
    BY OneConnection
  <1>3. k \in Live /\ (k \in Linked <=> cn.state \in {"SEND_PLAY_SERVER", "READY"})
    BY CountsFor
  <1>4. Live' = Live
    BY <1>1, <1>3
  <1>5. Linked' = Linked
    BY <1>2, <1>3
  <1> QED
    BY <1>4, <1>5

\* Every kind of step moves the gauges by what it creates, links or destroys.
LEMMA GaugesStep ==
  ASSUME Objects, Objects', Kind, GaugesExact
  PROVE  GaugesExact'
  <1> DEFINE Exact == client_connections = Cardinality(Live)
                      /\ server_connections = Cardinality(Linked)
  <1>a. Exact /\ (Exact' => GaugesExact')
    BY DEF GaugesExact, Live, Linked
  <1>1. ASSUME NEW k \in Conns, NewConnection(k) PROVE Exact'
    <2>1. Live' = Live \cup {k} /\ Linked' = Linked \ {k}
      BY <1>1, GoneGood, OneConnection DEF NewConnection
    <2>2. k \notin Live /\ k \notin Linked
      BY <1>1, CountsFor DEF NewConnection
    <2>3. Linked' = Linked
      BY <2>1, <2>2
    <2>4. Cardinality(Live') = Cardinality(Live) + 1
      BY <2>1, <2>2, GaugesFinite, FS_AddElement
    <2> QED
      BY <1>1, <1>a, <2>3, <2>4 DEF NewConnection
  <1>2. ASSUME NEW k \in Conns, Ends(k) PROVE Exact'
    <2>1. Live' = Live \ {k} /\ Linked' = Linked \ {k}
      BY <1>2, GoneGood, OneConnection DEF Ends, Delete
    <2>2. k \in Live
      BY <1>2, CountsFor DEF Ends
    <2>3. Cardinality(Live') = Cardinality(Live) - 1
      BY <2>1, <2>2, GaugesFinite, FS_RemoveElement
    <2>4. Cardinality(Linked') = IF conn[k].out THEN Cardinality(Linked) - 1
                                 ELSE Cardinality(Linked)
      <3>1. k \in Linked <=> conn[k].out
        BY DEF Linked
      <3> QED
        BY <2>1, <3>1, GaugesFinite, FS_RemoveElement
    <2> QED
      BY <1>2, <1>a, <2>3, <2>4 DEF Ends, Delete, ServerGaugeWithout
  <1>3. ASSUME NEW k \in Conns, Moves(k) PROVE Exact'
    <2>1. PICK cn \in GoodConn :
            /\ conn' = [conn EXCEPT ![k] = cn]
            /\ conn[k].state # "none" /\ cn.state # "none"
            /\ conn[k].state \in {"SEND_PLAY_SERVER", "READY"} <=>
                  cn.state \in {"SEND_PLAY_SERVER", "READY"}
      BY <1>3 DEF Moves
    <2>2. Live' = Live /\ Linked' = Linked
      BY <2>1, StaysCounted
    <2> QED
      BY <1>3, <1>a, <2>2 DEF Moves, gauges
  <1>4. ASSUME NEW k \in Conns, IsAccepted(k) PROVE Exact'
    <2>1. PICK cn \in GoodConn :
            /\ conn' = [conn EXCEPT ![k] = cn]
            /\ conn[k].state \in {"INITIAL", "CHECK_CREDENTIALS"}
            /\ cn.state \in {"SERVER_LIST", "CONNECTING"}
      BY <1>4 DEF IsAccepted
    <2>2. Live' = Live /\ Linked' = Linked
      BY <2>1, StaysCounted
    <2> QED
      BY <1>4, <1>a, <2>2 DEF IsAccepted, gauges
  <1>5. ASSUME NEW k \in Conns, IsLinked(k) PROVE Exact'
    <2>1. PICK cn \in GoodConn :
            /\ conn' = [conn EXCEPT ![k] = cn]
            /\ conn[k].state = "CONNECTING"
            /\ cn.state \in {"SEND_PLAY_SERVER", "READY"}
      BY <1>5 DEF IsLinked
    <2>2. Live' = Live \cup {k} /\ Linked' = Linked \cup {k}
      BY <2>1, OneConnection
    <2>3. k \in Live /\ k \notin Linked
      BY <2>1, CountsFor
    <2>4. Live' = Live
      BY <2>2, <2>3
    <2>5. Cardinality(Linked') = Cardinality(Linked) + 1
      BY <2>2, <2>3, GaugesFinite, FS_AddElement
    <2> QED
      BY <1>5, <1>a, <2>4, <2>5 DEF IsLinked
  <1>6. ASSUME UNCHANGED <<conn, books, gauges, config>> PROVE Exact'
    BY <1>6, <1>a DEF gauges, Live, Linked
  <1>7. ASSUME OnShutdown PROVE Exact'
    <2>1. Live' = {} /\ Linked' = {}
      BY <1>7, GoneGood DEF OnShutdown, Live, Linked
    <2>2. Cardinality(Live') = 0 /\ Cardinality(Linked') = 0
      BY <2>1, FS_EmptySet
    <2>3. Cardinality(Live) \in Int /\ Cardinality(Linked) \in Int
      BY GaugesFinite
    <2>4. /\ client_connections' = client_connections - Cardinality(Live)
          /\ server_connections' = server_connections - Cardinality(Linked)
      BY <1>7 DEF OnShutdown, Live, Linked
    <2> QED
      BY <1>a, <2>2, <2>3, <2>4
  <1> QED
    BY <1>a, <1>1, <1>2, <1>3, <1>4, <1>5, <1>6, <1>7 DEF Kind

\* The two gauges are exact on every path through the handlers, and both are
\* zero after the shutdown, which ~Instance asserts.
THEOREM GaugesAreExact == Spec => []GaugesExact
  <1>1. Init => GaugesExact
    <2> SUFFICES ASSUME Init PROVE GaugesExact
      OBVIOUS
    <2>1. Live = {} /\ Linked = {}
      BY GoneGood DEF Init, Live, Linked
    <2> QED
      BY <2>1, FS_EmptySet DEF Init, GaugesExact, Live, Linked
  <1>2. Objects /\ Objects' /\ GaugesExact /\ [Next]_vars => GaugesExact'
    BY StepKind, GaugesStep
  <1> QED
    BY <1>1, <1>2, AlwaysObjects, PTL DEF Spec

-----------------------------------------------------------------------------
(***************************************************************************)
(* Charges and counters.                                                   *)
(***************************************************************************)

AcceptedBooks == <<"accepted_logins">>
LinkedBooks == <<"accepted_logins", "server_connections_established">>
FailedBooks == <<"accepted_logins", "server_connections_failed">>

\* The books of a Connection that has ended.
ClosedBooks(list, sum) ==
    \/ list = <<>> /\ sum \in {0, DatabaseErrorCost, InitialHangupCost, TimeoutCost}
    \/ list = <<"malformed_logins">> /\ sum \in {MalformedLoginCost, BadUsernameCost}
    \/ list = <<"rejected_logins">> /\ sum = RejectedLoginCost
    \/ list = AcceptedBooks /\ sum \in {AcceptedLoginCost, AcceptedLoginCost + TimeoutCost}
    \/ list = FailedBooks /\ sum = AcceptedLoginCost
    \/ list = LinkedBooks /\ sum \in {AcceptedLoginCost, AcceptedLoginCost + ServerDeadCost}

BooksOK(state, list, sum) ==
    /\ state \in {"INITIAL", "CHECK_CREDENTIALS"} => list = <<>> /\ sum = 0
    /\ state \in {"SERVER_LIST", "CONNECTING"} =>
          list = AcceptedBooks /\ sum = AcceptedLoginCost
    /\ state \in {"SEND_PLAY_SERVER", "READY"} =>
          list = LinkedBooks /\ sum = AcceptedLoginCost
    /\ state = "none" => ClosedBooks(list, sum)

BookTypes ==
    /\ bill \in [Conns -> Int]
    /\ counted \in [Conns -> Seq(Counters)]

BooksInv == BookTypes /\ \A k \in Conns : BooksOK(conn[k].state, counted[k], bill[k])

\* What is appended to the list of counters: one counter, to none or to one.
LEMMA SequenceFacts ==
  ASSUME NEW x \in Counters, NEW y \in Counters
  PROVE  <<x>> \o <<y>> = <<x, y>> /\ Append(<<x>>, y) = <<x, y>>
  <1> DEFINE joined == <<x>> \o <<y>>
             longer == Append(<<x>>, y)
             both == <<x, y>>
  <1>1. both \in Seq(Counters) /\ Len(both) = 2 /\ both[1] = x /\ both[2] = y
    OBVIOUS
  <1>2. joined \in Seq(Counters) /\ Len(joined) = 2 /\ joined[1] = x /\ joined[2] = y
    OBVIOUS
  <1>3. longer \in Seq(Counters) /\ Len(longer) = 2 /\ longer[1] = x /\ longer[2] = y
    OBVIOUS
  <1> HIDE DEF joined, longer, both
  <1>4. \A i \in 1..2 : joined[i] = both[i] /\ longer[i] = both[i]
    BY <1>1, <1>2, <1>3, SMT
  <1>5. joined = both
    BY <1>1, <1>2, <1>4, SeqEqual
  <1>6. longer = both
    BY <1>1, <1>3, <1>4, SeqEqual
  <1> QED
    BY <1>5, <1>6 DEF joined, longer, both

\* BooksInv says the same as CountedAsBilled.
LEMMA BooksMeanCounted ==
  ASSUME Objects
  PROVE  (\A k \in Conns : BooksOK(conn[k].state, counted[k], bill[k]))
            <=> CountedAsBilled
  <1> DEFINE price == AcceptedLoginCost
             accepted == <<"accepted_logins">>
             linked == <<"accepted_logins", "server_connections_established">>
             Books(k) ==
               CASE conn[k].state \in {"INITIAL", "CHECK_CREDENTIALS"} -> {<<<<>>, 0>>}
                 [] Accepted(k) -> {<<IF conn[k].out THEN linked ELSE accepted, price>>}
                 [] OTHER ->
                      ({<<>>} \X {0, DatabaseErrorCost, InitialHangupCost, TimeoutCost})
                      \cup ({<<"malformed_logins">>} \X {MalformedLoginCost, BadUsernameCost})
                      \cup {<<<<"rejected_logins">>, RejectedLoginCost>>}
                      \cup ({accepted} \X {price, price + TimeoutCost})
                      \cup {<<Append(accepted, "server_connections_failed"), price>>}
                      \cup ({linked} \X {price, price + ServerDeadCost})
  <1>1. CountedAsBilled <=> \A k \in Conns : <<counted[k], bill[k]>> \in Books(k)
    BY DEF CountedAsBilled
  <1>2. ASSUME NEW k \in Conns
        PROVE  <<counted[k], bill[k]>> \in Books(k) <=>
                  BooksOK(conn[k].state, counted[k], bill[k])
    <2>1. conn[k].state \in States
          /\ (conn[k].out <=> conn[k].state \in {"SEND_PLAY_SERVER", "READY"})
      BY DEF Objects, GoodConn, ConnOK, ConnRecord
    <2>2. CASE conn[k].state \in {"INITIAL", "CHECK_CREDENTIALS"}
      BY <2>2 DEF BooksOK, Accepted
    <2>3. CASE conn[k].state \in {"SERVER_LIST", "CONNECTING"}
      BY <2>1, <2>3 DEF BooksOK, Accepted, AcceptedBooks
    <2>4. CASE conn[k].state \in {"SEND_PLAY_SERVER", "READY"}
      BY <2>1, <2>4 DEF BooksOK, Accepted, LinkedBooks
    <2>5. CASE conn[k].state = "none"
      <3>1. Append(accepted, "server_connections_failed") = FailedBooks
        <4>1. "accepted_logins" \in Counters /\ "server_connections_failed" \in Counters
          BY DEF Counters
        <4> QED
          BY <4>1, SequenceFacts DEF FailedBooks
      <3> QED
        BY <2>5, <3>1 DEF BooksOK, ClosedBooks, Accepted, AcceptedBooks, LinkedBooks
    <2> QED
      BY <2>1, <2>2, <2>3, <2>4, <2>5 DEF States
  <1> HIDE DEF Books
  <1> QED
    BY <1>1, <1>2

\* Every way to end in a state closes the books of that state.
LEMMA FateCloses ==
  ASSUME NEW state \in States \ {"none"}, NEW list \in Seq(Counters), NEW sum \in Int,
         BooksOK(state, list, sum), NEW fate \in Fates(state)
  PROVE  /\ ClosedBooks(list \o fate[2], sum + fate[1])
         /\ list \o fate[2] \in Seq(Counters) /\ sum + fate[1] \in Int
  <1>a. "accepted_logins" \in Counters /\ "server_connections_failed" \in Counters
        /\ "malformed_logins" \in Counters /\ "rejected_logins" \in Counters
    BY DEF Counters
  <1>b. /\ \A x \in Counters : <<x>> \in Seq(Counters) /\ <<>> \o <<x>> = <<x>>
        /\ <<>> \in Seq(Counters) /\ list \o <<>> = list
    OBVIOUS
  <1>c. <<"accepted_logins">> \o <<"server_connections_failed">> = FailedBooks
    BY <1>a, SequenceFacts DEF FailedBooks
  <1>d. FailedBooks \in Seq(Counters)
    BY <1>a DEF FailedBooks
  <1>1. CASE state = "INITIAL"
    <2>1. list = <<>> /\ sum = 0
      BY <1>1 DEF BooksOK
    <2>2. \/ fate[2] = <<>> /\ fate[1] \in {0, DatabaseErrorCost, InitialHangupCost, TimeoutCost}
          \/ fate[2] = <<"malformed_logins">> /\ fate[1] \in {MalformedLoginCost, BadUsernameCost}
          \/ fate[2] = AcceptedBooks /\ fate[1] = AcceptedLoginCost
      BY <1>1 DEF Fates, AcceptedBooks
    <2>3. list \o fate[2] = fate[2] /\ fate[2] \in Seq(Counters)
      BY <1>a, <1>b, <2>1, <2>2 DEF AcceptedBooks
    <2>4. sum + fate[1] = fate[1] /\ fate[1] \in Int
      BY <2>1, <2>2 DEF DatabaseErrorCost, InitialHangupCost, TimeoutCost,
                        MalformedLoginCost, BadUsernameCost, AcceptedLoginCost
    <2> QED
      BY <2>2, <2>3, <2>4 DEF ClosedBooks
  <1>2. CASE state = "CHECK_CREDENTIALS"
    <2>1. list = <<>> /\ sum = 0
      BY <1>2 DEF BooksOK
    <2>2. \/ fate[2] = <<>> /\ fate[1] = 0
          \/ fate[2] = <<"rejected_logins">> /\ fate[1] = RejectedLoginCost
          \/ fate[2] = AcceptedBooks /\ fate[1] = AcceptedLoginCost
      BY <1>2 DEF Fates, AcceptedBooks
    <2>3. list \o fate[2] = fate[2] /\ fate[2] \in Seq(Counters)
      BY <1>a, <1>b, <2>1, <2>2 DEF AcceptedBooks
    <2>4. sum + fate[1] = fate[1] /\ fate[1] \in Int
      BY <2>1, <2>2 DEF RejectedLoginCost, AcceptedLoginCost
    <2> QED
      BY <2>2, <2>3, <2>4 DEF ClosedBooks
  <1>3. CASE state = "SERVER_LIST"
    <2>1. list = AcceptedBooks /\ sum = AcceptedLoginCost
      BY <1>3 DEF BooksOK
    <2>2. fate[2] = <<>> /\ fate[1] \in {0, TimeoutCost}
      BY <1>3 DEF Fates
    <2>3. sum + 0 = sum /\ sum + TimeoutCost \in Int
      BY DEF TimeoutCost
    <2> QED
      BY <1>b, <2>1, <2>2, <2>3 DEF ClosedBooks
  <1>4. CASE state = "CONNECTING"
    <2>1. list = AcceptedBooks /\ sum = AcceptedLoginCost
      BY <1>4 DEF BooksOK
    <2>2. fate[1] = 0 /\ fate[2] \in {<<>>, <<"server_connections_failed">>}
      BY <1>4 DEF Fates
    <2>3. sum + 0 = sum
      OBVIOUS
    <2>4. list \o fate[2] \in {AcceptedBooks, FailedBooks}
      BY <1>b, <1>c, <2>1, <2>2 DEF AcceptedBooks
    <2> QED
      BY <1>b, <1>d, <2>1, <2>2, <2>3, <2>4 DEF ClosedBooks
  <1>5. CASE state \in {"SEND_PLAY_SERVER", "READY"}
    <2>1. list = LinkedBooks /\ sum = AcceptedLoginCost
      BY <1>5 DEF BooksOK
    <2>2. fate[2] = <<>> /\ fate[1] \in {0, ServerDeadCost}
      BY <1>5 DEF Fates
    <2>3. sum + 0 = sum /\ sum + ServerDeadCost \in Int
      BY DEF ServerDeadCost
    <2> QED
      BY <1>b, <2>1, <2>2, <2>3 DEF ClosedBooks
  <1> QED
    BY <1>1, <1>2, <1>3, <1>4, <1>5 DEF States

\* The books of one Connection are written, those of the others are not.
LEMMA OneBook ==
  ASSUME Objects, BooksInv, NEW k \in Conns, NEW cn, NEW list \in Seq(Counters), NEW sum \in Int,
         conn' = [conn EXCEPT ![k] = cn],
         counted' = [counted EXCEPT ![k] = list], bill' = [bill EXCEPT ![k] = sum],
         BooksOK(cn.state, list, sum)
  PROVE  BooksInv'
  <1>1. BookTypes'
    BY DEF BooksInv, BookTypes
  <1>2. ASSUME NEW c \in Conns PROVE BooksOK(conn'[c].state, counted'[c], bill'[c])
    <2>1. CASE c = k
      <3>1. conn'[c] = cn /\ counted'[c] = list /\ bill'[c] = sum
        BY <2>1 DEF Objects, BooksInv, BookTypes
      <3> QED
        BY <3>1
    <2>2. CASE c # k
      <3>1. conn'[c] = conn[c] /\ counted'[c] = counted[c] /\ bill'[c] = bill[c]
        BY <2>2 DEF Objects, BooksInv, BookTypes
      <3>2. BooksOK(conn[c].state, counted[c], bill[c])
        BY DEF BooksInv
      <3> QED
        BY <3>1, <3>2
    <2> QED
      BY <2>1, <2>2
  <1> QED
    BY <1>1, <1>2 DEF BooksInv, BooksOK

\* If the books are not touched, those of the one Connection that changes
\* must fit its new state.
LEMMA SameBooks ==
  ASSUME Objects, BooksInv, NEW k \in Conns, NEW cn, conn' = [conn EXCEPT ![k] = cn],
         UNCHANGED books, BooksOK(cn.state, counted[k], bill[k])
  PROVE  BooksInv'
  <1>1. counted[k] \in Seq(Counters) /\ bill[k] \in Int
    BY DEF BooksInv, BookTypes
  <1>2. counted' = [counted EXCEPT ![k] = counted[k]] /\ bill' = [bill EXCEPT ![k] = bill[k]]
    BY DEF BooksInv, BookTypes, books
  <1> QED
    BY <1>1, <1>2, OneBook

\* Every kind of step keeps the books in order.
LEMMA BooksStep ==
  ASSUME Objects, Kind, BooksInv
  PROVE  BooksInv'
  <1>a. ASSUME NEW k \in Conns
        PROVE  /\ conn[k].state \in States
               /\ counted[k] \in Seq(Counters) /\ bill[k] \in Int
               /\ BooksOK(conn[k].state, counted[k], bill[k])
    BY DEF Objects, GoodConn, ConnRecord, BooksInv, BookTypes
  <1>b. "accepted_logins" \in Counters /\ "server_connections_established" \in Counters
    BY DEF Counters
  <1>1. ASSUME NEW k \in Conns, NewConnection(k) PROVE BooksInv'
    <2>1. BooksOK(Constructed.state, <<>>, 0)
      BY GoneGood DEF BooksOK
    <2>2. <<>> \in Seq(Counters) /\ 0 \in Int
      OBVIOUS
    <2> QED
      BY <1>1, <2>1, <2>2, OneBook DEF NewConnection
  <1>2. ASSUME NEW k \in Conns, Ends(k) PROVE BooksInv'
    <2>1. PICK fate \in Fates(conn[k].state) : Book(k, fate[1], fate[2])
      BY <1>2 DEF Ends
    <2> DEFINE list == counted[k] \o fate[2]
               sum == bill[k] + fate[1]
    <2>2. conn[k].state \in States \ {"none"}
      BY <1>a, <1>2 DEF Ends
    <2>3. ClosedBooks(list, sum) /\ list \in Seq(Counters) /\ sum \in Int
      BY <1>a, <2>2, FateCloses
    <2>4. counted' = [counted EXCEPT ![k] = list] /\ bill' = [bill EXCEPT ![k] = sum]
      BY <2>1 DEF Book
    <2>5. conn' = [conn EXCEPT ![k] = Gone]
      BY <1>2 DEF Ends, Delete
    <2> HIDE DEF list, sum
    <2>6. BooksOK(Gone.state, list, sum)
      BY <2>3, GoneGood DEF BooksOK
    <2> QED
      BY <2>3, <2>4, <2>5, <2>6, OneBook
  <1>3. ASSUME NEW k \in Conns, Moves(k) PROVE BooksInv'
    <2>1. PICK cn \in GoodConn :
            /\ conn' = [conn EXCEPT ![k] = cn]
            /\ \/ conn[k].state = "INITIAL" /\ cn.state \in {"INITIAL", "CHECK_CREDENTIALS"}
               \/ conn[k].state = "SERVER_LIST" /\ cn.state = "CONNECTING"
               \/ conn[k].state \in {"SEND_PLAY_SERVER", "READY"} /\ cn.state = "READY"
      BY <1>3 DEF Moves
    <2>2. BooksOK(cn.state, counted[k], bill[k])
      BY <1>a, <2>1 DEF BooksOK
    <2> QED
      BY <1>3, <2>1, <2>2, SameBooks DEF Moves
  <1>4. ASSUME NEW k \in Conns, IsAccepted(k) PROVE BooksInv'
    <2>1. PICK cn \in GoodConn :
            /\ conn' = [conn EXCEPT ![k] = cn]
            /\ conn[k].state \in {"INITIAL", "CHECK_CREDENTIALS"}
            /\ cn.state \in {"SERVER_LIST", "CONNECTING"}
      BY <1>4 DEF IsAccepted
    <2>2. counted[k] = <<>> /\ bill[k] = 0
      BY <1>a, <2>1 DEF BooksOK
    <2>3. /\ counted[k] \o <<"accepted_logins">> = AcceptedBooks
          /\ AcceptedBooks \in Seq(Counters)
      BY <1>b, <2>2 DEF AcceptedBooks
    <2>4. bill[k] + AcceptedLoginCost = AcceptedLoginCost /\ AcceptedLoginCost \in Int
      BY <2>2 DEF AcceptedLoginCost
    <2>5. /\ counted' = [counted EXCEPT ![k] = AcceptedBooks]
          /\ bill' = [bill EXCEPT ![k] = AcceptedLoginCost]
      BY <1>4, <2>3, <2>4 DEF IsAccepted, Book
    <2>6. BooksOK(cn.state, AcceptedBooks, AcceptedLoginCost)
      BY <2>1 DEF BooksOK
    <2> QED
      BY <2>1, <2>3, <2>4, <2>5, <2>6, OneBook
  <1>5. ASSUME NEW k \in Conns, IsLinked(k) PROVE BooksInv'
    <2>1. PICK cn \in GoodConn :
            /\ conn' = [conn EXCEPT ![k] = cn]
            /\ conn[k].state = "CONNECTING"
            /\ cn.state \in {"SEND_PLAY_SERVER", "READY"}
      BY <1>5 DEF IsLinked
    <2>2. counted[k] = <<"accepted_logins">> /\ bill[k] = AcceptedLoginCost
      BY <1>a, <2>1 DEF BooksOK, AcceptedBooks
    <2>3. /\ counted[k] \o <<"server_connections_established">> = LinkedBooks
          /\ LinkedBooks \in Seq(Counters)
      BY <1>b, <2>2, SequenceFacts DEF LinkedBooks
    <2>4. bill[k] + 0 = AcceptedLoginCost /\ AcceptedLoginCost \in Int
      BY <2>2 DEF AcceptedLoginCost
    <2>5. /\ counted' = [counted EXCEPT ![k] = LinkedBooks]
          /\ bill' = [bill EXCEPT ![k] = AcceptedLoginCost]
      BY <1>5, <2>3, <2>4 DEF IsLinked, Book
    <2>6. BooksOK(cn.state, LinkedBooks, AcceptedLoginCost)
      BY <2>1 DEF BooksOK
    <2> QED
      BY <2>1, <2>3, <2>4, <2>5, <2>6, OneBook
  <1>6. ASSUME UNCHANGED <<conn, books, gauges, config>> PROVE BooksInv'
    BY <1>6 DEF books, BooksInv, BookTypes
  <1>7. ASSUME OnShutdown PROVE BooksInv'
    <2>1. BookTypes' /\ \A k \in Conns : counted'[k] = counted[k] /\ bill'[k] = bill[k]
      BY <1>7 DEF OnShutdown, books, BooksInv, BookTypes
    <2>2. \A k \in Conns : conn'[k].state = "none"
      BY <1>7, GoneGood DEF OnShutdown
    <2>3. ASSUME NEW k \in Conns PROVE ClosedBooks(counted[k], bill[k])
      BY <1>a DEF BooksOK, ClosedBooks, States
    <2>4. \A k \in Conns : BooksOK(conn'[k].state, counted'[k], bill'[k])
      BY <2>1, <2>2, <2>3 DEF BooksOK
    <2> QED
      BY <2>1, <2>4 DEF BooksInv, BooksOK
  <1> QED
    BY <1>1, <1>2, <1>3, <1>4, <1>5, <1>6, <1>7 DEF Kind

\* Initially nothing is charged or counted, and every step keeps the books.
LEMMA AlwaysBooks == Spec => []BooksInv
  <1>1. Init => BooksInv
    <2> SUFFICES ASSUME Init PROVE BooksInv
      OBVIOUS
    <2>1. \A k \in Conns : conn[k].state = "none" /\ counted[k] = <<>> /\ bill[k] = 0
      BY GoneGood DEF Init
    <2>2. BookTypes
      BY DEF Init, BookTypes
    <2> QED
      BY <2>1, <2>2 DEF BooksInv, BooksOK, ClosedBooks
  <1>2. Objects /\ BooksInv /\ [Next]_vars => BooksInv'
    BY StepKind, BooksStep
  <1> QED
    BY <1>1, <1>2, AlwaysObjects, PTL DEF Spec

\* On every path through the handlers the counters, the bill and the fate of
\* a Connection agree: one outcome for each login, at most one for the connect
\* that follows, and the price that belongs to them.
THEOREM BooksTellTheFate == Spec => []CountedAsBilled
  <1>1. Objects /\ BooksInv => CountedAsBilled
    BY BooksMeanCounted DEF BooksInv
  <1> QED
    BY <1>1, AlwaysObjects, AlwaysBooks, PTL

-----------------------------------------------------------------------------
(***************************************************************************)
(* Type correctness.                                                       *)
(***************************************************************************)

\* What is left of TypeOK when the objects, the books and the gauges are in
\* order.
Flags == server_list \in BOOLEAN /\ database \in BOOLEAN /\ running \in BOOLEAN

\* No handler of a Connection and no step of a job changes running.
LEMMA FlagsStep ==
  ASSUME Flags, [Next]_vars
  PROVE  Flags'
  <1>1. ASSUME NEW k \in Conns, ConnectionStep(k) PROVE UNCHANGED <<config, running>>
    BY <1>1 DEF ConnectionStep, NewConnection, OnIncomingDead, ReceiveLoginPacketsFail,
       ReceiveLoginPacketsPartial, ReceiveLoginPacketsUnchecked, ReceiveLoginPacketsChecked,
       ReceivePlayServer, OnIncomingWhileConnecting, OnSocketConnectSuccess,
       OnSocketConnectError, OnOutgoingDead, ReceiveServerList, RelayBlocks, RelayEnds,
       OnTimeout
  <1>2. ASSUME NEW j \in Jobs, JobStep(j) PROVE UNCHANGED <<config, running>>
    BY <1>2 DEF JobStep, JobStart, JobFinish, JobDoneCanceled, JobDoneRejected, JobDoneAccepted
  <1>3. ASSUME OnShutdown PROVE UNCHANGED config /\ running' = FALSE
    BY <1>3 DEF OnShutdown
  <1> QED
    BY <1>1, <1>2, <1>3 DEF Next, vars, Flags, config

\* No sum of charges exceeds MaxBill.
LEMMA BillBound ==
  ASSUME Objects, BooksInv, NEW k \in Conns
  PROVE  bill[k] \in 0..MaxBill
  <1>1. conn[k].state \in States /\ BooksOK(conn[k].state, counted[k], bill[k])
    BY DEF Objects, GoodConn, ConnRecord, BooksInv
  <1>2. bill[k] \in {0, AcceptedLoginCost, DatabaseErrorCost, InitialHangupCost, TimeoutCost,
                     MalformedLoginCost, BadUsernameCost, RejectedLoginCost,
                     AcceptedLoginCost + TimeoutCost, AcceptedLoginCost + ServerDeadCost}
    BY <1>1 DEF BooksOK, ClosedBooks, States
  <1> QED
    BY <1>2 DEF MaxBill, AcceptedLoginCost, DatabaseErrorCost, InitialHangupCost, TimeoutCost,
                MalformedLoginCost, BadUsernameCost, RejectedLoginCost, ServerDeadCost

\* Every variable of Connection keeps its type: the gauges never go below
\* zero or above the number of objects, and no client is charged more than
\* one rejection and one accepted login for one connection.
THEOREM TypeCorrect == Spec => []TypeOK
  <1>1. Init => Flags
    BY DEF Init, Flags
  <1>2. Objects /\ BooksInv /\ GaugesExact /\ Flags => TypeOK
    <2> SUFFICES ASSUME Objects, BooksInv, GaugesExact, Flags PROVE TypeOK
      OBVIOUS
    <2>1. conn \in [Conns -> ConnRecord] /\ job \in [Jobs -> JobRecord]
      BY DEF Objects, GoodConn
    <2>2. bill \in [Conns -> 0..MaxBill] /\ counted \in [Conns -> Seq(Counters)]
      BY BillBound DEF BooksInv, BookTypes
    <2>3. /\ client_connections \in 0..Cardinality(Conns)
          /\ server_connections \in 0..Cardinality(Conns)
      BY GaugesFinite DEF GaugesExact, Live, Linked
    <2> QED
      BY <2>1, <2>2, <2>3 DEF TypeOK, Flags
  <1>3. Flags /\ [Next]_vars => Flags'
    BY FlagsStep
  <1> QED
    BY <1>1, <1>2, <1>3, AlwaysObjects, AlwaysBooks, GaugesAreExact, PTL DEF Spec

-----------------------------------------------------------------------------
(***************************************************************************)
(* Connection implements LoginGate.                                        *)
(***************************************************************************)

PhaseOf(state) ==
    IF state = "none" THEN "none" ELSE IF state \in AcceptedStates THEN "accepted" ELSE "login"

GatePhase == [k \in Conns |-> Phase(k)]
GateOffer == [k \in Conns |-> conn[k].credentials]
GateLinked == [k \in Conns |-> conn[k].out]

\* What the gate sees of a Connection.
LEMMA SeenByGate ==
  ASSUME NEW k \in Conns
  PROVE  /\ GatePhase[k] = PhaseOf(conn[k].state)
         /\ GateOffer[k] = conn[k].credentials
         /\ GateLinked[k] = conn[k].out
  BY DEF GatePhase, GateOffer, GateLinked, Phase, PhaseOf, Accepted, AcceptedStates

\* If only k changes, the gate sees only k change.
LEMMA OneGate ==
  ASSUME Objects, NEW k \in Conns, NEW cn, conn' = [conn EXCEPT ![k] = cn]
  PROVE  /\ GatePhase' = [GatePhase EXCEPT ![k] = PhaseOf(cn.state)]
         /\ GateOffer' = [GateOffer EXCEPT ![k] = cn.credentials]
         /\ GateLinked' = [GateLinked EXCEPT ![k] = cn.out]
  <1>1. conn'[k] = cn /\ \A c \in Conns \ {k} : conn'[c] = conn[c]
    BY DEF Objects
  <1>2. \A c \in Conns : Phase(c)' = PhaseOf(conn'[c].state)
    BY DEF Phase, PhaseOf, Accepted, AcceptedStates
  <1>3. \A c \in Conns : Phase(c) = PhaseOf(conn[c].state)
    BY DEF Phase, PhaseOf, Accepted, AcceptedStates
  <1>4. \A c \in Conns : Phase(c)' = IF c = k THEN PhaseOf(cn.state) ELSE Phase(c)
    BY <1>1, <1>2, <1>3
  <1>5. GatePhase' = [GatePhase EXCEPT ![k] = PhaseOf(cn.state)]
    BY <1>4 DEF GatePhase
  <1>6. \A c \in Conns :
          /\ conn'[c].credentials = IF c = k THEN cn.credentials ELSE conn[c].credentials
          /\ conn'[c].out = IF c = k THEN cn.out ELSE conn[c].out
    BY <1>1
  <1>7. GateOffer' = [GateOffer EXCEPT ![k] = cn.credentials]
    BY <1>6, Zenon DEF GateOffer
  <1>8. GateLinked' = [GateLinked EXCEPT ![k] = cn.out]
    BY <1>6, Zenon DEF GateLinked
  <1> QED
    BY <1>5, <1>7, <1>8

\* The prices are the same on both sides.
LEMMA GatePrices ==
  /\ Gate!LoginDestroyCosts = LoginDestroyCosts
  /\ Gate!AcceptedDestroyCosts = AcceptedDestroyCosts
  /\ Gate!AcceptedLoginCost = AcceptedLoginCost
  BY DEF Gate!LoginDestroyCosts, LoginDestroyCosts, Gate!AcceptedDestroyCosts,
         AcceptedDestroyCosts, Gate!AcceptedLoginCost, AcceptedLoginCost,
         Gate!MalformedLoginCost, MalformedLoginCost, Gate!BadUsernameCost, BadUsernameCost,
         Gate!DatabaseErrorCost, DatabaseErrorCost, Gate!RejectedLoginCost, RejectedLoginCost,
         Gate!InitialHangupCost, InitialHangupCost, Gate!TimeoutCost, TimeoutCost,
         Gate!ServerDeadCost, ServerDeadCost

\* Every kind of step is a step of LoginGate, or one it does not see.
LEMMA GateStep ==
  ASSUME Objects, Objects', BooksInv, Kind
  PROVE  [Gate!Next]_(Gate!gateVars)
  <1>a. ASSUME NEW k \in Conns
        PROVE  /\ conn[k] \in GoodConn /\ conn[k].state \in States
               /\ GatePhase[k] = PhaseOf(conn[k].state)
               /\ GateOffer[k] = conn[k].credentials
               /\ GateLinked[k] = conn[k].out
               /\ conn[k].out <=> conn[k].state \in {"SEND_PLAY_SERVER", "READY"}
    BY SeenByGate DEF Objects, GoodConn, ConnOK, ConnRecord
  <1>b. ASSUME NEW k \in Conns
        PROVE  /\ GatePhase = [GatePhase EXCEPT ![k] = GatePhase[k]]
               /\ GateOffer = [GateOffer EXCEPT ![k] = GateOffer[k]]
               /\ GateLinked = [GateLinked EXCEPT ![k] = GateLinked[k]]
    BY DEF GatePhase, GateOffer, GateLinked
  <1>1. ASSUME NEW k \in Conns, NewConnection(k) PROVE Gate!Enter(k)
    <2>1. /\ GatePhase' = [GatePhase EXCEPT ![k] = PhaseOf(Constructed.state)]
          /\ GateOffer' = [GateOffer EXCEPT ![k] = Constructed.credentials]
          /\ GateLinked' = [GateLinked EXCEPT ![k] = Constructed.out]
      BY <1>1, OneGate DEF NewConnection
    <2>2. conn[k] = Gone
      BY <1>1, <1>a DEF NewConnection, GoodConn, ConnOK
    <2>3. /\ GatePhase[k] = "none" /\ GateOffer[k] = "nothing" /\ GateLinked[k] = FALSE
      BY <1>a, <2>2, GoneGood DEF PhaseOf
    <2>4. PhaseOf(Constructed.state) = "login"
      BY GoneGood DEF PhaseOf, AcceptedStates
    <2>5. /\ GatePhase' = [GatePhase EXCEPT ![k] = "login"]
          /\ GateOffer' = GateOffer /\ GateLinked' = GateLinked
      BY <1>b, <2>1, <2>3, <2>4, GoneGood
    <2> QED
      BY <1>1, <2>3, <2>5 DEF NewConnection, config, Gate!Enter, GatePhase, GateOffer, GateLinked
  <1>2. ASSUME NEW k \in Conns, Ends(k)
        PROVE  \E cost \in LoginDestroyCosts \cup AcceptedDestroyCosts : Gate!Leave(k, cost)
    <2>1. /\ GatePhase' = [GatePhase EXCEPT ![k] = "none"]
          /\ GateOffer' = [GateOffer EXCEPT ![k] = "nothing"]
          /\ GateLinked' = [GateLinked EXCEPT ![k] = FALSE]
      <3>1. /\ GatePhase' = [GatePhase EXCEPT ![k] = PhaseOf(Gone.state)]
            /\ GateOffer' = [GateOffer EXCEPT ![k] = Gone.credentials]
            /\ GateLinked' = [GateLinked EXCEPT ![k] = Gone.out]
        BY <1>2, OneGate DEF Ends, Delete
      <3>2. PhaseOf(Gone.state) = "none"
        BY GoneGood DEF PhaseOf
      <3> QED
        BY <3>1, <3>2, GoneGood
    <2>2. PICK fate \in Fates(conn[k].state) : Book(k, fate[1], fate[2])
      BY <1>2 DEF Ends
    <2>3. \/ GatePhase[k] = "login" /\ fate[1] \in LoginDestroyCosts
          \/ GatePhase[k] = "accepted" /\ fate[1] \in AcceptedDestroyCosts
      <3>1. conn[k].state \in {"INITIAL", "CHECK_CREDENTIALS"} => fate[1] \in LoginDestroyCosts
        BY DEF Fates, LoginDestroyCosts
      <3>2. conn[k].state \in AcceptedStates => fate[1] \in AcceptedDestroyCosts
        BY DEF Fates, AcceptedDestroyCosts, AcceptedStates
      <3>3. conn[k].state \in {"INITIAL", "CHECK_CREDENTIALS"} \cup AcceptedStates
        BY <1>2, <1>a DEF Ends, States, AcceptedStates
      <3>4. GatePhase[k] = IF conn[k].state \in AcceptedStates THEN "accepted" ELSE "login"
        BY <1>2, <1>a DEF Ends, PhaseOf
      <3> QED
        BY <3>1, <3>2, <3>3, <3>4
    <2>4. bill' = [bill EXCEPT ![k] = @ + fate[1]] /\ database' = database
      BY <1>2, <2>2 DEF Book, Ends, config
    <2>5. Gate!Leave(k, fate[1])
      BY <2>1, <2>3, <2>4, GatePrices DEF Gate!Leave, GatePhase, GateOffer, GateLinked
    <2> QED
      BY <2>3, <2>5
  <1>3. ASSUME NEW k \in Conns, Moves(k)
        PROVE  \/ \E credentials \in {"good", "bad"} : Gate!Submit(k, credentials)
               \/ UNCHANGED Gate!gateVars
    <2>1. PICK cn \in GoodConn :
            /\ conn' = [conn EXCEPT ![k] = cn]
            /\ \/ /\ conn[k].state = "INITIAL" /\ cn.state = "INITIAL"
                  /\ cn.credentials = conn[k].credentials
               \/ /\ conn[k].state = "INITIAL" /\ cn.state = "CHECK_CREDENTIALS"
                  /\ cn.credentials \in {"good", "bad"}
               \/ /\ conn[k].state = "SERVER_LIST" /\ cn.state = "CONNECTING"
                  /\ cn.credentials = conn[k].credentials
               \/ /\ conn[k].state \in {"SEND_PLAY_SERVER", "READY"} /\ cn.state = "READY"
                  /\ cn.credentials = conn[k].credentials
      BY <1>3 DEF Moves
    <2>2. /\ GatePhase' = [GatePhase EXCEPT ![k] = PhaseOf(cn.state)]
          /\ GateOffer' = [GateOffer EXCEPT ![k] = cn.credentials]
          /\ GateLinked' = [GateLinked EXCEPT ![k] = cn.out]
      BY <2>1, OneGate
    <2>3. PhaseOf(cn.state) = GatePhase[k]
      BY <1>a, <2>1 DEF PhaseOf, AcceptedStates
    <2>4. cn.out = GateLinked[k]
      <3>1. cn.out \in BOOLEAN /\ conn[k].out \in BOOLEAN
        BY <1>a DEF GoodConn, ConnRecord
      <3>2. cn.out <=> conn[k].out
        BY <1>a, <2>1 DEF GoodConn, ConnOK
      <3> QED
        BY <1>a, <3>1, <3>2
    <2>5. GatePhase' = GatePhase /\ GateLinked' = GateLinked
      BY <1>b, <2>2, <2>3, <2>4
    <2>6. bill' = bill /\ database' = database
      BY <1>3 DEF Moves, books, config
    <2>7. CASE cn.credentials = conn[k].credentials
      <3>1. GateOffer' = GateOffer
        BY <1>a, <1>b, <2>2, <2>7
      <3> QED
        BY <2>5, <2>6, <3>1 DEF Gate!gateVars, GatePhase, GateOffer, GateLinked
    <2>8. CASE /\ conn[k].state = "INITIAL"
               /\ cn.credentials \in {"good", "bad"}
      <3>1. GatePhase[k] = "login" /\ GateOffer[k] = "nothing"
        BY <1>a, <2>8 DEF PhaseOf, AcceptedStates, GoodConn, ConnOK
      <3>2. Gate!Submit(k, cn.credentials)
        BY <2>2, <2>5, <2>6, <3>1 DEF Gate!Submit, GatePhase, GateOffer, GateLinked
      <3> QED
        BY <2>8, <3>2
    <2> QED
      BY <2>1, <2>7, <2>8
  <1>4. ASSUME NEW k \in Conns, IsAccepted(k)
        PROVE  \E credentials \in {"good", "bad"} : Gate!Accept(k, credentials)
    <2>1. PICK cn \in GoodConn :
            /\ conn' = [conn EXCEPT ![k] = cn]
            /\ conn[k].state \in {"INITIAL", "CHECK_CREDENTIALS"}
            /\ cn.state \in {"SERVER_LIST", "CONNECTING"}
            /\ cn.credentials \in {"good", "bad"}
            /\ conn[k].credentials \in {"nothing", cn.credentials}
            /\ database => cn.credentials = "good"
      BY <1>4 DEF IsAccepted
    <2>2. /\ GatePhase' = [GatePhase EXCEPT ![k] = PhaseOf(cn.state)]
          /\ GateOffer' = [GateOffer EXCEPT ![k] = cn.credentials]
          /\ GateLinked' = [GateLinked EXCEPT ![k] = cn.out]
      BY <2>1, OneGate
    <2>3. GatePhase[k] = "login" /\ PhaseOf(cn.state) = "accepted"
      BY <1>a, <2>1 DEF PhaseOf, AcceptedStates
    <2>4. cn.out = GateLinked[k]
      <3>1. cn.out \in BOOLEAN /\ conn[k].out \in BOOLEAN
        BY <1>a DEF GoodConn, ConnRecord
      <3>2. cn.out <=> conn[k].out
        BY <1>a, <2>1 DEF GoodConn, ConnOK
      <3> QED
        BY <1>a, <3>1, <3>2
    <2>5. GateLinked' = GateLinked
      BY <1>b, <2>2, <2>4
    <2>6. /\ bill' = [bill EXCEPT ![k] = @ + AcceptedLoginCost]
          /\ database' = database
      BY <1>4 DEF IsAccepted, Book, config
    <2>7. GateOffer[k] \in {"nothing", cn.credentials}
      BY <1>a, <2>1
    <2>8. GatePhase' = [GatePhase EXCEPT ![k] = "accepted"]
      BY <2>2, <2>3
    <2>9. Gate!Accept(k, cn.credentials)
      BY <2>1, <2>2, <2>3, <2>5, <2>6, <2>7, <2>8, GatePrices
         DEF Gate!Accept, GatePhase, GateOffer, GateLinked
    <2> QED
      BY <2>1, <2>9
  <1>5. ASSUME NEW k \in Conns, IsLinked(k) PROVE Gate!Link(k)
    <2>1. PICK cn \in GoodConn :
            /\ conn' = [conn EXCEPT ![k] = cn]
            /\ conn[k].state = "CONNECTING"
            /\ cn.state \in {"SEND_PLAY_SERVER", "READY"}
            /\ cn.credentials = conn[k].credentials
      BY <1>5 DEF IsLinked
    <2>2. /\ GatePhase' = [GatePhase EXCEPT ![k] = PhaseOf(cn.state)]
          /\ GateOffer' = [GateOffer EXCEPT ![k] = cn.credentials]
          /\ GateLinked' = [GateLinked EXCEPT ![k] = cn.out]
      BY <2>1, OneGate
    <2>3. GatePhase[k] = "accepted" /\ PhaseOf(cn.state) = "accepted"
      BY <1>a, <2>1 DEF PhaseOf, AcceptedStates
    <2>4. cn.out = TRUE /\ ~GateLinked[k]
      BY <1>a, <2>1 DEF GoodConn, ConnOK, ConnRecord
    <2>5. /\ GatePhase' = GatePhase /\ GateOffer' = GateOffer
          /\ GateLinked' = [GateLinked EXCEPT ![k] = TRUE]
      BY <1>a, <1>b, <2>1, <2>2, <2>3, <2>4
    <2>6. bill[k] + 0 = bill[k] /\ bill = [bill EXCEPT ![k] = bill[k]]
      BY DEF BooksInv, BookTypes
    <2>7. bill' = bill /\ database' = database
      BY <1>5, <2>6 DEF IsLinked, Book, config
    <2> QED
      BY <2>3, <2>4, <2>5, <2>7 DEF Gate!Link, GatePhase, GateOffer, GateLinked
  <1>6. ASSUME UNCHANGED <<conn, books, gauges, config>> PROVE UNCHANGED Gate!gateVars
    BY <1>6 DEF books, config, Gate!gateVars, Phase, Accepted
  <1>7. ASSUME OnShutdown PROVE Gate!LeaveAll
    <2>1. \A k \in Conns : conn'[k] = Gone
      BY <1>7 DEF OnShutdown
    <2>2. \A k \in Conns : Phase(k)' = "none"
      BY <2>1, GoneGood DEF Phase, Accepted
    <2>3. \A k \in Conns : conn'[k].credentials = "nothing" /\ conn'[k].out = FALSE
      BY <2>1, GoneGood
    <2>4. bill' = bill /\ database' = database
      BY <1>7 DEF OnShutdown, books, config
    <2>5. GatePhase' = [k \in Conns |-> "none"]
      BY <2>2 DEF GatePhase
    <2>6. GateOffer' = [k \in Conns |-> "nothing"]
      BY <2>3 DEF GateOffer
    <2>7. GateLinked' = [k \in Conns |-> FALSE]
      BY <2>3 DEF GateLinked
    <2> QED
      BY <2>4, <2>5, <2>6, <2>7 DEF Gate!LeaveAll, GatePhase, GateOffer, GateLinked
  <1> QED
    BY <1>1, <1>2, <1>3, <1>4, <1>5, <1>6, <1>7, GatePrices DEF Kind, Gate!Next

\* Connection implements LoginGate: whatever order hangups, timeouts, verdicts
\* and the shutdown come in, a client is linked to a game server only with
\* credentials it sent itself on this connection and that were found good
\* (if they are checked at all), and it is charged what LoginGate says.
THEOREM GateRefined == Spec => GateImplemented
  <1>1. Init => Gate!Init
    <2> SUFFICES ASSUME Init PROVE Gate!Init
      OBVIOUS
    <2>1. \A k \in Conns : conn[k] = Gone
      BY DEF Init
    <2>2. \A k \in Conns : Phase(k) = "none"
      BY <2>1, GoneGood DEF Phase, Accepted
    <2>3. \A k \in Conns : conn[k].credentials = "nothing" /\ conn[k].out = FALSE
      BY <2>1, GoneGood
    <2>4. GatePhase = [k \in Conns |-> "none"]
      BY <2>2 DEF GatePhase
    <2>5. GateOffer = [k \in Conns |-> "nothing"]
      BY <2>3 DEF GateOffer
    <2>6. GateLinked = [k \in Conns |-> FALSE]
      BY <2>3 DEF GateLinked
    <2> QED
      BY <2>4, <2>5, <2>6 DEF Init, Gate!Init, GatePhase, GateOffer, GateLinked
  <1>2. Objects /\ Objects' /\ BooksInv /\ [Next]_vars => [Gate!Next]_(Gate!gateVars)
    BY StepKind, GateStep
  <1> QED
    BY <1>1, <1>2, AlwaysObjects, AlwaysBooks, PTL DEF Spec, GateImplemented, Gate!Spec
=============================================================================

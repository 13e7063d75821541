----------------------------- MODULE RelayProofs -----------------------------
(***************************************************************************)
(* Proofs about Relay, for any number of sessions and pipes and any sizes, *)
(* and that Relay implements Channel.                                      *)
(***************************************************************************)
EXTENDS Relay, SequenceTheorems, TLAPS

-----------------------------------------------------------------------------
(***************************************************************************)
(* The inductive invariant.  NoCrossTalk says where the data that has come *)
(* out belongs; it is inductive only together with where the data in the   *)
(* pipe belongs, and with who may use which pipe.                          *)
(***************************************************************************)

Unit == Links \X Nat

\* The units of l that follow the n-th one.
InOrder(l, n, units) == \A i \in 1..Len(units) : units[i] = <<l, n + i>>

\* What l has received is what it has delivered and then "data", in order.
Carries(l, lk, data) ==
    /\ lk.size = Len(data)
    /\ Len(lk.delivered) + lk.size = lk.received
    /\ lk.received <= lk.sent
    /\ InOrder(l, 0, lk.delivered)
    /\ InOrder(l, Len(lk.delivered), data)

\* A link of an open session, whose Splice holds data.
OpenOK(l, lk, data) ==
    /\ ~lk.fin
    /\ lk.write <=> lk.size > 0
    /\ lk.size > 0 => ~lk.read /\ lk.pipe # NoPipe
    /\ Carries(l, lk, data)

\* A link after the end of its session: nothing is left of it, or only what
\* was delivered completely before its end was reported.
ShutOK(l, lk) ==
    /\ lk.pipe = NoPipe /\ lk.size = 0
    /\ ~lk.fin => lk = Blank
    /\ lk.fin => Carries(l, lk, <<>>) /\ lk.received = lk.sent

Holds(l) == IF link[l].pipe = NoPipe THEN <<>> ELSE content[link[l].pipe]

LinkOK(l) ==
    /\ session[l[1]] = "new" => link[l] = Blank
    /\ session[l[1]] = "open" => OpenOK(l, link[l], Holds(l))
    /\ session[l[1]] = "closed" => ShutOK(l, link[l])

Unused(p) == \A l \in Links : link[l].pipe # p

PipesInv ==
    /\ \A l, m \in Links : link[l].pipe = link[m].pipe => l = m \/ link[l].pipe = NoPipe
    /\ \A p \in idle : Unused(p)
    /\ \A p \in Pipes : Unused(p) => content[p] = <<>>

RelayInv == TypeOK /\ PipesInv /\ \A l \in Links : LinkOK(l)
-----------------------------------------------------------------------------
(***************************************************************************)
(* The operators.                                                          *)
(***************************************************************************)

\* A link without a session.
LEMMA BlankFacts ==
  /\ Blank \in LinkRecord
  /\ Blank.read = FALSE /\ Blank.write = FALSE /\ Blank.eof = FALSE /\ Blank.fin = FALSE
  /\ Blank.pipe = NoPipe /\ Blank.size = 0 /\ Blank.sent = 0 /\ Blank.received = 0
  /\ Blank.delivered = <<>> /\ Blank.unread = 0
  /\ \A l : Carries(l, Blank, <<>>)
  <1>1. /\ Blank.read = FALSE /\ Blank.write = FALSE /\ Blank.eof = FALSE /\ Blank.fin = FALSE
        /\ Blank.pipe = NoPipe /\ Blank.size = 0 /\ Blank.sent = 0 /\ Blank.received = 0
        /\ Blank.delivered = <<>> /\ Blank.unread = 0
    BY DEF Blank
  <1>2. 0 \in 0..PipeSize /\ 0 \in 0..Window /\ <<>> \in Seq(Links \X Nat)
    BY SizeAssumption, SMT
  <1>3. Blank \in LinkRecord
    BY <1>2 DEF Blank, LinkRecord
  <1>4. \A l : Carries(l, Blank, <<>>)
    BY <1>1 DEF Carries, InOrder
  <1> QED
    BY <1>1, <1>3, <1>4

\* splice() moves at most what is in the pipe and what the peer has room for,
\* and something if both are positive.
LEMMA SendSizesFacts ==
  ASSUME NEW lk \in LinkRecord, lk.size > 0, NEW m \in SendSizes(lk)
  PROVE  /\ m \in 0..lk.size
         /\ lk.unread + m \in 0..Window
  <1>1. lk.size \in Nat /\ lk.unread \in 0..Window /\ Window \in Nat
    BY SizeAssumption, SMT DEF LinkRecord
  <1> DEFINE size == lk.size
             unread == lk.unread
             room == Smaller(size, Window - unread)
  <1>2. m \in IF room = 0 THEN {0} ELSE 1..room
    BY DEF SendSizes
  <1>3. size \in Nat /\ unread \in 0..Window /\ size > 0
    BY <1>1
  <1> HIDE DEF size, unread
  <1>4. room \in Nat /\ room <= size /\ room <= Window - unread
    BY <1>1, <1>3, SMT DEF Smaller
  <1> HIDE DEF room
  <1>5. m \in 0..size /\ unread + m \in 0..Window
    BY <1>1, <1>2, <1>3, <1>4, SMT
  <1> QED
    BY <1>5 DEF size, unread

\* A prefix goes from the pipe to the socket: what is delivered and what is
\* left are still the units of l in order.
LEMMA PrefixMoves ==
  ASSUME NEW l \in Links, NEW done \in Seq(Unit), NEW data \in Seq(Unit),
         NEW m \in 0..Len(data),
         InOrder(l, 0, done), InOrder(l, Len(done), data)
  PROVE  LET all == done \o SubSeq(data, 1, m)
             rest == SubSeq(data, m + 1, Len(data))
         IN
         /\ all \in Seq(Unit) /\ Len(all) = Len(done) + m /\ InOrder(l, 0, all)
         /\ rest \in Seq(Unit) /\ Len(rest) = Len(data) - m /\ InOrder(l, Len(all), rest)
  <1>1. Len(done) \in Nat /\ Len(data) \in Nat /\ m \in Nat /\ m <= Len(data)
    BY LenProperties, SMT
  <1> DEFINE moved == SubSeq(data, 1, m)
             all == done \o SubSeq(data, 1, m)
             rest == SubSeq(data, m + 1, Len(data))
  <1>2. \A i \in 1..m : data[i] \in Unit
    BY <1>1, ElementOfSeq, SMT
  <1>3. /\ moved \in Seq(Unit) /\ Len(moved) = m
        /\ \A i \in 1..m : moved[i] = data[i]
    BY <1>1, <1>2, SMT
  <1>4. /\ rest \in Seq(Unit) /\ Len(rest) = Len(data) - m
        /\ \A i \in 1..Len(rest) : rest[i] = data[m + i]
    BY <1>1, SMT
  <1> HIDE DEF moved, rest
  <1>5. /\ all \in Seq(Unit) /\ Len(all) = Len(done) + m
        /\ \A i \in 1..Len(all) :
             all[i] = IF i <= Len(done) THEN done[i] ELSE moved[i - Len(done)]
    BY <1>1, <1>3, ConcatProperties DEF moved
  <1> HIDE DEF all
  <1>6. ASSUME NEW i \in 1..Len(all) PROVE all[i] = <<l, 0 + i>>
    <2>1. CASE i <= Len(done)
      <3>1. i \in 1..Len(done) /\ all[i] = done[i]
        BY <1>1, <1>5, <2>1, SMT
      <3>2. 0 + i = i /\ i \in Int
        BY SMT
      <3> QED
        BY <3>1, <3>2 DEF InOrder
    <2>2. CASE ~(i <= Len(done))
      <3>1. i - Len(done) \in 1..m /\ i - Len(done) \in 1..Len(data)
        BY <1>1, <1>5, <2>2, SMT
      <3>2. all[i] = data[i - Len(done)]
        BY <1>3, <1>5, <2>2, <3>1
      <3>3. Len(done) + (i - Len(done)) = 0 + i
        BY <1>1, SMT
      <3> QED
        BY <3>1, <3>2, <3>3 DEF InOrder
    <2> QED
      BY <2>1, <2>2
  <1>7. ASSUME NEW i \in 1..Len(rest) PROVE rest[i] = <<l, Len(all) + i>>
    <2>1. m + i \in 1..Len(data) /\ Len(done) + (m + i) = Len(all) + i
      <3>1. Len(rest) = Len(data) - m /\ Len(all) = Len(done) + m
        BY <1>4, <1>5
      <3> QED
        BY <1>1, <3>1, SMT
    <2> QED
      BY <1>4, <2>1 DEF InOrder
  <1> QED
    BY <1>4, <1>5, <1>6, <1>7 DEF InOrder, all, rest

\* DoSpliceSend on one link: it gives back its pipe exactly when that is empty,
\* and else waits for WRITE and does not read.
LEMMA SpliceSendFacts ==
  ASSUME NEW l \in Links, NEW lk \in LinkRecord, NEW data \in Seq(Unit),
         Carries(l, lk, data), lk.size > 0, ~lk.fin, lk.pipe # NoPipe,
         NEW m \in 0..lk.size, lk.unread + m \in 0..Window,
         NEW new, new = SpliceSend(lk, m, data),
         NEW rest, rest = SubSeq(data, m + 1, Len(data))
  PROVE  /\ new \in LinkRecord
         /\ new.sent = lk.sent /\ new.fin = lk.fin
         /\ Len(new.delivered) = Len(lk.delivered) + m
         /\ rest \in Seq(Unit)
         /\ m = lk.size => new.pipe = NoPipe /\ rest = <<>>
         /\ m # lk.size => new.pipe = lk.pipe
         /\ OpenOK(l, new, rest)
  <1> DEFINE all == lk.delivered \o SubSeq(data, 1, m)
             left == lk.size - m
             unread == lk.unread + m
             moved == [lk EXCEPT !.size = left, !.delivered = all, !.unread = unread]
  <1>a. /\ lk.delivered \in Seq(Unit) /\ lk.size \in 0..PipeSize
        /\ lk.received \in Nat /\ lk.sent \in Nat /\ PipeSize \in Nat
    BY SizeAssumption DEF LinkRecord, Unit
  <1>b. m \in 0..Len(data) /\ lk.size = Len(data) /\ m \in Nat
    BY <1>a, SMT DEF Carries
  <1>1. /\ all \in Seq(Unit) /\ Len(all) = Len(lk.delivered) + m /\ InOrder(l, 0, all)
        /\ rest \in Seq(Unit) /\ Len(rest) = Len(data) - m /\ InOrder(l, Len(all), rest)
    <2>1. InOrder(l, 0, lk.delivered) /\ InOrder(l, Len(lk.delivered), data)
      BY DEF Carries
    <2> QED
      <3> DEFINE done == lk.delivered
      <3>1. /\ done \in Seq(Unit) /\ InOrder(l, 0, done) /\ InOrder(l, Len(done), data)
            /\ all = done \o SubSeq(data, 1, m)
        BY <1>a, <2>1
      <3> HIDE DEF done, all
      <3>2. LET x == done \o SubSeq(data, 1, m)
                y == SubSeq(data, m + 1, Len(data))
            IN  /\ x \in Seq(Unit) /\ Len(x) = Len(done) + m /\ InOrder(l, 0, x)
                /\ y \in Seq(Unit) /\ Len(y) = Len(data) - m /\ InOrder(l, Len(x), y)
        <4>1. m \in 0..Len(data) /\ l \in Links /\ data \in Seq(Unit)
          BY <1>b
        <4> QED
          BY ONLY <3>1, <4>1, PrefixMoves
      <3> QED
        BY <3>1, <3>2 DEF done
  <1>2. left \in 0..PipeSize /\ left = Len(rest) /\ (left = 0 <=> m = lk.size)
    BY <1>a, <1>b, <1>1, SMT
  <1>c. unread \in 0..Window
    OBVIOUS
  <1>3. new = IF left = 0 THEN Flushed(moved) ELSE Blocked(moved)
    BY DEF SpliceSend, LinkRecord
  <1> HIDE DEF all, left, unread
  <1>4. moved \in LinkRecord
    BY <1>1, <1>2, <1>c, Zenon DEF LinkRecord, Unit
  <1>5. /\ moved.size = left /\ moved.delivered = all /\ moved.pipe = lk.pipe
        /\ moved.sent = lk.sent /\ moved.received = lk.received /\ moved.fin = lk.fin
    BY Zenon DEF LinkRecord
  <1> HIDE DEF moved
  <1>6. /\ Flushed(moved) \in LinkRecord /\ Blocked(moved) \in LinkRecord
    BY <1>4 DEF Flushed, Blocked, LinkRecord
  <1>7. /\ Flushed(moved).pipe = NoPipe /\ Flushed(moved).write = FALSE
        /\ Blocked(moved).pipe = moved.pipe /\ Blocked(moved).write = TRUE
        /\ Blocked(moved).read = FALSE
    BY <1>4 DEF Flushed, Blocked, LinkRecord
  <1>8. \A x \in {Flushed(moved), Blocked(moved)} :
            /\ x.size = left /\ x.delivered = all /\ x.sent = lk.sent
            /\ x.received = lk.received /\ x.fin = lk.fin
    BY <1>4, <1>5 DEF Flushed, Blocked, LinkRecord
  <1>9. /\ new \in LinkRecord
        /\ new.size = left /\ new.delivered = all /\ new.sent = lk.sent
        /\ new.received = lk.received /\ new.fin = lk.fin
    BY <1>3, <1>6, <1>8
  <1>10. left # 0 => left > 0
    BY <1>2, <1>a, SMT
  <1>11. Carries(l, new, rest)
    <2>1. Len(all) + left = lk.received
      <3>1. Len(lk.delivered) \in Nat /\ Len(lk.delivered) + lk.size = lk.received
        BY <1>a, LenProperties DEF Carries
      <3> QED
        BY <1>a, <1>b, <1>1, <1>2, <3>1, SMT
    <2> QED
      BY <1>1, <1>2, <1>9, <2>1 DEF Carries
  <1>12. CASE left = 0
    <2>1. new = Flushed(moved)
      BY <1>3, <1>12
    <2>2. rest = <<>>
      BY <1>1, <1>2, <1>12, EmptySeq
    <2> QED
      BY <1>1, <1>2, <1>7, <1>9, <1>11, <1>12, <2>1, <2>2 DEF OpenOK
  <1>13. CASE left # 0
    <2>1. new = Blocked(moved)
      BY <1>3, <1>13
    <2> QED
      BY <1>1, <1>2, <1>5, <1>7, <1>9, <1>10, <1>11, <1>13, <2>1 DEF OpenOK
  <1> QED
    BY <1>12, <1>13

-----------------------------------------------------------------------------
(***************************************************************************)
(* The steps, by what they may do to links, pipes and the stock.           *)
(***************************************************************************)

\* The links of a Connection.
LEMMA LinkFacts ==
  /\ \A l \in Links : l[1] \in Conns
  /\ \A k \in Conns : \A l \in Links : l[1] = k <=> l \in {k} \X Dirs
  /\ \A k \in Conns : {k} \X Dirs \subseteq Links
  BY SMT DEF Links

\* The pipe ReceiveFrom works with is the one the Splice has, or one that no
\* Splice has; if the Splice holds nothing, it is empty.
LEMMA PipesForFacts ==
  ASSUME RelayInv, NEW l \in Links, IsOpen(l), NEW p \in PipesFor(l)
  PROVE  /\ p \in Pipes
         /\ p = link[l].pipe \/ (link[l].pipe = NoPipe /\ Unused(p))
         /\ link[l].size = 0 => content[p] = <<>>
  <1>1. link[l] \in LinkRecord /\ link[l].pipe \in Pipes \cup {NoPipe}
    BY DEF RelayInv, TypeOK, LinkRecord
  <1>2. CASE link[l].pipe # NoPipe
    <2>1. p = link[l].pipe /\ p \in Pipes
      BY <1>1, <1>2 DEF PipesFor
    <2>2. link[l].size = Len(content[p])
      BY <1>2, <2>1 DEF RelayInv, LinkOK, IsOpen, OpenOK, Carries, Holds
    <2>3. content[p] \in Seq(Unit)
      BY <2>1 DEF RelayInv, TypeOK, Unit
    <2> QED
      BY <2>1, <2>2, <2>3, EmptySeq
  <1>3. CASE link[l].pipe = NoPipe
    <2>1. p \in Obtainable
      BY <1>3 DEF PipesFor
    <2>2. p \in Pipes /\ Unused(p)
      <3>1. CASE idle # {}
        BY <2>1, <3>1 DEF Obtainable, RelayInv, PipesInv, TypeOK
      <3>2. CASE idle = {}
        BY <2>1, <3>2, PipeAssumption DEF Obtainable, InUse, Unused
      <3> QED
        BY <3>1, <3>2
    <2> QED
      BY <1>3, <2>2 DEF RelayInv, PipesInv
  <1> QED
    BY <1>2, <1>3

\* A step of one link of an open session that may take a pipe, change what it
\* holds and give it back: nobody else is concerned.
LEMMA OneLinkStep ==
  ASSUME RelayInv, NEW l \in Links, IsOpen(l),
         NEW p \in Pipes, p = link[l].pipe \/ (link[l].pipe = NoPipe /\ Unused(p)),
         NEW lk \in LinkRecord, NEW data \in Seq(Unit), OpenOK(l, lk, data),
         lk.pipe = p \/ (lk.pipe = NoPipe /\ data = <<>>),
         link' = [link EXCEPT ![l] = lk],
         content' = [content EXCEPT ![p] = data],
         idle' \subseteq (idle \ {p}) \cup (IF lk.pipe = NoPipe THEN {p} ELSE {}),
         session' = session, process' = process
  PROVE  RelayInv'
  <1>1. /\ link \in [Links -> LinkRecord] /\ content \in [Pipes -> Seq(Unit)]
        /\ idle \subseteq Pipes /\ TypeOK /\ PipesInv
    BY DEF RelayInv, TypeOK, Unit
  <1>2. /\ link'[l] = lk /\ content'[p] = data
        /\ \A m \in Links \ {l} : link'[m] = link[m]
        /\ \A q \in Pipes \ {p} : content'[q] = content[q]
    BY <1>1
  <1>3. TypeOK'
    <2>1. link' \in [Links -> LinkRecord] /\ content' \in [Pipes -> Seq(Unit)]
      BY <1>1
    <2> QED
      BY <1>1, <2>1 DEF TypeOK, Unit
  <1>4. p # NoPipe
    BY PipeAssumption
  <1>5. \A m \in Links \ {l} : link[m].pipe # p
    BY <1>1, <1>4 DEF PipesInv, Unused
  <1>6. PipesInv'
    <2>1. ASSUME NEW a \in Links, NEW b \in Links, link'[a].pipe = link'[b].pipe
          PROVE  a = b \/ link'[a].pipe = NoPipe
      BY <1>1, <1>2, <1>5, <2>1 DEF PipesInv
    <2>2. ASSUME NEW q \in idle', NEW a \in Links PROVE link'[a].pipe # q
      <3>1. CASE q = p
        <4>1. lk.pipe = NoPipe
          BY <3>1
        <4> QED
          BY <1>2, <1>4, <1>5, <3>1, <4>1
      <3>2. CASE q # p
        <4>1. q \in idle /\ q \in Pipes
          BY <1>1, <3>2
        <4> QED
          BY <1>1, <1>2, <3>2, <4>1, PipeAssumption DEF PipesInv, Unused
      <3> QED
        BY <3>1, <3>2
    <2>3. ASSUME NEW q \in Pipes, \A a \in Links : link'[a].pipe # q
          PROVE  content'[q] = <<>>
      <3>1. CASE q = p
        BY <1>2, <2>3, <3>1
      <3>2. CASE q # p
        <4>1. \A a \in Links : link[a].pipe # q
          BY <1>2, <2>3, <3>2, PipeAssumption
        <4> QED
          BY <1>1, <1>2, <3>2, <4>1 DEF PipesInv, Unused
      <3> QED
        BY <3>1, <3>2
    <2> QED
      BY <2>1, <2>2, <2>3 DEF PipesInv, Unused
  <1>7. ASSUME NEW a \in Links PROVE LinkOK(a)'
    <2>1. CASE a = l
      <3>1. Holds(l)' = data
        BY <1>2, <1>4 DEF Holds
      <3>2. session'[l[1]] = "open"
        BY DEF IsOpen
      <3> QED
        BY <1>2, <2>1, <3>1, <3>2 DEF LinkOK
    <2>2. CASE a # l
      <3>1. link'[a] = link[a] /\ link[a].pipe # p /\ link[a].pipe \in Pipes \cup {NoPipe}
        BY <1>1, <1>2, <1>5, <2>2 DEF LinkRecord
      <3>2. Holds(a)' = Holds(a)
        BY <1>2, <3>1 DEF Holds
      <3>3. LinkOK(a)
        BY DEF RelayInv
      <3> QED
        BY <3>1, <3>2, <3>3 DEF LinkOK
    <2> QED
      BY <2>1, <2>2
  <1> QED
    BY <1>3, <1>6, <1>7 DEF RelayInv

\* A step of one link that leaves its Splice alone.
LEMMA PeerStep ==
  ASSUME RelayInv, NEW l \in Links, IsOpen(l),
         NEW lk \in LinkRecord, OpenOK(l, lk, Holds(l)), lk.pipe = link[l].pipe,
         link' = [link EXCEPT ![l] = lk],
         UNCHANGED <<session, content, idle, process>>
  PROVE  RelayInv'
  <1>1. link \in [Links -> LinkRecord] /\ TypeOK /\ PipesInv
    BY DEF RelayInv, TypeOK
  <1>2. /\ link' \in [Links -> LinkRecord] /\ link'[l] = lk
        /\ \A a \in Links \ {l} : link'[a] = link[a]
        /\ \A a \in Links : link'[a].pipe = link[a].pipe
    BY <1>1
  <1>3. TypeOK'
    BY <1>1, <1>2 DEF TypeOK
  <1>4. PipesInv'
    BY <1>1, <1>2 DEF PipesInv, Unused
  <1>5. ASSUME NEW a \in Links PROVE LinkOK(a)'
    <2>1. Holds(a)' = Holds(a)
      BY <1>2 DEF Holds
    <2>2. CASE a = l
      BY <1>2, <2>1, <2>2 DEF LinkOK, IsOpen
    <2>3. CASE a # l
      <3>1. LinkOK(a)
        BY DEF RelayInv
      <3> QED
        BY <1>2, <2>1, <2>3, <3>1 DEF LinkOK
    <2> QED
      BY <2>2, <2>3
  <1> QED
    BY <1>3, <1>4, <1>5 DEF RelayInv

\* The pipes of the stock are nobody's.
LEMMA IdleFacts ==
  ASSUME RelayInv
  PROVE  idle \subseteq Pipes /\ \A p \in idle : Unused(p)
  BY DEF RelayInv, TypeOK, PipesInv

\* ~Connection: of what it leaves behind, what is closed is empty in the
\* model, and what goes to the stock was empty and is nobody's any more.
LEMMA EndStep ==
  ASSUME RelayInv, NEW k \in Conns, session[k] = "open",
         NEW fin, NEW idles, NEW broken,
         \A l \in fin : /\ l \in Links /\ l[1] = k
                        /\ link[l].size = 0 /\ link[l].received = link[l].sent,
         idles \subseteq Pipes,
         \A p \in idles : Unused(p) \/ \E l \in {k} \X Dirs : link[l].pipe = p,
         \A p \in broken : Unused(p) \/ \E l \in {k} \X Dirs : link[l].pipe = p,
         ReleasePipes(k, idles, broken), CloseSession(k, fin)
  PROVE  RelayInv'
  <1> DEFINE mine == {l \in {k} \X Dirs : link[l].pipe # NoPipe}
             dirty == broken \cup {link[l].pipe : l \in {m \in mine : link[m].size > 0}}
             clean == {link[l].pipe : l \in mine} \ dirty
             Ended(l) == [Blank EXCEPT !.sent = link[l].sent,
                                       !.received = link[l].received,
                                       !.delivered = link[l].delivered,
                                       !.fin = TRUE]
  <1>1. /\ link \in [Links -> LinkRecord] /\ content \in [Pipes -> Seq(Unit)]
        /\ session \in [Conns -> {"new", "open", "closed"}]
        /\ idle \subseteq Pipes /\ TypeOK /\ PipesInv /\ <<>> \in Seq(Unit)
    BY DEF RelayInv, TypeOK, Unit
  <1>2. /\ idle' \subseteq idles \cup clean
        /\ content' = [p \in Pipes |-> IF p \in dirty THEN <<>> ELSE content[p]]
    BY DEF ReleasePipes, IdleAfterPut
  <1>3. \A l \in Links : l[1] = k <=> l \in {k} \X Dirs
    BY LinkFacts
  <1>4. \A l \in Links : link[l] \in LinkRecord /\ link[l].pipe \in Pipes \cup {NoPipe}
    BY <1>1 DEF LinkRecord
  <1>5. ASSUME NEW l \in Links PROVE /\ Ended(l) \in LinkRecord
                                     /\ Ended(l).pipe = NoPipe /\ Ended(l).size = 0
                                     /\ Ended(l).fin = TRUE
                                     /\ Ended(l).sent = link[l].sent
                                     /\ Ended(l).received = link[l].received
                                     /\ Ended(l).delivered = link[l].delivered
    <2>1. link[l] \in LinkRecord /\ Blank \in LinkRecord
      BY <1>4, BlankFacts
    <2> QED
      BY <2>1, BlankFacts DEF LinkRecord
  <1>6. \A l \in Links : link'[l] = IF l[1] # k THEN link[l]
                                    ELSE IF l \in fin THEN Ended(l) ELSE Blank
    BY DEF CloseSession
  <1>7. /\ session' = [session EXCEPT ![k] = "closed"] /\ process' = process
        /\ \A c \in Conns : session'[c] = IF c = k THEN "closed" ELSE session[c]
    BY <1>1 DEF CloseSession
  <1>8. link' = [l \in Links |-> link'[l]]
    BY DEF CloseSession
  <1> HIDE DEF Ended
  <1>9. \A l \in Links : /\ link'[l] \in LinkRecord
                         /\ link'[l].pipe = IF l[1] = k THEN NoPipe ELSE link[l].pipe
    BY <1>4, <1>5, <1>6, BlankFacts
  <1>10. \A p \in clean : \E m \in Links : m[1] = k /\ link[m].pipe = p /\ p # NoPipe
    BY LinkFacts
  <1>11. \A p \in dirty : Unused(p) \/ \E m \in Links : m[1] = k /\ link[m].pipe = p
    BY LinkFacts
  <1>12. \A l \in Links : /\ l[1] = k /\ link[l].pipe # NoPipe /\ link[l].pipe \notin dirty
                          => ~(link[l].size > 0)
    BY LinkFacts
  <1>13. idle' \subseteq Pipes
    <2>1. clean \subseteq Pipes
      BY <1>4, <1>10
    <2> QED
      BY <1>1, <1>2, <2>1
  <1>14. content' \in [Pipes -> Seq(Unit)]
    BY <1>1, <1>2
  <1>15. \A p \in Pipes : content'[p] = IF p \in dirty THEN <<>> ELSE content[p]
    BY <1>2
  <1>16. /\ \A p \in idle' : p \in idles \/ p \in clean
         /\ \A p \in idles : Unused(p) \/ \E m \in Links : m[1] = k /\ link[m].pipe = p
    BY <1>2, LinkFacts
  <1> HIDE DEF mine, dirty, clean
  <1>17. TypeOK'
    <2>1. link' \in [Links -> LinkRecord]
      BY <1>8, <1>9
    <2>2. session' \in [Conns -> {"new", "open", "closed"}]
      BY <1>1, <1>7
    <2> QED
      BY <1>1, <1>7, <1>13, <1>14, <2>1, <2>2 DEF TypeOK, Unit
  <1>18. PipesInv'
    <2>1. ASSUME NEW a \in Links, NEW b \in Links, link'[a].pipe = link'[b].pipe
          PROVE  a = b \/ link'[a].pipe = NoPipe
      BY <1>1, <1>9, <2>1 DEF PipesInv
    <2>2. ASSUME NEW p \in idle', NEW a \in Links PROVE link'[a].pipe # p
      <3>1. p # NoPipe
        BY <1>13, PipeAssumption
      <3>2. CASE a[1] = k
        BY <1>9, <3>1, <3>2
      <3>3. CASE a[1] # k
        <4>1. CASE p \in idles
          BY <1>1, <1>9, <1>16, <3>1, <3>3, <4>1 DEF PipesInv, Unused
        <4>2. CASE p \in clean
          BY <1>1, <1>9, <1>10, <3>3, <4>2 DEF PipesInv
        <4> QED
          BY <1>16, <4>1, <4>2
      <3> QED
        BY <3>2, <3>3
    <2>3. ASSUME NEW p \in Pipes, \A a \in Links : link'[a].pipe # p
          PROVE  content'[p] = <<>>
      <3>1. CASE p \in dirty
        BY <1>15, <3>1
      <3>2. CASE p \notin dirty /\ Unused(p)
        BY <1>1, <1>15, <3>2 DEF PipesInv
      <3>3. CASE p \notin dirty /\ ~Unused(p)
        <4>1. PICK a \in Links : link[a].pipe = p
          BY <3>3 DEF Unused
        <4>2. p # NoPipe /\ a[1] = k
          BY <1>9, <2>3, <4>1, PipeAssumption
        <4>3. ~(link[a].size > 0)
          BY <1>12, <3>3, <4>1, <4>2
        <4>4. OpenOK(a, link[a], Holds(a)) /\ Holds(a) = content[p]
          BY <4>1, <4>2 DEF RelayInv, LinkOK, Holds
        <4>5. link[a].size = Len(content[p]) /\ content[p] \in Seq(Unit)
          BY <1>1, <4>4 DEF OpenOK, Carries
        <4>6. content[p] = <<>>
          <5>1. Len(content[p]) \in Nat
            BY <4>5, LenProperties
          <5>2. Len(content[p]) = 0
            BY <4>3, <4>5, <5>1, SMT
          <5> QED
            BY <4>5, <5>2, EmptySeq
        <4> QED
          BY <1>15, <3>3, <4>6
      <3> QED
        BY <3>1, <3>2, <3>3
    <2> QED
      BY <2>1, <2>2, <2>3 DEF PipesInv, Unused
  <1>19. ASSUME NEW a \in Links PROVE LinkOK(a)'
    <2>1. CASE a[1] # k
      <3>1. link'[a] = link[a] /\ session'[a[1]] = session[a[1]]
        BY <1>6, <1>7, <2>1, LinkFacts
      <3>2. link[a].pipe = NoPipe \/ (link[a].pipe \in Pipes /\ link[a].pipe \notin dirty)
        <4>1. ASSUME link[a].pipe # NoPipe, link[a].pipe \in dirty PROVE FALSE
          <5>1. PICK m \in Links : m[1] = k /\ link[m].pipe = link[a].pipe
            BY <1>11, <4>1 DEF Unused
          <5> QED
            BY <1>1, <2>1, <4>1, <5>1 DEF PipesInv
        <4> QED
          BY <1>4, <4>1
      <3>3. Holds(a)' = Holds(a)
        BY <1>15, <3>1, <3>2 DEF Holds
      <3>4. LinkOK(a)
        BY DEF RelayInv
      <3> QED
        BY <3>1, <3>3, <3>4 DEF LinkOK
    <2>2. CASE a[1] = k
      <3>1. session'[a[1]] = "closed"
        BY <1>7, <2>2
      <3>2. ShutOK(a, link'[a])
        <4>1. CASE a \notin fin
          BY <1>6, <2>2, <4>1, BlankFacts DEF ShutOK
        <4>2. CASE a \in fin
          <5>1. link'[a] = Ended(a)
            BY <1>6, <2>2, <4>2
          <5>2. Carries(a, link[a], Holds(a))
            BY <2>2 DEF RelayInv, LinkOK, OpenOK
          <5>3. Carries(a, Ended(a), <<>>)
            <6>1. link[a].size = 0 /\ Len(<<>>) = 0
              BY <4>2
            <6>2. InOrder(a, Len(Ended(a).delivered), <<>>)
              BY <6>1 DEF InOrder
            <6> QED
              BY <1>5, <5>2, <6>1, <6>2 DEF Carries
          <5>4. /\ Ended(a).pipe = NoPipe /\ Ended(a).size = 0 /\ Ended(a).fin = TRUE
                /\ Ended(a).received = Ended(a).sent
            BY <1>5, <4>2
          <5> QED
            BY <5>1, <5>3, <5>4, Zenon DEF ShutOK
        <4> QED
          BY <4>1, <4>2
      <3> QED
        BY <3>1, <3>2 DEF LinkOK
    <2> QED
      BY <2>1, <2>2
  <1> QED
    BY <1>17, <1>18, <1>19 DEF RelayInv

\* What DoSpliceSend does to a link, as its receiver sees it: more or as much
\* is delivered, and nothing else changes.
Forwards(l) ==
    /\ IsOpen(l) /\ session' = session /\ process' = process
    /\ \E lk \in LinkRecord :
         /\ link' = [link EXCEPT ![l] = lk]
         /\ lk.sent = link[l].sent /\ lk.fin = FALSE
         /\ Len(lk.delivered) >= Len(link[l].delivered)

\* The whole of DoSpliceSend, on a link whose pipe is its own.
LEMMA SendStep ==
  ASSUME RelayInv, NEW l \in Links, IsOpen(l),
         NEW p \in Pipes, p = link[l].pipe \/ (link[l].pipe = NoPipe /\ Unused(p)),
         NEW lk \in LinkRecord, NEW data \in Seq(Unit), Carries(l, lk, data),
         lk.size > 0, ~lk.fin, lk.pipe = p,
         lk.sent = link[l].sent, lk.delivered = link[l].delivered,
         NEW idles, idles \subseteq idle \ {p},
         DoSpliceSend(l, lk, p, data, idles)
  PROVE  RelayInv' /\ Forwards(l)
  <1>1. PICK m \in SendSizes(lk) :
           /\ link' = [link EXCEPT ![l] = SpliceSend(lk, m, data)]
           /\ content' = [content EXCEPT ![p] = SubSeq(data, m + 1, Len(data))]
           /\ idle' \in IdleAfterPut(idles, IF m = lk.size THEN {p} ELSE {})
           /\ UNCHANGED <<session, process>>
    BY DEF DoSpliceSend
  <1> DEFINE new == SpliceSend(lk, m, data)
             rest == SubSeq(data, m + 1, Len(data))
  <1>2. m \in 0..lk.size /\ lk.unread + m \in 0..Window
    BY SendSizesFacts
  <1>3. lk.pipe # NoPipe
    BY PipeAssumption
  <1>4. /\ new \in LinkRecord
        /\ new.sent = lk.sent /\ new.fin = lk.fin
        /\ Len(new.delivered) = Len(lk.delivered) + m
        /\ rest \in Seq(Unit)
        /\ m = lk.size => new.pipe = NoPipe /\ rest = <<>>
        /\ m # lk.size => new.pipe = lk.pipe
        /\ OpenOK(l, new, rest)
    BY <1>2, <1>3, SpliceSendFacts
  <1>5. idle' \subseteq idles \cup (IF m = lk.size THEN {p} ELSE {})
    BY <1>1 DEF IdleAfterPut
  <1>6. link' = [link EXCEPT ![l] = new] /\ content' = [content EXCEPT ![p] = rest]
    BY <1>1
  <1> HIDE DEF new, rest
  <1>7. idle' \subseteq (idle \ {p}) \cup (IF new.pipe = NoPipe THEN {p} ELSE {})
    BY <1>4, <1>5
  <1>8. new.pipe = p \/ (new.pipe = NoPipe /\ rest = <<>>)
    BY <1>4
  <1>9. RelayInv'
    BY <1>1, <1>4, <1>6, <1>7, <1>8, OneLinkStep
  <1>10. Forwards(l)
    <2>1. lk.delivered \in Seq(Unit) /\ m \in Nat
      BY <1>2, SizeAssumption DEF LinkRecord, Unit
    <2>2. Len(lk.delivered) + m >= Len(lk.delivered)
      <3>1. Len(lk.delivered) \in Nat
        BY <2>1, LenProperties
      <3> QED
        BY <2>1, <3>1, SMT
    <2>3. lk.fin = FALSE
      BY DEF LinkRecord
    <2> QED
      BY <1>1, <1>4, <1>6, <2>2, <2>3 DEF Forwards
  <1> QED
    BY <1>9, <1>10

\* READ fires and data comes: the pipe held nothing, so that it now holds the
\* next units of this link and nothing else.
LEMMA OnReadableStep ==
  ASSUME RelayInv, NEW l \in Links, OnReadable(l)
  PROVE  RelayInv' /\ Forwards(l)
  <1>1. IsOpen(l) /\ link[l].read
    BY DEF OnReadable
  <1>2. PICK p \in PipesFor(l) :
          \E n \in 1..Smaller(link[l].sent - link[l].received,
                              PipeSize - Len(content[p])) :
            DoSpliceSend(l, Received(l, p, n), p, content[p] \o Units(l, n), idle \ {p})
    BY DEF OnReadable
  <1>3. /\ link[l] \in LinkRecord /\ OpenOK(l, link[l], Holds(l))
        /\ link[l].size \in Nat /\ link[l].sent \in Nat /\ link[l].received \in Nat
        /\ link[l].delivered \in Seq(Unit)
    BY <1>1, SizeAssumption DEF RelayInv, TypeOK, LinkRecord, Unit, LinkOK, IsOpen
  <1>4. link[l].size = 0
    <2>1. ~(link[l].size > 0)
      BY <1>1, <1>3 DEF OpenOK
    <2> QED
      BY <1>3, <2>1, SMT
  <1>5. /\ p \in Pipes /\ content[p] = <<>>
        /\ p = link[l].pipe \/ (link[l].pipe = NoPipe /\ Unused(p))
    BY <1>1, <1>4, PipesForFacts
  <1>6. PICK n \in 1..Smaller(link[l].sent - link[l].received, PipeSize - Len(content[p])) :
            DoSpliceSend(l, Received(l, p, n), p, content[p] \o Units(l, n), idle \ {p})
    BY <1>2
  <1> DEFINE lk == Received(l, p, n)
             data == Units(l, n)
  <1>7. n \in Nat /\ n > 0 /\ n <= PipeSize /\ link[l].received + n <= link[l].sent
    <2>1. Len(content[p]) = 0
      BY <1>5
    <2> QED
      BY <1>3, <1>6, <2>1, SizeAssumption, SMT DEF Smaller
  <1>8. /\ data \in Seq(Unit) /\ Len(data) = n
        /\ \A i \in 1..n : data[i] = <<l, link[l].received + i>>
    <2>1. data = [i \in 1..n |-> <<l, link[l].received + i>>]
      BY DEF Units
    <2>2. \A i \in 1..n : <<l, link[l].received + i>> \in Unit
      BY <1>3, <1>7, SMT DEF Unit
    <2> QED
      BY <1>7, <2>1, <2>2
  <1>9. content[p] \o Units(l, n) = data
    BY <1>5, <1>8, ConcatEmptySeq
  <1>10. /\ lk \in LinkRecord /\ lk.pipe = p /\ lk.size = n
         /\ lk.received = link[l].received + n /\ lk.sent = link[l].sent
         /\ lk.delivered = link[l].delivered /\ lk.fin = link[l].fin
    <2> DEFINE size == link[l].size + n
               received == link[l].received + n
    <2>1. size = n /\ size \in 0..PipeSize /\ received \in Nat
      BY <1>3, <1>4, <1>7, SizeAssumption, SMT
    <2>2. lk = [link[l] EXCEPT !.pipe = p, !.size = size, !.received = received]
      BY <1>3 DEF Received, LinkRecord
    <2> HIDE DEF size, received, lk
    <2> QED
      BY <1>3, <1>5, <2>1, <2>2, Zenon DEF LinkRecord, received
  <1>11. DoSpliceSend(l, lk, p, data, idle \ {p})
    BY <1>6, <1>9
  <1> HIDE DEF lk, data
  <1>12. Len(link[l].delivered) = link[l].received
    <2>1. Len(link[l].delivered) \in Nat
      BY <1>3, LenProperties
    <2> QED
      BY <1>3, <1>4, <2>1, SMT DEF OpenOK, Carries
  <1>13. Carries(l, lk, data)
    <2>1. InOrder(l, 0, lk.delivered) /\ InOrder(l, Len(lk.delivered), data)
      BY <1>3, <1>8, <1>10, <1>12 DEF OpenOK, Carries, InOrder
    <2>2. Len(lk.delivered) + lk.size = lk.received /\ lk.received <= lk.sent
      BY <1>7, <1>10, <1>12
    <2> QED
      BY <1>8, <1>10, <2>1, <2>2 DEF Carries
  <1>14. lk.size > 0 /\ ~lk.fin /\ idle \ {p} \subseteq idle \ {p}
    BY <1>3, <1>7, <1>10 DEF OpenOK
  <1> QED
    BY <1>1, <1>5, <1>8, <1>10, <1>11, <1>13, <1>14, SendStep

\* WRITE fires: the Splice holds data, in a pipe of its own.
LEMMA OnWritableStep ==
  ASSUME RelayInv, NEW l \in Links, OnWritable(l)
  PROVE  RelayInv' /\ Forwards(l)
  <1>1. /\ IsOpen(l) /\ link[l].write
        /\ DoSpliceSend(l, link[l], link[l].pipe, content[link[l].pipe], idle)
    BY DEF OnWritable
  <1>2. /\ link[l] \in LinkRecord /\ OpenOK(l, link[l], Holds(l))
        /\ link[l].pipe \in Pipes \cup {NoPipe}
    BY <1>1 DEF RelayInv, TypeOK, LinkRecord, LinkOK, IsOpen
  <1>3. link[l].size > 0 /\ link[l].pipe # NoPipe /\ ~link[l].fin
    BY <1>1, <1>2 DEF OpenOK
  <1> DEFINE p == link[l].pipe
             lk == link[l]
             data == content[p]
  <1>4. p \in Pipes /\ data \in Seq(Unit) /\ Carries(l, lk, data)
    BY <1>2, <1>3 DEF RelayInv, TypeOK, Unit, OpenOK, Holds
  <1>5. idle \subseteq idle \ {p}
    BY DEF RelayInv, PipesInv, Unused
  <1>6. /\ p = link[l].pipe /\ lk.pipe = p /\ lk \in LinkRecord /\ lk.size > 0 /\ ~lk.fin
        /\ lk.sent = link[l].sent /\ lk.delivered = link[l].delivered
        /\ DoSpliceSend(l, lk, p, data, idle)
    BY <1>1, <1>2, <1>3
  <1> HIDE DEF p, lk, data
  <1> QED
    BY <1>1, <1>4, <1>5, <1>6, SendStep

\* A Connection arrives in READY with two blank links.
LEMMA OpenStep ==
  ASSUME RelayInv, NEW k \in Conns, Open(k)
  PROVE  RelayInv'
  <1>1. /\ link \in [Links -> LinkRecord] /\ TypeOK /\ PipesInv
        /\ session \in [Conns -> {"new", "open", "closed"}]
    BY DEF RelayInv, TypeOK
  <1>2. /\ session[k] = "new" /\ session' = [session EXCEPT ![k] = "open"]
        /\ link' = [l \in Links |-> IF l[1] = k THEN [link[l] EXCEPT !.read = TRUE]
                                    ELSE link[l]]
        /\ UNCHANGED <<content, idle, process>>
    BY DEF Open
  <1> DEFINE Ready == [Blank EXCEPT !.read = TRUE]
  <1>3. /\ Ready \in LinkRecord /\ Ready.pipe = NoPipe /\ Ready.write = FALSE
        /\ Ready.size = 0 /\ Ready.fin = FALSE /\ Ready.delivered = <<>>
        /\ Ready.received = 0 /\ Ready.sent = 0
    BY BlankFacts DEF LinkRecord
  <1>4. \A l \in Links : l[1] = k => link[l] = Blank
    BY <1>2 DEF RelayInv, LinkOK
  <1>5. \A l \in Links : link'[l] = IF l[1] = k THEN Ready ELSE link[l]
    BY <1>2, <1>4
  <1> HIDE DEF Ready
  <1>6. link' \in [Links -> LinkRecord] /\ \A l \in Links : link'[l].pipe = link[l].pipe
    <2>1. \A l \in Links : link'[l] \in LinkRecord /\ link'[l].pipe = link[l].pipe
      BY <1>1, <1>3, <1>4, <1>5, BlankFacts
    <2> QED
      BY <1>2, <2>1
  <1>7. TypeOK'
    BY <1>1, <1>2, <1>6 DEF TypeOK
  <1>8. PipesInv'
    BY <1>1, <1>2, <1>6 DEF PipesInv, Unused
  <1>9. ASSUME NEW l \in Links PROVE LinkOK(l)'
    <2>1. Holds(l)' = Holds(l)
      BY <1>2, <1>6 DEF Holds
    <2>2. CASE l[1] = k
      <3>1. link'[l] = Ready /\ session'[l[1]] = "open"
        BY <1>1, <1>2, <1>5, <2>2
      <3>2. Holds(l) = <<>>
        BY <1>4, <2>2, BlankFacts DEF Holds
      <3>3. Carries(l, Ready, <<>>)
        BY <1>3 DEF Carries, InOrder
      <3>4. OpenOK(l, Ready, <<>>)
        BY <1>3, <3>3 DEF OpenOK
      <3> QED
        BY <2>1, <3>1, <3>2, <3>4 DEF LinkOK
    <2>3. CASE l[1] # k
      <3>1. link'[l] = link[l] /\ session'[l[1]] = session[l[1]]
        BY <1>1, <1>2, <1>5, <2>3, LinkFacts
      <3>2. LinkOK(l)
        BY DEF RelayInv
      <3> QED
        BY <2>1, <3>1, <3>2 DEF LinkOK
    <2> QED
      BY <2>2, <2>3
  <1> QED
    BY <1>7, <1>8, <1>9 DEF RelayInv

\* The peers only send, end their stream or read.
LEMMA PeersStep ==
  ASSUME RelayInv, NEW l \in Links, PeerSend(l) \/ PeerEof(l) \/ PeerRead(l)
  PROVE  RelayInv'
  <1>1. /\ link \in [Links -> LinkRecord] /\ link[l] \in LinkRecord
        /\ link[l].sent \in Nat /\ link[l].received \in Nat /\ link[l].unread \in 0..Window
    BY DEF RelayInv, TypeOK, LinkRecord
  <1>2. IsOpen(l) /\ UNCHANGED <<session, content, idle, process>>
    BY DEF PeerSend, PeerEof, PeerRead
  <1>3. OpenOK(l, link[l], Holds(l))
    BY <1>2 DEF RelayInv, LinkOK, IsOpen
  <1>4. CASE PeerSend(l)
    <2> DEFINE sent == link[l].sent + 1
               lk == [link[l] EXCEPT !.sent = sent]
    <2>1. link' = [link EXCEPT ![l] = lk]
      BY <1>1, <1>4 DEF PeerSend
    <2>2. sent \in Nat /\ (link[l].received <= link[l].sent => link[l].received <= sent)
      BY <1>1, SMT
    <2> HIDE DEF sent
    <2>3. /\ lk \in LinkRecord /\ lk.pipe = link[l].pipe /\ lk.fin = link[l].fin
          /\ lk.write = link[l].write /\ lk.read = link[l].read /\ lk.size = link[l].size
          /\ lk.delivered = link[l].delivered /\ lk.received = link[l].received
          /\ lk.sent = sent
      BY <1>1, <2>2 DEF LinkRecord
    <2> HIDE DEF lk
    <2>4. OpenOK(l, lk, Holds(l))
      <3>1. Carries(l, lk, Holds(l))
        BY <1>3, <2>2, <2>3 DEF OpenOK, Carries
      <3> QED
        BY <1>3, <2>3, <3>1, Zenon DEF OpenOK
    <2> QED
      BY <1>2, <2>1, <2>3, <2>4, PeerStep
  <1>5. ASSUME NEW lk \in LinkRecord, link' = [link EXCEPT ![l] = lk],
               lk.pipe = link[l].pipe, lk.fin = link[l].fin, lk.write = link[l].write,
               lk.read = link[l].read, lk.size = link[l].size, lk.sent = link[l].sent,
               lk.delivered = link[l].delivered, lk.received = link[l].received
        PROVE  RelayInv'
    <2>1. Carries(l, lk, Holds(l))
      BY <1>3, <1>5 DEF OpenOK, Carries
    <2>2. OpenOK(l, lk, Holds(l))
      BY <1>3, <1>5, <2>1, Zenon DEF OpenOK
    <2> QED
      BY <1>2, <1>5, <2>2, PeerStep
  <1>6. CASE PeerEof(l)
    <2> DEFINE lk == [link[l] EXCEPT !.eof = TRUE]
    <2>1. link' = [link EXCEPT ![l] = lk]
      BY <1>1, <1>6 DEF PeerEof
    <2>2. /\ lk \in LinkRecord /\ lk.pipe = link[l].pipe /\ lk.fin = link[l].fin
          /\ lk.write = link[l].write /\ lk.read = link[l].read /\ lk.size = link[l].size
          /\ lk.delivered = link[l].delivered /\ lk.received = link[l].received
          /\ lk.sent = link[l].sent
      BY <1>1 DEF LinkRecord
    <2> HIDE DEF lk
    <2> QED
      BY <1>5, <2>1, <2>2
  <1>7. CASE PeerRead(l)
    <2> DEFINE unread == link[l].unread - 1
               lk == [link[l] EXCEPT !.unread = unread]
    <2>1. link' = [link EXCEPT ![l] = lk]
      BY <1>1, <1>7 DEF PeerRead
    <2>2. unread \in 0..Window
      BY <1>1, <1>7, SizeAssumption, SMT DEF PeerRead
    <2> HIDE DEF unread
    <2>3. /\ lk \in LinkRecord /\ lk.pipe = link[l].pipe /\ lk.fin = link[l].fin
          /\ lk.write = link[l].write /\ lk.read = link[l].read /\ lk.size = link[l].size
          /\ lk.delivered = link[l].delivered /\ lk.received = link[l].received
          /\ lk.sent = link[l].sent
      BY <1>1, <2>2 DEF LinkRecord
    <2> HIDE DEF lk
    <2> QED
      BY <1>5, <2>1, <2>3
  <1> QED
    BY <1>4, <1>6, <1>7

\* A spurious READ takes a pipe that nobody uses, and puts nothing into it.
LEMMA SpuriousStep ==
  ASSUME RelayInv, NEW l \in Links, OnReadableSpurious(l)
  PROVE  RelayInv'
  <1>1. IsOpen(l) /\ link[l].pipe = NoPipe /\ UNCHANGED <<session, content, process>>
    BY DEF OnReadableSpurious
  <1>2. PICK p \in Obtainable : link' = [link EXCEPT ![l].pipe = p] /\ idle' = idle \ {p}
    BY DEF OnReadableSpurious
  <1>3. p \in PipesFor(l)
    BY <1>1 DEF PipesFor
  <1>4. /\ link \in [Links -> LinkRecord] /\ link[l] \in LinkRecord
        /\ content \in [Pipes -> Seq(Unit)] /\ OpenOK(l, link[l], Holds(l))
    BY <1>1 DEF RelayInv, TypeOK, Unit, LinkOK, IsOpen
  <1>5. Holds(l) = <<>> /\ link[l].size = 0
    BY <1>1, <1>4 DEF Holds, OpenOK, Carries
  <1>6. p \in Pipes /\ content[p] = <<>> /\ Unused(p) /\ p # NoPipe
    BY <1>1, <1>3, <1>5, PipesForFacts, PipeAssumption
  <1> DEFINE lk == [link[l] EXCEPT !.pipe = p]
  <1>7. link' = [link EXCEPT ![l] = lk]
    BY <1>2, <1>4
  <1>8. /\ lk \in LinkRecord /\ lk.pipe = p /\ lk.fin = link[l].fin
        /\ lk.write = link[l].write /\ lk.read = link[l].read /\ lk.size = link[l].size
        /\ lk.delivered = link[l].delivered /\ lk.received = link[l].received
        /\ lk.sent = link[l].sent
    BY <1>4, <1>6 DEF LinkRecord
  <1> HIDE DEF lk
  <1>9. OpenOK(l, lk, <<>>)
    <2>1. Carries(l, lk, <<>>)
      BY <1>4, <1>5, <1>8 DEF OpenOK, Carries
    <2> QED
      BY <1>4, <1>5, <1>6, <1>8, <2>1, Zenon DEF OpenOK
  <1>10. content' = [content EXCEPT ![p] = <<>>]
    <2>1. content = [content EXCEPT ![p] = <<>>]
      BY <1>4, <1>6
    <2> QED
      BY <1>1, <2>1
  <1>11. idle' \subseteq (idle \ {p}) \cup (IF lk.pipe = NoPipe THEN {p} ELSE {})
    BY <1>2
  <1>12. <<>> \in Seq(Unit)
    OBVIOUS
  <1> QED
    BY <1>1, <1>6, <1>7, <1>8, <1>9, <1>10, <1>11, <1>12, OneLinkStep

\* How a session ends: orderly for a link whose data is all delivered, or
\* for none.
Ends(k, fin) ==
    /\ session[k] = "open"
    /\ fin \subseteq {l \in Links : l[1] = k /\ link[l].size = 0
                                     /\ link[l].received = link[l].sent}
    /\ CloseSession(k, fin)

\* The end of a stream, which is only seen by a READ and thus with nothing
\* left in the pipe.
LEMMA EofStep ==
  ASSUME RelayInv, NEW l \in Links, OnReadableEof(l)
  PROVE  RelayInv' /\ Ends(l[1], {l})
  <1>1. /\ session[l[1]] = "open" /\ link[l].read /\ link[l].received = link[l].sent
        /\ IsOpen(l) /\ CloseSession(l[1], {l})
    BY DEF OnReadableEof, IsOpen
  <1>2. l[1] \in Conns /\ l \in {l[1]} \X Dirs
    BY LinkFacts
  <1>3. link[l].size = 0
    <2>1. link[l].size \in Nat /\ OpenOK(l, link[l], Holds(l))
      BY <1>1, SizeAssumption DEF RelayInv, TypeOK, LinkRecord, LinkOK
    <2>2. ~(link[l].size > 0)
      BY <1>1, <2>1 DEF OpenOK
    <2> QED
      BY <2>1, <2>2, SMT
  <1>4. Ends(l[1], {l})
    BY <1>1, <1>3 DEF Ends
  <1>5. RelayInv'
    <2>1. \A a \in {l} : /\ a \in Links /\ a[1] = l[1]
                         /\ link[a].size = 0 /\ link[a].received = link[a].sent
      BY <1>1, <1>3
    <2>2. PICK p \in PipesFor(l) :
            \E idles \in IdleAfterPut(idle \ {p}, {p}) : ReleasePipes(l[1], idles, {})
      BY DEF OnReadableEof
    <2>3. PICK idles \in IdleAfterPut(idle \ {p}, {p}) : ReleasePipes(l[1], idles, {})
      BY <2>2
    <2>4. idles \subseteq idle \cup {p}
      BY <2>3 DEF IdleAfterPut
    <2>5. p \in Pipes /\ (Unused(p) \/ \E a \in {l[1]} \X Dirs : link[a].pipe = p)
      BY <1>1, <1>2, PipesForFacts
    <2>6. /\ idles \subseteq Pipes
          /\ \A q \in idles : Unused(q) \/ \E a \in {l[1]} \X Dirs : link[a].pipe = q
      BY <2>4, <2>5, IdleFacts
    <2> QED
      BY <1>1, <1>2, <2>1, <2>3, <2>6, EndStep
  <1> QED
    BY <1>4, <1>5

\* A failed SendTo: the pipe, which may just have come from the stock, is
\* closed with what is in it.
LEMMA SendFailsStep ==
  ASSUME RelayInv, NEW l \in Links, OnReadableSendFails(l)
  PROVE  RelayInv' /\ Ends(l[1], {})
  <1>1. IsOpen(l) /\ session[l[1]] = "open" /\ CloseSession(l[1], {})
    BY DEF OnReadableSendFails, IsOpen
  <1>2. PICK p \in PipesFor(l) : ReleasePipes(l[1], idle \ {p}, {p})
    BY DEF OnReadableSendFails
  <1>3. l[1] \in Conns /\ l \in {l[1]} \X Dirs
    BY LinkFacts
  <1>4. \A q \in {p} : Unused(q) \/ \E a \in {l[1]} \X Dirs : link[a].pipe = q
    BY <1>1, <1>3, PipesForFacts
  <1>5. RelayInv'
    <2>1. /\ \A a \in {} : /\ a \in Links /\ a[1] = l[1]
                           /\ link[a].size = 0 /\ link[a].received = link[a].sent
          /\ idle \ {p} \subseteq Pipes /\ \A q \in idle \ {p} : Unused(q)
      BY IdleFacts
    <2> QED
      BY <1>1, <1>2, <1>3, <1>4, <2>1, EndStep
  <1> QED
    BY <1>1, <1>5 DEF Ends

\* The end for any other reason.
LEMMA AbortStep ==
  ASSUME RelayInv, NEW k \in Conns, Abort(k)
  PROVE  RelayInv' /\ Ends(k, {})
  <1>1. session[k] = "open" /\ ReleasePipes(k, idle, {}) /\ CloseSession(k, {})
    BY DEF Abort, Destroy
  <1>2. RelayInv'
    BY <1>1, EndStep, IdleFacts
  <1> QED
    BY <1>1, <1>2 DEF Ends

\* The end of the process.
LEMMA NoPipeStep ==
  ASSUME RelayInv, NEW l \in Links, OnReadableNoPipe(l)
  PROVE  RelayInv'
  <1>1. /\ session' = [k \in Conns |-> "closed"] /\ link' = [m \in Links |-> Blank]
        /\ content' = [p \in Pipes |-> <<>>] /\ idle' = {} /\ process' = "terminated"
    BY DEF OnReadableNoPipe
  <1>2. TypeOK'
    <2>1. link' \in [Links -> LinkRecord]
      BY <1>1, BlankFacts
    <2>2. content' \in [Pipes -> Seq(Unit)]
      BY <1>1
    <2> QED
      BY <1>1, <2>1, <2>2 DEF TypeOK, Unit
  <1>3. PipesInv'
    BY <1>1, BlankFacts DEF PipesInv, Unused
  <1>4. ASSUME NEW m \in Links PROVE LinkOK(m)'
    <2>1. link'[m] = Blank /\ session'[m[1]] = "closed"
      BY <1>1, LinkFacts
    <2>2. ShutOK(m, Blank)
      BY BlankFacts DEF ShutOK
    <2> QED
      BY <2>1, <2>2 DEF LinkOK
  <1> QED
    BY <1>2, <1>3, <1>4 DEF RelayInv

\* Every step keeps the invariant.
LEMMA RelayStep ==
  ASSUME RelayInv, [Next]_vars
  PROVE  RelayInv'
  <1>1. CASE UNCHANGED vars
    BY <1>1 DEF vars, RelayInv, TypeOK, PipesInv, Unused, LinkOK, Holds
  <1>2. ASSUME NEW k \in Conns, Open(k) PROVE RelayInv'
    BY <1>2, OpenStep
  <1>3. ASSUME NEW l \in Links, PeerSend(l) \/ PeerEof(l) \/ PeerRead(l) PROVE RelayInv'
    BY <1>3, PeersStep
  <1>4. ASSUME NEW l \in Links, OnReadable(l) PROVE RelayInv'
    BY <1>4, OnReadableStep
  <1>5. ASSUME NEW l \in Links, OnReadableSendFails(l) PROVE RelayInv'
    BY <1>5, SendFailsStep
  <1>6. ASSUME NEW l \in Links, OnReadableSpurious(l) PROVE RelayInv'
    BY <1>6, SpuriousStep
  <1>7. ASSUME NEW l \in Links, OnReadableEof(l) PROVE RelayInv'
    BY <1>7, EofStep
  <1>8. ASSUME NEW l \in Links, OnReadableNoPipe(l) PROVE RelayInv'
    BY <1>8, NoPipeStep
  <1>9. ASSUME NEW l \in Links, OnWritable(l) PROVE RelayInv'
    BY <1>9, OnWritableStep
  <1>10. ASSUME NEW k \in Conns, Abort(k) PROVE RelayInv'
    BY <1>10, AbortStep
  <1> QED
    BY <1>1, <1>2, <1>3, <1>4, <1>5, <1>6, <1>7, <1>8, <1>9, <1>10 DEF Next

\* The invariant holds initially, and thus always.
LEMMA AlwaysRelay == Spec => []RelayInv
  <1>1. Init => RelayInv
    <2> SUFFICES ASSUME Init PROVE RelayInv
      OBVIOUS
    <2>1. /\ session = [k \in Conns |-> "new"] /\ link = [l \in Links |-> Blank]
          /\ content = [p \in Pipes |-> <<>>] /\ idle = {} /\ process = "up"
      BY DEF Init
    <2>2. TypeOK
      <3>1. link \in [Links -> LinkRecord]
        BY <2>1, BlankFacts
      <3>2. content \in [Pipes -> Seq(Unit)]
        BY <2>1
      <3> QED
        BY <2>1, <3>1, <3>2 DEF TypeOK, Unit
    <2>3. PipesInv
      BY <2>1, BlankFacts DEF PipesInv, Unused
    <2>4. \A l \in Links : LinkOK(l)
      BY <2>1, LinkFacts DEF LinkOK
    <2> QED
      BY <2>2, <2>3, <2>4 DEF RelayInv
  <1>2. RelayInv /\ [Next]_vars => RelayInv'
    BY RelayStep
  <1> QED
    BY <1>1, <1>2, PTL DEF Spec
-----------------------------------------------------------------------------
(***************************************************************************)
(* The theorems.                                                           *)
(***************************************************************************)

\* The links, their subscriptions, pipes and sizes always have their type: in
\* particular no Splice counts more than a pipe holds, however often it is
\* filled and emptied in part.
THEOREM TypeCorrect == Spec => []TypeOK
  <1>1. RelayInv => TypeOK
    BY DEF RelayInv
  <1> QED
    BY <1>1, AlwaysRelay, PTL

\* With any number of sessions that take pipes from the PipeStock and give them
\* back, by whatever handler: no pipe is in two splices or in a Splice and in
\* the stock, and what is in the stock is empty.
THEOREM PipesNotShared == Spec => []PipesExclusive
  <1>1. RelayInv => PipesExclusive
    <2> SUFFICES ASSUME RelayInv PROVE PipesExclusive
      OBVIOUS
    <2>1. PipesInv /\ idle \subseteq Pipes
      BY DEF RelayInv, TypeOK
    <2>2. idle \cap InUse = {}
      BY <2>1 DEF PipesInv, Unused, InUse
    <2>3. \A p \in idle : content[p] = <<>>
      BY <2>1 DEF PipesInv
    <2> QED
      BY <2>1, <2>2, <2>3 DEF PipesExclusive, PipesInv
  <1> QED
    BY <1>1, AlwaysRelay, PTL

\* The assertions of Splice::SendTo and of the PIPE_FULL branches hold for any
\* sizes of pipes, windows and transfers: WRITE is scheduled exactly while the
\* Splice holds data, and READ does not fire before that is gone.
THEOREM ReadsOnlyWhenEmpty == Spec => []ReadOnlyWhenEmpty
  <1>1. RelayInv => ReadOnlyWhenEmpty
    <2> SUFFICES ASSUME RelayInv, NEW l \in Links, IsOpen(l)
                 PROVE  /\ link[l].write <=> link[l].size > 0
                        /\ link[l].size > 0 => ~link[l].read /\ link[l].pipe # NoPipe
                        /\ link[l].size = (IF link[l].pipe = NoPipe THEN 0
                                           ELSE Len(content[link[l].pipe]))
      BY DEF ReadOnlyWhenEmpty
    <2>1. OpenOK(l, link[l], Holds(l))
      BY DEF RelayInv, LinkOK, IsOpen
    <2>2. link[l].size = (IF link[l].pipe = NoPipe THEN 0
                          ELSE Len(content[link[l].pipe]))
      BY <2>1 DEF OpenOK, Carries, Holds
    <2> QED
      BY <2>1, <2>2 DEF OpenOK
  <1> QED
    BY <1>1, AlwaysRelay, PTL

\* The data of a sequence that is in order, as Channel writes it.
LEMMA InOrderIs ==
  ASSUME NEW l \in Links, NEW s \in Seq(Unit), InOrder(l, 0, s)
  PROVE  s = [i \in 1..Len(s) |-> <<l, i>>]
  <1>1. s \in [1..Len(s) -> Unit]
    BY LenProperties
  <1>2. ASSUME NEW i \in 1..Len(s) PROVE s[i] = <<l, i>>
    <2>1. 0 + i = i
      BY SMT
    <2> QED
      BY <2>1 DEF InOrder
  <1> QED
    BY <1>1, <1>2

\* What was delivered, as a predicate of one link.
Prefix(l) ==
    /\ link[l].delivered \in Seq(Unit) /\ InOrder(l, 0, link[l].delivered)
    /\ Len(link[l].delivered) + link[l].size = link[l].received
    /\ link[l].received <= link[l].sent
    /\ link[l].received \in Nat /\ link[l].sent \in Nat /\ link[l].size \in Nat

\* Of any link: what was delivered is what Channel says.
LEMMA Delivered ==
  ASSUME RelayInv, NEW l \in Links
  PROVE  Prefix(l) /\ Len(link[l].delivered) \in Nat
  <1>1. /\ link[l] \in LinkRecord /\ LinkOK(l) /\ session[l[1]] \in {"new", "open", "closed"}
        /\ link[l].fin \in BOOLEAN
    BY LinkFacts DEF RelayInv, TypeOK, LinkRecord
  <1>2. \E data : Carries(l, link[l], data)
    <2>1. CASE session[l[1]] = "open"
      BY <1>1, <2>1 DEF LinkOK, OpenOK
    <2>2. CASE session[l[1]] # "open"
      <3>1. link[l] = Blank \/ Carries(l, link[l], <<>>)
        BY <1>1, <2>2 DEF LinkOK, ShutOK
      <3> QED
        BY <3>1, BlankFacts
    <2> QED
      BY <2>1, <2>2
  <1>3. link[l].delivered \in Seq(Unit)
    BY <1>1 DEF LinkRecord, Unit
  <1> QED
    BY <1>1, <1>2, <1>3, LenProperties, SizeAssumption DEF Prefix, Carries, LinkRecord

\* Each socket receives exactly a prefix of what the peer of its own Connection
\* sent, in order, with nothing of anybody else, although the pipes are shared
\* one after another by all sessions.
THEOREM NothingCrosses == Spec => []NoCrossTalk
  <1>1. RelayInv => NoCrossTalk
    <2> SUFFICES ASSUME RelayInv, NEW l \in Links
                 PROVE  /\ Len(link[l].delivered) + link[l].size <= link[l].received
                        /\ \A i \in DOMAIN link[l].delivered : link[l].delivered[i] = <<l, i>>
      BY DEF NoCrossTalk
    <2>1. /\ link[l].delivered \in Seq(Unit) /\ InOrder(l, 0, link[l].delivered)
          /\ Len(link[l].delivered) + link[l].size = link[l].received
          /\ link[l].received \in Nat
      BY Delivered DEF Prefix
    <2>2. Len(link[l].delivered) + link[l].size <= link[l].received
      BY <2>1, SMT
    <2>3. link[l].delivered = [i \in 1..Len(link[l].delivered) |-> <<l, i>>]
      BY <2>1, InOrderIs
    <2> DEFINE s == link[l].delivered
               n == Len(s)
    <2>4. s = [i \in 1..n |-> <<l, i>>]
      BY <2>3
    <2> HIDE DEF n, s
    <2>5. \A i \in DOMAIN s : s[i] = <<l, i>>
      BY <2>4
    <2> QED
      BY <2>2, <2>5 DEF s
  <1> QED
    BY <1>1, AlwaysRelay, PTL

-----------------------------------------------------------------------------
(***************************************************************************)
(* Relay implements Channel.                                               *)
(***************************************************************************)

\* The refinement mapping.
SentOf == [l \in Links |-> link[l].sent]
GotOf == [l \in Links |-> link[l].delivered]
CompleteOf == {l \in Links : link[l].fin}

\* What a step may do to the channels.
ChannelStep ==
    \/ UNCHANGED <<session, SentOf, GotOf, CompleteOf>>
    \/ Abstract!Next

\* The same after a step.
LEMMA DeliveredNext == RelayInv' => (\A l \in Links : Prefix(l))'
  <1>1. RelayInv => \A l \in Links : Prefix(l)
    BY Delivered
  <1> QED
    BY <1>1, PTL

\* A link whose receiver gets more: the units that come out are the next ones.
LEMMA ForwardsRefined ==
  ASSUME RelayInv, RelayInv', NEW l \in Links, Forwards(l)
  PROVE  ChannelStep
  <1>1. PICK lk \in LinkRecord :
           /\ link' = [link EXCEPT ![l] = lk]
           /\ lk.sent = link[l].sent /\ lk.fin = FALSE
           /\ Len(lk.delivered) >= Len(link[l].delivered)
    BY DEF Forwards
  <1>2. link \in [Links -> LinkRecord] /\ session[l[1]] = "open" /\ session' = session
    BY DEF RelayInv, TypeOK, Forwards, IsOpen
  <1>3. /\ link'[l] = lk
        /\ \A a \in Links \ {l} : link'[a] = link[a]
    BY <1>1, <1>2
  <1>4. link[l].fin = FALSE
    BY <1>2 DEF RelayInv, LinkOK, OpenOK, LinkRecord
  <1>5. SentOf' = SentOf /\ CompleteOf' = CompleteOf
    BY <1>1, <1>3, <1>4 DEF SentOf, CompleteOf
  <1> DEFINE n == Len(lk.delivered)
             o == Len(link[l].delivered)
  <1>6. /\ lk.delivered = [i \in 1..n |-> <<l, i>>]
        /\ n \in Nat /\ n <= link[l].sent
    <2>1. /\ lk.delivered \in Seq(Unit) /\ InOrder(l, 0, lk.delivered)
          /\ Len(lk.delivered) + lk.size = lk.received /\ lk.received <= lk.sent
          /\ lk.received \in Nat /\ lk.sent \in Nat /\ lk.size \in Nat
      <3>1. Prefix(l)'
        BY DeliveredNext
      <3> QED
        BY <1>3, <3>1 DEF Prefix
    <2>2. n \in Nat
      BY <2>1, LenProperties
    <2>3. n <= link[l].sent
      BY <1>1, <2>1, <2>2, SMT
    <2> QED
      BY <2>1, <2>2, <2>3, InOrderIs
  <1>7. /\ link[l].delivered = [i \in 1..o |-> <<l, i>>]
        /\ o \in Nat /\ link[l].sent \in Nat
    BY Delivered, InOrderIs DEF Prefix
  <1>8. n >= o
    BY <1>1
  <1>9. GotOf' = [GotOf EXCEPT ![l] = lk.delivered] /\ GotOf[l] = link[l].delivered
    BY <1>3 DEF GotOf
  <1> HIDE DEF n, o
  <1>10. CASE n = o
    <2>1. lk.delivered = link[l].delivered
      BY <1>6, <1>7, <1>10
    <2>2. GotOf' = GotOf
      BY <1>3, <2>1 DEF GotOf
    <2> QED
      BY <1>2, <1>5, <2>2 DEF ChannelStep
  <1>11. CASE n # o
    <2>1. n \in (o + 1)..link[l].sent
      BY <1>6, <1>7, <1>8, <1>11, SMT
    <2>2. n \in (Len(GotOf[l]) + 1)..SentOf[l]
      BY <1>9, <2>1 DEF o, SentOf
    <2>3. GotOf' = [GotOf EXCEPT ![l] = [i \in 1..n |-> <<l, i>>]]
      BY <1>6, <1>9
    <2>4. Abstract!Deliver(l)
      BY <1>2, <1>5, <2>2, <2>3 DEF Abstract!Deliver, SentOf, GotOf, CompleteOf
    <2> QED
      BY <2>4 DEF ChannelStep, Abstract!Next, Abstract!Links, Links
  <1> QED
    BY <1>10, <1>11

\* The end of a session: what is complete is remembered, the rest is cut off.
LEMMA EndsRefined ==
  ASSUME RelayInv, RelayInv', NEW k \in Conns, NEW fin, Ends(k, fin)
  PROVE  ChannelStep
  <1>1. /\ session[k] = "open" /\ session' = [session EXCEPT ![k] = "closed"]
        /\ fin \subseteq {l \in Links : l[1] = k /\ link[l].size = 0
                                         /\ link[l].received = link[l].sent}
    BY DEF Ends, CloseSession
  <1> DEFINE Ended(l) == [Blank EXCEPT !.sent = link[l].sent,
                                       !.received = link[l].received,
                                       !.delivered = link[l].delivered,
                                       !.fin = TRUE]
  <1>2. \A l \in Links : link'[l] = IF l[1] # k THEN link[l]
                                    ELSE IF l \in fin THEN Ended(l) ELSE Blank
    BY DEF Ends, CloseSession
  <1>3. \A l \in Links : /\ Ended(l).sent = link[l].sent /\ Ended(l).fin = TRUE
                         /\ Ended(l).delivered = link[l].delivered
    BY BlankFacts DEF LinkRecord
  <1> HIDE DEF Ended
  <1>4. \A l \in Links : l[1] = k => link[l].fin = FALSE
    BY <1>1 DEF RelayInv, TypeOK, LinkRecord, LinkOK, OpenOK
  <1>5. SentOf' = [l \in Links |-> IF l[1] = k /\ l \notin fin THEN 0 ELSE SentOf[l]]
    BY <1>2, <1>3, BlankFacts DEF SentOf
  <1>6. GotOf' = [l \in Links |-> IF l[1] = k /\ l \notin fin THEN <<>> ELSE GotOf[l]]
    BY <1>2, <1>3, BlankFacts DEF GotOf
  <1>7. CompleteOf' = CompleteOf \cup fin
    <2>1. \A l \in Links : link'[l].fin <=> link[l].fin \/ l \in fin
      BY <1>1, <1>2, <1>3, <1>4, BlankFacts
    <2> QED
      BY <1>1, <2>1 DEF CompleteOf
  <1>8. fin \subseteq {l \in {k} \X Dirs : Len(GotOf[l]) = SentOf[l]}
    <2>1. ASSUME NEW l \in fin PROVE l \in {k} \X Dirs /\ Len(GotOf[l]) = SentOf[l]
      <3>1. l \in Links /\ l[1] = k /\ link[l].size = 0 /\ link[l].received = link[l].sent
        BY <1>1
      <3>2. Len(link[l].delivered) = link[l].sent
        <4>1. /\ Len(link[l].delivered) + link[l].size = link[l].received
              /\ Len(link[l].delivered) \in Nat
          BY <3>1, Delivered DEF Prefix
        <4> QED
          BY <3>1, <4>1, SMT
      <3> QED
        BY <3>1, <3>2, LinkFacts DEF GotOf, SentOf
    <2> QED
      BY <2>1
  <1>9. Abstract!End(k, fin)
    BY <1>1, <1>5, <1>6, <1>7, <1>8
       DEF Abstract!End, Abstract!Links, Links, SentOf, GotOf, CompleteOf
  <1>10. fin \in SUBSET ({k} \X Dirs)
    BY <1>8
  <1> QED
    BY <1>9, <1>10 DEF ChannelStep, Abstract!Next

\* A step that changes at most a link's subscriptions, pipe, end or window.
LEMMA UnseenRefined ==
  ASSUME session' = session,
         \A l \in Links : /\ link'[l].sent = link[l].sent
                          /\ link'[l].delivered = link[l].delivered
                          /\ link'[l].fin = link[l].fin
  PROVE  ChannelStep
  <1>1. SentOf' = SentOf /\ GotOf' = GotOf
    BY DEF SentOf, GotOf
  <1>2. CompleteOf' = CompleteOf
    BY DEF CompleteOf
  <1> QED
    BY <1>1, <1>2 DEF ChannelStep

\* Every step of Relay that does not end the process is one of Channel.
LEMMA StepRefined ==
  ASSUME RelayInv, RelayInv', [Next]_vars, process' = "up"
  PROVE  ChannelStep
  <1>0. link \in [Links -> LinkRecord]
    BY DEF RelayInv, TypeOK
  <1>1. CASE UNCHANGED vars
    BY <1>1, UnseenRefined DEF vars
  <1>2. ASSUME NEW k \in Conns, Open(k) PROVE ChannelStep
    <2>1. /\ session[k] = "new" /\ session' = [session EXCEPT ![k] = "open"]
          /\ \A l \in Links : link'[l] = IF l[1] = k THEN [link[l] EXCEPT !.read = TRUE]
                                         ELSE link[l]
      BY <1>2 DEF Open
    <2>2. \A l \in Links : /\ link'[l].sent = link[l].sent
                           /\ link'[l].delivered = link[l].delivered
                           /\ link'[l].fin = link[l].fin
      BY <1>0, <2>1 DEF LinkRecord
    <2>3. SentOf' = SentOf /\ GotOf' = GotOf
      BY <2>2 DEF SentOf, GotOf
    <2>4. CompleteOf' = CompleteOf
      BY <2>2 DEF CompleteOf
    <2>5. Abstract!Open(k)
      BY <2>1, <2>3, <2>4 DEF Abstract!Open, SentOf, GotOf, CompleteOf
    <2> QED
      BY <2>5 DEF ChannelStep, Abstract!Next
  <1>3. ASSUME NEW l \in Links, PeerSend(l) PROVE ChannelStep
    <2> DEFINE lk == [link[l] EXCEPT !.sent = link[l].sent + 1]
    <2>1. session[l[1]] = "open" /\ session' = session /\ link' = [link EXCEPT ![l] = lk]
      BY <1>0, <1>3 DEF PeerSend, IsOpen
    <2>2. /\ lk.sent = link[l].sent + 1 /\ lk.delivered = link[l].delivered
          /\ lk.fin = link[l].fin
      BY <1>0 DEF LinkRecord
    <2> HIDE DEF lk
    <2>3. link'[l] = lk /\ \A a \in Links \ {l} : link'[a] = link[a]
      BY <1>0, <2>1
    <2>4. SentOf' = [SentOf EXCEPT ![l] = SentOf[l] + 1] /\ GotOf' = GotOf
      BY <2>2, <2>3 DEF SentOf, GotOf
    <2>5. CompleteOf' = CompleteOf
      BY <2>2, <2>3 DEF CompleteOf
    <2>6. Abstract!Send(l)
      BY <2>1, <2>4, <2>5 DEF Abstract!Send, SentOf, GotOf, CompleteOf
    <2> QED
      BY <2>6 DEF ChannelStep, Abstract!Next, Abstract!Links, Links
  <1>4. ASSUME NEW l \in Links, NEW lk, session' = session, link' = [link EXCEPT ![l] = lk],
               lk.sent = link[l].sent, lk.delivered = link[l].delivered,
               lk.fin = link[l].fin
        PROVE  ChannelStep
    BY <1>0, <1>4, UnseenRefined
  <1>5. ASSUME NEW l \in Links, PeerEof(l) PROVE ChannelStep
    <2> DEFINE lk == [link[l] EXCEPT !.eof = TRUE]
    <2>1. session' = session /\ link' = [link EXCEPT ![l] = lk]
      BY <1>0, <1>5 DEF PeerEof
    <2>2. lk.sent = link[l].sent /\ lk.delivered = link[l].delivered /\ lk.fin = link[l].fin
      BY <1>0 DEF LinkRecord
    <2> HIDE DEF lk
    <2> QED
      BY <1>4, <2>1, <2>2
  <1>6. ASSUME NEW l \in Links, PeerRead(l) PROVE ChannelStep
    <2> DEFINE lk == [link[l] EXCEPT !.unread = link[l].unread - 1]
    <2>1. session' = session /\ link' = [link EXCEPT ![l] = lk]
      BY <1>0, <1>6 DEF PeerRead
    <2>2. lk.sent = link[l].sent /\ lk.delivered = link[l].delivered /\ lk.fin = link[l].fin
      BY <1>0 DEF LinkRecord
    <2> HIDE DEF lk
    <2> QED
      BY <1>4, <2>1, <2>2
  <1>7. ASSUME NEW l \in Links, OnReadableSpurious(l) PROVE ChannelStep
    <2>1. PICK p : session' = session /\ link' = [link EXCEPT ![l].pipe = p]
      BY <1>7 DEF OnReadableSpurious
    <2> DEFINE lk == [link[l] EXCEPT !.pipe = p]
    <2>2. session' = session /\ link' = [link EXCEPT ![l] = lk]
      BY <1>0, <2>1
    <2>3. lk.sent = link[l].sent /\ lk.delivered = link[l].delivered /\ lk.fin = link[l].fin
      BY <1>0 DEF LinkRecord
    <2> HIDE DEF lk
    <2> QED
      BY <1>4, <2>2, <2>3
  <1>8. ASSUME NEW l \in Links, OnReadable(l) PROVE ChannelStep
    BY <1>8, OnReadableStep, ForwardsRefined
  <1>9. ASSUME NEW l \in Links, OnWritable(l) PROVE ChannelStep
    BY <1>9, OnWritableStep, ForwardsRefined
  <1>10. ASSUME NEW l \in Links, OnReadableSendFails(l) PROVE ChannelStep
    BY <1>10, SendFailsStep, EndsRefined, LinkFacts
  <1>11. ASSUME NEW l \in Links, OnReadableEof(l) PROVE ChannelStep
    BY <1>11, EofStep, EndsRefined, LinkFacts
  <1>12. ASSUME NEW k \in Conns, Abort(k) PROVE ChannelStep
    BY <1>12, AbortStep, EndsRefined
  <1>13. ASSUME NEW l \in Links, OnReadableNoPipe(l) PROVE ChannelStep
    BY <1>13 DEF OnReadableNoPipe
  <1> QED
    BY <1>1, <1>2, <1>3, <1>5, <1>6, <1>7, <1>8, <1>9, <1>10, <1>11, <1>12, <1>13 DEF Next

\* As long as the process lives, Relay implements Channel, for any number of
\* sessions, pipes and any sizes: each receiver gets the data of its own session
\* in order and without gaps, and an end of stream only after the last of it.
THEOREM ChannelRefined == Spec => ChannelImplemented
  <1>1. Init => Abstract!Init
    <2> SUFFICES ASSUME Init PROVE Abstract!Init
      OBVIOUS
    <2>1. link = [l \in Links |-> Blank]
      BY DEF Init
    <2>2. SentOf = [l \in Links |-> 0] /\ GotOf = [l \in Links |-> <<>>]
      BY <2>1, BlankFacts DEF SentOf, GotOf
    <2>3. CompleteOf = {}
      BY <2>1, BlankFacts DEF CompleteOf
    <2> QED
      BY <2>2, <2>3 DEF Init, Abstract!Init, Abstract!Links, Links, SentOf, GotOf, CompleteOf
  <1>2. RelayInv /\ RelayInv' /\ [Next]_vars
          => [process' = "up" => Abstract!Next]_(Abstract!channelVars)
    BY StepRefined DEF ChannelStep, Abstract!channelVars, SentOf, GotOf, CompleteOf
  <1> QED
    BY <1>1, <1>2, AlwaysRelay, PTL DEF Spec, ChannelImplemented
=============================================================================

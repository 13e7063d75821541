-------------------------- MODULE ConnectionProofs ---------------------------
(***************************************************************************)
(* Proofs about Connection, for any number of Connection objects and jobs. *)
(***************************************************************************)
EXTENDS Connection, FiniteSetTheorems, TLAPS

-----------------------------------------------------------------------------
(***************************************************************************)
(* What holds of one Connection object by itself.  HandlerAssumptions says *)
(* most of it; the rest is what the handlers of a login rely on: a deleted *)
(* object leaves nothing behind, one that waits for the rest of its login  *)
(* packets has no job, one that waits for a verdict has them complete, and *)
(* the one whose connect will end in SEND_PLAY_SERVER, where nobody may    *)
(* read from the client, has READ off before.                              *)
(***************************************************************************)

AcceptedStates == {"SERVER_LIST", "CONNECTING", "SEND_PLAY_SERVER", "READY"}

ConnOK(cn) ==
    /\ cn.state = "none" => cn = Gone
    /\ cn.state = "INITIAL" => cn.credentials = "nothing" /\ cn.cancel_ptr = NoJob
    /\ cn.state = "CHECK_CREDENTIALS" => cn.fill = Full
    /\ cn.state \in AcceptedStates => cn.fill = Full /\ cn.cancel_ptr = NoJob
    /\ cn.timeout => cn.state \in {"INITIAL", "SERVER_LIST"}
    /\ cn.connecting <=> cn.state = "CONNECTING"
    /\ cn.out <=> cn.state \in {"SEND_PLAY_SERVER", "READY"}
    /\ cn.in_read => cn.state \notin {"CHECK_CREDENTIALS", "SEND_PLAY_SERVER"}
    /\ cn.send_play_server =>
         \/ cn.state \in {"SEND_PLAY_SERVER", "READY"}
         \/ cn.state = "CONNECTING" /\ ~cn.in_read

GoodConn == {cn \in ConnRecord : ConnOK(cn)}

\* The two records that are written as a whole.
LEMMA GoneGood ==
  /\ Gone \in GoodConn /\ Constructed \in GoodConn
  /\ Gone.state = "none" /\ Gone.out = FALSE /\ Gone.credentials = "nothing"
  /\ Constructed.state = "INITIAL" /\ Constructed.out = FALSE
  /\ Constructed.credentials = "nothing"
  <1>1. /\ Gone.state = "none" /\ Gone.out = FALSE /\ Gone.credentials = "nothing"
        /\ Gone.timeout = FALSE /\ Gone.connecting = FALSE
        /\ Gone.in_read = FALSE /\ Gone.send_play_server = FALSE
    BY DEF Gone
  <1>2. Gone \in ConnRecord
    BY FullAssumption DEF Gone, ConnRecord, States
  <1>3. ConnOK(Gone)
    BY <1>1 DEF ConnOK, AcceptedStates
  <1>4. Constructed \in ConnRecord
    BY <1>2 DEF Constructed, ConnRecord, States
  <1>5. /\ Constructed.state = "INITIAL" /\ Constructed.out = FALSE
        /\ Constructed.credentials = "nothing" /\ Constructed.cancel_ptr = NoJob
        /\ Constructed.connecting = FALSE /\ Constructed.send_play_server = FALSE
    BY DEF Constructed, Gone
  <1>6. ConnOK(Constructed)
    BY <1>5 DEF ConnOK, AcceptedStates
  <1> QED
    BY <1>1, <1>2, <1>3, <1>4, <1>5, <1>6 DEF GoodConn

\* ReceiveLoginPackets: a part of the packets, or all of them and a job.
LEMMA LoginGood ==
  ASSUME NEW cn \in GoodConn, cn.state = "INITIAL"
  PROVE  /\ \A n \in 1..Full : cn.fill + n < Full =>
              [cn EXCEPT !.fill = @ + n] \in GoodConn
         /\ \A credentials \in {"good", "bad"} :
              LET received == LoginReceived(cn, credentials)
              IN  /\ received \in ConnRecord
                  /\ received.state = "CHECK_CREDENTIALS"
                  /\ received.credentials = credentials
                  /\ received \in GoodConn
                  /\ \A j \in Jobs : [received EXCEPT !.cancel_ptr = j] \in GoodConn
  <1>1. ASSUME NEW n \in 1..Full, cn.fill + n < Full
        PROVE  [cn EXCEPT !.fill = @ + n] \in GoodConn
    <2>1. cn.fill + n \in 0..Full
      BY <1>1, FullAssumption, SMT DEF GoodConn, ConnRecord
    <2> QED
      BY <2>1 DEF GoodConn, ConnOK, ConnRecord, States, AcceptedStates
  <1>2. ASSUME NEW credentials \in {"good", "bad"}
        PROVE  LET received == LoginReceived(cn, credentials)
               IN  /\ received \in ConnRecord
                   /\ received.state = "CHECK_CREDENTIALS"
                   /\ received.credentials = credentials
                   /\ received \in GoodConn
                   /\ \A j \in Jobs : [received EXCEPT !.cancel_ptr = j] \in GoodConn
    <2>1. Full \in 0..Full
      BY FullAssumption, SMT
    <2> QED
      BY <2>1 DEF GoodConn, ConnOK, ConnRecord, LoginReceived, States, AcceptedStates
  <1> QED
    BY <1>1, <1>2

\* OnCheckCredentials(true).
LEMMA AcceptedGood ==
  ASSUME NEW cn \in GoodConn, cn.state = "CHECK_CREDENTIALS"
  PROVE  /\ AcceptedConn(cn) \in GoodConn
         /\ AcceptedConn(cn).state \in {"SERVER_LIST", "CONNECTING"}
         /\ AcceptedConn(cn).credentials = cn.credentials
  BY DEF GoodConn, ConnOK, ConnRecord, AcceptedConn, SendServerList,
         ConnectToGameServer, States, AcceptedStates

\* ReceivePlayServer.
LEMMA ChosenGood ==
  ASSUME NEW cn \in GoodConn, cn.state = "SERVER_LIST"
  PROVE  /\ ServerChosen(cn) \in GoodConn
         /\ ServerChosen(cn).state = "CONNECTING"
         /\ ServerChosen(cn).credentials = cn.credentials
  BY DEF GoodConn, ConnOK, ConnRecord, ServerChosen, States, AcceptedStates

\* OnSocketConnectSuccess.
LEMMA LinkedGood ==
  ASSUME NEW cn \in GoodConn, cn.state = "CONNECTING"
  PROVE  /\ LinkedConn(cn) \in GoodConn
         /\ LinkedConn(cn).state \in {"SEND_PLAY_SERVER", "READY"}
         /\ LinkedConn(cn).credentials = cn.credentials
  BY DEF GoodConn, ConnOK, ConnRecord, LinkedConn, States, AcceptedStates

\* ReceiveServerList.
LEMMA ReadyGood ==
  ASSUME NEW cn \in GoodConn, cn.state = "SEND_PLAY_SERVER"
  PROVE  LET ready == [cn EXCEPT !.state = "READY", !.in_read = TRUE]
         IN  /\ ready \in GoodConn
             /\ ready.state = "READY"
             /\ ready.credentials = cn.credentials
  BY DEF GoodConn, ConnOK, ConnRecord, States, AcceptedStates

\* RelayBlocks.
LEMMA BlockedGood ==
  ASSUME NEW cn \in GoodConn, cn.state = "READY"
  PROVE  LET blocked == [cn EXCEPT !.in_read = FALSE]
         IN  /\ blocked \in GoodConn
             /\ blocked.state = "READY"
             /\ blocked.credentials = cn.credentials
  BY DEF GoodConn, ConnOK, ConnRecord, States, AcceptedStates

-----------------------------------------------------------------------------
(***************************************************************************)
(* Objects and jobs.  The invariant Objects joins what holds of each       *)
(* Connection with CallbackTargetAlive, which ties the jobs to them, and   *)
(* with what a worker leaves in a job.                                     *)
(***************************************************************************)

Verdicts == \A j \in Jobs :
    job[j].status = "done" => job[j].result = (job[j].credentials = "good")

Objects ==
    /\ conn \in [Conns -> GoodConn]
    /\ job \in [Jobs -> JobRecord]
    /\ Verdicts
    /\ CallbackTargetAlive

\* What CheckCredentialsJob::Cancel leaves behind never calls back.
LEMMA CanceledJob ==
  ASSUME NEW jb \in JobRecord, NEW r \in CancelOutcomes(jb),
         jb.status = "done" => jb.result = (jb.credentials = "good")
  PROVE  /\ r \in JobRecord
         /\ r.status = "done" => r.result = (r.credentials = "good")
         /\ r.status = "none" \/ r.canceled
  <1>1. /\ FreeJob \in JobRecord /\ FreeJob.status = "none"
    BY DEF FreeJob, JobRecord
  <1>2. CASE r = FreeJob
    BY <1>1, <1>2
  <1>3. CASE r = [jb EXCEPT !.canceled = TRUE]
    <2>1. r \in JobRecord /\ r.canceled = TRUE
      BY <1>3 DEF JobRecord
    <2>2. r.status = jb.status /\ r.result = jb.result /\ r.credentials = jb.credentials
      BY <1>3 DEF JobRecord
    <2> QED
      BY <2>1, <2>2
  <1>4. jb.status \in {"none", "waiting", "busy", "done"}
    BY DEF JobRecord
  <1>5. r = FreeJob \/ r = [jb EXCEPT !.canceled = TRUE]
    BY <1>4 DEF CancelOutcomes
  <1> QED
    BY <1>2, <1>3, <1>5

\* A Connection that does not wait for a verdict may be replaced by any good
\* one: no job calls back to it.
LEMMA MoveObjects ==
  ASSUME Objects, NEW k \in Conns, NEW cn \in GoodConn,
         conn[k].state # "CHECK_CREDENTIALS",
         conn' = [conn EXCEPT ![k] = cn], job' = job
  PROVE  Objects'
  <1>1. conn' \in [Conns -> GoodConn]
    BY DEF Objects
  <1>2. CallbackTargetAlive'
    BY DEF Objects, CallbackTargetAlive
  <1> QED
    BY <1>1, <1>2 DEF Objects, Verdicts

\* The job that is being delivered is gone before its Connection changes.
LEMMA DeliveredObjects ==
  ASSUME Objects, NEW j \in Jobs, NEW cn \in GoodConn,
         job[j].status # "none", ~job[j].canceled,
         job' = [job EXCEPT ![j] = FreeJob],
         conn' = [conn EXCEPT ![job[j].target] = cn]
  PROVE  Objects'
  <1>1. /\ FreeJob \in JobRecord /\ FreeJob.status = "none"
    BY DEF FreeJob, JobRecord
  <1>2. job[j].target \in Conns /\ conn[job[j].target].cancel_ptr = j
    BY DEF Objects, CallbackTargetAlive
  <1>3. conn' \in [Conns -> GoodConn] /\ job' \in [Jobs -> JobRecord]
    BY <1>1, <1>2 DEF Objects
  <1>4. Verdicts'
    BY <1>1 DEF Objects, Verdicts
  <1>5. CallbackTargetAlive'
    <2> SUFFICES ASSUME NEW i \in Jobs, job'[i].status # "none", ~job'[i].canceled
                 PROVE  /\ job'[i].target \in Conns
                        /\ conn'[job'[i].target].state = "CHECK_CREDENTIALS"
                        /\ conn'[job'[i].target].cancel_ptr = i
                        /\ conn'[job'[i].target].credentials = job'[i].credentials
      BY DEF CallbackTargetAlive
    <2>1. i # j /\ job'[i] = job[i]
      BY <1>1 DEF Objects
    <2>2. job[i].target \in Conns /\ conn[job[i].target].cancel_ptr = i
      BY <2>1 DEF Objects, CallbackTargetAlive
    <2>3. job[i].target # job[j].target
      BY <1>2, <2>1, <2>2
    <2> QED
      BY <2>1, <2>2, <2>3 DEF Objects, CallbackTargetAlive
  <1> QED
    BY <1>3, <1>4, <1>5 DEF Objects

\* ~Connection cancels the one job that could call back.
LEMMA DestroyedObjects ==
  ASSUME Objects, NEW k \in Conns,
         Cancel(conn[k].cancel_ptr), conn' = [conn EXCEPT ![k] = Gone]
  PROVE  Objects'
  <1>1. conn' \in [Conns -> GoodConn]
    BY GoneGood DEF Objects
  <1>2. CASE conn[k].cancel_ptr = NoJob
    <2>1. job' = job
      BY <1>2 DEF Cancel
    <2>2. CallbackTargetAlive'
      BY <1>2, <2>1, NoJobAssumption DEF Objects, CallbackTargetAlive
    <2> QED
      BY <1>1, <2>1, <2>2 DEF Objects, Verdicts
  <1>3. CASE conn[k].cancel_ptr # NoJob
    <2> DEFINE i == conn[k].cancel_ptr
    <2>1. i \in Jobs
      BY <1>3 DEF Objects, GoodConn, ConnRecord
    <2>2. PICK r \in CancelOutcomes(job[i]) : job' = [job EXCEPT ![i] = r]
      BY <1>3 DEF Cancel
    <2>3. /\ r \in JobRecord
          /\ r.status = "done" => r.result = (r.credentials = "good")
          /\ r.status = "none" \/ r.canceled
      BY <2>1, CanceledJob DEF Objects, Verdicts
    <2> HIDE DEF i
    <2>4. job' \in [Jobs -> JobRecord] /\ Verdicts'
      BY <2>1, <2>2, <2>3 DEF Objects, Verdicts
    <2>5. CallbackTargetAlive'
      <3> SUFFICES ASSUME NEW j \in Jobs, job'[j].status # "none", ~job'[j].canceled
                   PROVE  /\ job'[j].target \in Conns
                          /\ conn'[job'[j].target].state = "CHECK_CREDENTIALS"
                          /\ conn'[job'[j].target].cancel_ptr = j
                          /\ conn'[job'[j].target].credentials = job'[j].credentials
        BY DEF CallbackTargetAlive
      <3>1. j # i /\ job'[j] = job[j]
        BY <2>1, <2>2, <2>3 DEF Objects
      <3>2. job[j].target \in Conns /\ conn[job[j].target].cancel_ptr = j
        BY <3>1 DEF Objects, CallbackTargetAlive
      <3>3. job[j].target # k
        BY <3>1, <3>2 DEF i
      <3> QED
        BY <3>1, <3>2, <3>3 DEF Objects, CallbackTargetAlive
    <2> QED
      BY <1>1, <2>4, <2>5 DEF Objects
  <1> QED
    BY <1>2, <1>3

-----------------------------------------------------------------------------
(***************************************************************************)
(* What a step does to a Connection and to the books, whatever handler it  *)
(* is: it starts, ends, moves within the login or the accepted phase, is   *)
(* accepted or gets its outgoing socket; or nothing of that happens, or it *)
(* is the shutdown.  The properties below follow from this.                *)
(***************************************************************************)

\* Cost and counters of the ways to end in a given state.
Fates(state) ==
    CASE state = "INITIAL" ->
           {<<0, <<>>>>, <<MalformedLoginCost, <<"malformed_logins">>>>,
            <<BadUsernameCost, <<"malformed_logins">>>>, <<DatabaseErrorCost, <<>>>>,
            <<InitialHangupCost, <<>>>>, <<TimeoutCost, <<>>>>,
            <<AcceptedLoginCost, <<"accepted_logins">>>>}
      [] state = "CHECK_CREDENTIALS" ->
           {<<0, <<>>>>, <<RejectedLoginCost, <<"rejected_logins">>>>,
            <<AcceptedLoginCost, <<"accepted_logins">>>>}
      [] state = "SERVER_LIST" -> {<<0, <<>>>>, <<TimeoutCost, <<>>>>}
      [] state = "CONNECTING" -> {<<0, <<>>>>, <<0, <<"server_connections_failed">>>>}
      [] OTHER -> {<<0, <<>>>>, <<ServerDeadCost, <<>>>>}

Ends(k) ==
    /\ conn[k].state # "none"
    /\ \E fate \in Fates(conn[k].state) : Book(k, fate[1], fate[2])
    /\ Delete(k)
    /\ UNCHANGED config

Moves(k) ==
    /\ \E cn \in GoodConn :
         /\ conn' = [conn EXCEPT ![k] = cn]
         /\ \/ /\ conn[k].state = "INITIAL" /\ cn.state = "INITIAL"
               /\ cn.credentials = conn[k].credentials
            \/ /\ conn[k].state = "INITIAL" /\ cn.state = "CHECK_CREDENTIALS"
               /\ cn.credentials \in {"good", "bad"}
            \/ /\ conn[k].state = "SERVER_LIST" /\ cn.state = "CONNECTING"
               /\ cn.credentials = conn[k].credentials
            \/ /\ conn[k].state \in {"SEND_PLAY_SERVER", "READY"} /\ cn.state = "READY"
               /\ cn.credentials = conn[k].credentials
    /\ UNCHANGED <<books, gauges, config>>

IsAccepted(k) ==
    /\ \E cn \in GoodConn :
         /\ conn' = [conn EXCEPT ![k] = cn]
         /\ conn[k].state \in {"INITIAL", "CHECK_CREDENTIALS"}
         /\ cn.state \in {"SERVER_LIST", "CONNECTING"}
         /\ cn.credentials \in {"good", "bad"}
         /\ conn[k].credentials \in {"nothing", cn.credentials}
         /\ database => cn.credentials = "good"
    /\ Book(k, AcceptedLoginCost, <<"accepted_logins">>)
    /\ UNCHANGED <<gauges, config>>

IsLinked(k) ==
    /\ \E cn \in GoodConn :
         /\ conn' = [conn EXCEPT ![k] = cn]
         /\ conn[k].state = "CONNECTING"
         /\ cn.state \in {"SEND_PLAY_SERVER", "READY"}
         /\ cn.credentials = conn[k].credentials
    /\ Book(k, 0, <<"server_connections_established">>)
    /\ server_connections' = server_connections + 1
    /\ UNCHANGED <<client_connections, config>>

Kind ==
    \/ \E k \in Conns : NewConnection(k)
    \/ \E k \in Conns : Ends(k)
    \/ \E k \in Conns : Moves(k)
    \/ \E k \in Conns : IsAccepted(k)
    \/ \E k \in Conns : IsLinked(k)
    \/ UNCHANGED <<conn, books, gauges, config>>
    \/ OnShutdown

\* A handler that destroys its Connection for one of the fates of its state.
LEMMA DestroyStep ==
  ASSUME Objects, NEW k \in Conns, conn[k].state # "none",
         NEW cost, NEW counters, <<cost, counters>> \in Fates(conn[k].state),
         Destroy(k, cost, counters), UNCHANGED config
  PROVE  Objects' /\ Ends(k)
  <1>1. Objects'
    BY DestroyedObjects DEF Destroy, Delete
  <1>2. \E fate \in Fates(conn[k].state) : Book(k, fate[1], fate[2])
    BY DEF Destroy
  <1> QED
    BY <1>1, <1>2 DEF Destroy, Ends

\* Every handler of a Connection.
LEMMA ConnectionStepKind ==
  ASSUME Objects, NEW k \in Conns, ConnectionStep(k)
  PROVE  Objects' /\ Kind
  <1>a. conn[k] \in GoodConn
    BY DEF Objects
  <1>b. ASSUME NEW cost, NEW counters, <<cost, counters>> \in Fates(conn[k].state),
               conn[k].state # "none",
               Destroy(k, cost, counters), UNCHANGED <<config, running>>
        PROVE  Objects' /\ Kind
    BY <1>b, DestroyStep DEF Kind
  <1>c. <<0, <<>>>> \in Fates(conn[k].state)
    BY DEF Fates
  <1>1. CASE NewConnection(k)
    BY <1>1, GoneGood, MoveObjects DEF NewConnection, Kind
  <1>2. CASE OnIncomingDead(k)
    <2>1. <<InitialHangupCost, <<>>>> \in Fates("INITIAL")
      BY DEF Fates
    <2> QED
      BY <1>2, <1>b, <1>c, <2>1 DEF OnIncomingDead
  <1>3. CASE ReceiveLoginPacketsFail(k)
    <2>1. conn[k].state = "INITIAL"
      BY <1>3 DEF ReceiveLoginPacketsFail, Readable
    <2>2. ASSUME NEW failure \in LoginFailures, Destroy(k, failure[1], failure[2])
          PROVE  Objects' /\ Kind
      <3>1. <<failure[1], failure[2]>> \in Fates("INITIAL")
        BY DEF LoginFailures, Fates
      <3> QED
        BY <1>3, <1>b, <2>1, <2>2, <3>1 DEF ReceiveLoginPacketsFail
    <2>3. ASSUME Destroy(k, DatabaseErrorCost, <<>>) PROVE Objects' /\ Kind
      <3>1. <<DatabaseErrorCost, <<>>>> \in Fates("INITIAL")
        BY DEF Fates
      <3> QED
        BY <1>3, <1>b, <2>1, <2>3, <3>1 DEF ReceiveLoginPacketsFail
    <2> QED
      BY <1>3, <2>2, <2>3 DEF ReceiveLoginPacketsFail
  <1>4. CASE ReceiveLoginPacketsPartial(k)
    <2>1. conn[k].state = "INITIAL"
      BY <1>4 DEF ReceiveLoginPacketsPartial, Readable
    <2>2. PICK n \in 1..Full : conn[k].fill + n < Full /\ conn' = [conn EXCEPT ![k].fill = @ + n]
      BY <1>4 DEF ReceiveLoginPacketsPartial
    <2> DEFINE cn == [conn[k] EXCEPT !.fill = @ + n]
    <2>3. cn \in GoodConn
      BY <1>a, <2>1, <2>2, LoginGood
    <2>4. cn.state = "INITIAL" /\ cn.credentials = conn[k].credentials
      BY <1>a, <2>1 DEF GoodConn, ConnRecord
    <2>5. conn' = [conn EXCEPT ![k] = cn]
      BY <2>2
    <2> HIDE DEF cn
    <2>6. Moves(k)
      BY <1>4, <2>1, <2>3, <2>4, <2>5 DEF ReceiveLoginPacketsPartial, Moves
    <2> QED
      BY <1>4, <2>1, <2>3, <2>5, <2>6, MoveObjects DEF ReceiveLoginPacketsPartial, Kind
  <1>5. ASSUME NEW credentials \in {"good", "bad"}, ReceiveLoginPacketsUnchecked(k, credentials)
        PROVE  Objects' /\ Kind
    <2>1. conn[k].state = "INITIAL" /\ ~database
      BY <1>5 DEF ReceiveLoginPacketsUnchecked, Readable
    <2>2. ASSUME Destroy(k, AcceptedLoginCost, <<"accepted_logins">>) PROVE Objects' /\ Kind
      <3>1. <<AcceptedLoginCost, <<"accepted_logins">>>> \in Fates("INITIAL")
        BY DEF Fates
      <3> QED
        BY <1>5, <1>b, <2>1, <2>2, <3>1 DEF ReceiveLoginPacketsUnchecked
    <2>3. ASSUME conn' = [conn EXCEPT ![k] = AcceptedConn(LoginReceived(@, credentials))],
                 Book(k, AcceptedLoginCost, <<"accepted_logins">>), UNCHANGED <<job, gauges>>
          PROVE  Objects' /\ Kind
      <3> DEFINE cn == AcceptedConn(LoginReceived(conn[k], credentials))
      <3>1. /\ cn \in GoodConn
            /\ cn.state \in {"SERVER_LIST", "CONNECTING"}
            /\ cn.credentials = credentials
        BY <1>a, <2>1, LoginGood, AcceptedGood
      <3>2. conn' = [conn EXCEPT ![k] = cn]
        BY <2>3
      <3>3. conn[k].credentials = "nothing"
        BY <1>a, <2>1 DEF GoodConn, ConnOK
      <3> HIDE DEF cn
      <3>4. IsAccepted(k)
        BY <1>5, <2>1, <2>3, <3>1, <3>2, <3>3 DEF ReceiveLoginPacketsUnchecked, IsAccepted
      <3> QED
        BY <2>1, <2>3, <3>1, <3>2, <3>4, MoveObjects DEF Kind
    <2> QED
      BY <1>5, <2>2, <2>3 DEF ReceiveLoginPacketsUnchecked
  <1>6. ASSUME NEW credentials \in {"good", "bad"}, NEW j \in Jobs,
               ReceiveLoginPacketsChecked(k, credentials, j)
        PROVE  Objects' /\ Kind
    <2> DEFINE cn == [LoginReceived(conn[k], credentials) EXCEPT !.cancel_ptr = j]
               jb == [FreeJob EXCEPT !.status = "waiting", !.target = k,
                                     !.credentials = credentials]
    <2>1. conn[k].state = "INITIAL" /\ job[j].status = "none"
      BY <1>6 DEF ReceiveLoginPacketsChecked, Readable
    <2>2. cn \in GoodConn
      BY <1>a, <2>1, LoginGood
    <2>3. cn.state = "CHECK_CREDENTIALS" /\ cn.credentials = credentials /\ cn.cancel_ptr = j
      BY <1>a, <2>1, LoginGood DEF ConnRecord
    <2>4. conn' = [conn EXCEPT ![k] = cn] /\ job' = [job EXCEPT ![j] = jb]
      BY <1>6 DEF ReceiveLoginPacketsChecked
    <2>5. /\ jb \in JobRecord /\ jb.status = "waiting" /\ jb.target = k
          /\ jb.credentials = credentials
      BY DEF FreeJob, JobRecord
    <2> HIDE DEF cn, jb
    <2>6. conn' \in [Conns -> GoodConn] /\ job' \in [Jobs -> JobRecord] /\ Verdicts'
      BY <2>2, <2>4, <2>5 DEF Objects, Verdicts
    <2>7. CallbackTargetAlive'
      <3>1. \A i \in Jobs \ {j} : job'[i] = job[i]
        BY <2>4 DEF Objects
      <3>2. job'[j] = jb /\ conn'[k] = cn
        BY <2>4 DEF Objects
      <3>3. \A c \in Conns \ {k} : conn'[c] = conn[c]
        BY <2>4 DEF Objects
      <3> QED
        BY <2>1, <2>3, <2>5, <3>1, <3>2, <3>3 DEF Objects, CallbackTargetAlive
    <2>8. Moves(k)
      BY <1>6, <2>1, <2>2, <2>3, <2>4 DEF ReceiveLoginPacketsChecked, Moves
    <2> QED
      BY <2>6, <2>7, <2>8 DEF Objects, Kind
  <1>7. CASE ReceivePlayServer(k)
    <2>1. conn[k].state = "SERVER_LIST"
      BY <1>7 DEF ReceivePlayServer, Readable
    <2>2. ASSUME conn' = [conn EXCEPT ![k] = ServerChosen(@)], UNCHANGED <<job, books, gauges>>
          PROVE  Objects' /\ Kind
      <3> DEFINE cn == ServerChosen(conn[k])
      <3>1. cn \in GoodConn /\ cn.state = "CONNECTING" /\ cn.credentials = conn[k].credentials
        BY <1>a, <2>1, ChosenGood
      <3>2. conn' = [conn EXCEPT ![k] = cn]
        BY <2>2
      <3> HIDE DEF cn
      <3>3. Moves(k)
        BY <1>7, <2>1, <2>2, <3>1, <3>2 DEF ReceivePlayServer, Moves
      <3> QED
        BY <2>1, <2>2, <3>1, <3>2, <3>3, MoveObjects DEF Kind
    <2> QED
      BY <1>7, <1>b, <1>c, <2>1, <2>2 DEF ReceivePlayServer
  <1>8. CASE OnIncomingWhileConnecting(k)
    BY <1>8, <1>b, <1>c DEF OnIncomingWhileConnecting, Readable
  <1>9. ASSUME conn[k].connecting PROVE conn[k].state = "CONNECTING"
    BY <1>9, <1>a DEF GoodConn, ConnOK
  <1>10. CASE OnSocketConnectSuccess(k)
    <2>1. conn[k].state = "CONNECTING"
      BY <1>10, <1>9 DEF OnSocketConnectSuccess
    <2>2. ASSUME conn' = [conn EXCEPT ![k] = LinkedConn(@)],
                 server_connections' = server_connections + 1,
                 Book(k, 0, <<"server_connections_established">>),
                 UNCHANGED <<job, client_connections>>
          PROVE  Objects' /\ Kind
      <3> DEFINE cn == LinkedConn(conn[k])
      <3>1. /\ cn \in GoodConn
            /\ cn.state \in {"SEND_PLAY_SERVER", "READY"}
            /\ cn.credentials = conn[k].credentials
        BY <1>a, <2>1, LinkedGood
      <3>2. conn' = [conn EXCEPT ![k] = cn]
        BY <2>2
      <3> HIDE DEF cn
      <3>3. IsLinked(k)
        BY <1>10, <2>1, <2>2, <3>1, <3>2 DEF OnSocketConnectSuccess, IsLinked
      <3> QED
        BY <2>1, <2>2, <3>1, <3>2, <3>3, MoveObjects DEF Kind
    <2> QED
      BY <1>10, <1>b, <1>c, <2>1, <2>2 DEF OnSocketConnectSuccess
  <1>11. CASE OnSocketConnectError(k)
    <2>1. <<0, <<"server_connections_failed">>>> \in Fates("CONNECTING")
      BY DEF Fates
    <2> QED
      BY <1>11, <1>9, <1>b, <2>1 DEF OnSocketConnectError
  <1>12. CASE OnOutgoingDead(k)
    <2>1. conn[k].state \in {"SEND_PLAY_SERVER", "READY"}
      BY <1>12, <1>a DEF OnOutgoingDead, GoodConn, ConnOK
    <2>2. <<ServerDeadCost, <<>>>> \in Fates(conn[k].state)
      BY <2>1 DEF Fates
    <2> QED
      BY <1>12, <1>b, <2>1, <2>2 DEF OnOutgoingDead
  <1>13. CASE ReceiveServerList(k)
    <2>1. conn[k].state = "SEND_PLAY_SERVER"
      BY <1>13 DEF ReceiveServerList
    <2>2. ASSUME conn' = [conn EXCEPT ![k] = [@ EXCEPT !.state = "READY", !.in_read = TRUE]],
                 UNCHANGED <<job, books, gauges>>
          PROVE  Objects' /\ Kind
      <3> DEFINE cn == [conn[k] EXCEPT !.state = "READY", !.in_read = TRUE]
      <3>1. cn \in GoodConn /\ cn.state = "READY" /\ cn.credentials = conn[k].credentials
        BY <1>a, <2>1, ReadyGood
      <3>2. conn' = [conn EXCEPT ![k] = cn]
        BY <2>2
      <3> HIDE DEF cn
      <3>3. Moves(k)
        BY <1>13, <2>1, <2>2, <3>1, <3>2 DEF ReceiveServerList, Moves
      <3> QED
        BY <2>1, <2>2, <3>1, <3>2, <3>3, MoveObjects DEF Kind
    <2> QED
      BY <1>13, <1>b, <1>c, <2>1, <2>2 DEF ReceiveServerList
  <1>14. CASE RelayEnds(k)
    BY <1>14, <1>b, <1>c DEF RelayEnds
  <1>15. CASE OnTimeout(k)
    <2>1. conn[k].state \in {"INITIAL", "SERVER_LIST"}
      BY <1>15, <1>a DEF OnTimeout, GoodConn, ConnOK
    <2>2. <<TimeoutCost, <<>>>> \in Fates(conn[k].state)
      BY <2>1 DEF Fates
    <2> QED
      BY <1>15, <1>b, <2>1, <2>2 DEF OnTimeout
  <1>16. CASE RelayBlocks(k)
    <2>1. conn[k].state = "READY"
      BY <1>16 DEF RelayBlocks, Readable
    <2>2. UNCHANGED <<job, books, gauges, config>>
      BY <1>16 DEF RelayBlocks
    <2> DEFINE cn == [conn[k] EXCEPT !.in_read = FALSE]
    <2>3. cn \in GoodConn /\ cn.state = "READY" /\ cn.credentials = conn[k].credentials
      BY <1>a, <2>1, BlockedGood
    <2>4. conn' = [conn EXCEPT ![k] = cn]
      BY <1>16 DEF RelayBlocks
    <2> HIDE DEF cn
    <2>5. Moves(k)
      BY <2>1, <2>2, <2>3, <2>4 DEF Moves
    <2> QED
      BY <2>1, <2>2, <2>3, <2>4, <2>5, MoveObjects DEF Kind
  <1> QED
    BY <1>1, <1>2, <1>3, <1>4, <1>5, <1>6, <1>7, <1>8, <1>10, <1>11, <1>12,
       <1>13, <1>14, <1>15, <1>16 DEF ConnectionStep

\* Every step of a worker, and every delivery of its verdict.
LEMMA JobStepKind ==
  ASSUME Objects, NEW j \in Jobs, JobStep(j)
  PROVE  Objects' /\ Kind
  <1>a. job[j] \in JobRecord
    BY DEF Objects
  <1>b. ASSUME NEW jb \in JobRecord, job' = [job EXCEPT ![j] = jb],
               UNCHANGED <<conn, books, gauges, config>>,
               jb.status = "done" => jb.result = (jb.credentials = "good"),
               \/ jb.status = "none"
               \/ /\ job[j].status # "none" /\ jb.target = job[j].target
                  /\ jb.canceled = job[j].canceled /\ jb.credentials = job[j].credentials
        PROVE  Objects' /\ Kind
    <2>1. job' \in [Jobs -> JobRecord] /\ Verdicts'
      BY <1>b DEF Objects, Verdicts
    <2>2. CallbackTargetAlive'
      BY <1>b DEF Objects, CallbackTargetAlive
    <2> QED
      BY <1>b, <2>1, <2>2 DEF Objects, Kind
  <1>1. CASE JobStart(j)
    <2> DEFINE jb == [job[j] EXCEPT !.status = "busy"]
    <2>1. /\ jb \in JobRecord /\ jb.status = "busy" /\ jb.target = job[j].target
          /\ jb.canceled = job[j].canceled /\ jb.credentials = job[j].credentials
      BY <1>a DEF JobRecord
    <2>2. job' = [job EXCEPT ![j] = jb] /\ job[j].status # "none"
      BY <1>1 DEF JobStart
    <2> HIDE DEF jb
    <2> QED
      BY <1>1, <1>b, <2>1, <2>2 DEF JobStart
  <1>2. CASE JobFinish(j)
    <2> DEFINE good == job[j].credentials = "good"
               jb == [job[j] EXCEPT !.status = "done", !.result = good]
    <2>1. good \in BOOLEAN
      OBVIOUS
    <2>2. job' = [job EXCEPT ![j] = jb] /\ job[j].status # "none"
      BY <1>2 DEF JobFinish, Objects
    <2> HIDE DEF good
    <2>3. /\ jb \in JobRecord /\ jb.status = "done" /\ jb.target = job[j].target
          /\ jb.canceled = job[j].canceled /\ jb.credentials = job[j].credentials
          /\ jb.result = good
      BY <1>a, <2>1 DEF JobRecord
    <2> HIDE DEF jb
    <2>4. jb.result = (jb.credentials = "good")
      BY <2>3 DEF good
    <2> QED
      BY <1>2, <1>b, <2>2, <2>3, <2>4 DEF JobFinish
  <1>3. CASE JobDoneCanceled(j)
    <2>1. FreeJob \in JobRecord /\ FreeJob.status = "none"
      BY DEF FreeJob, JobRecord
    <2> QED
      BY <1>3, <1>b, <2>1 DEF JobDoneCanceled
  <1>4. ASSUME job[j].status = "done", ~job[j].canceled
        PROVE  /\ job[j].target \in Conns
               /\ conn[job[j].target] \in GoodConn
               /\ conn[job[j].target].state = "CHECK_CREDENTIALS"
               /\ conn[job[j].target].credentials = job[j].credentials
    BY <1>4 DEF Objects, CallbackTargetAlive
  <1>5. ASSUME NEW cost, NEW counters, <<cost, counters>> \in Fates("CHECK_CREDENTIALS"),
               job[j].status = "done", ~job[j].canceled,
               job' = [job EXCEPT ![j] = FreeJob],
               DestroyInCallback(job[j].target, cost, counters), UNCHANGED config
        PROVE  Objects' /\ Kind
    <2>1. Objects'
      BY <1>5, GoneGood, DeliveredObjects DEF DestroyInCallback, Delete
    <2>2. Ends(job[j].target)
      <3>1. \E fate \in Fates("CHECK_CREDENTIALS") : Book(job[j].target, fate[1], fate[2])
        BY <1>5 DEF DestroyInCallback
      <3> QED
        BY <1>4, <1>5, <3>1 DEF DestroyInCallback, Ends
    <2> QED
      BY <1>4, <1>5, <2>1, <2>2 DEF Kind
  <1>6. CASE JobDoneRejected(j)
    <2>1. <<RejectedLoginCost, <<"rejected_logins">>>> \in Fates("CHECK_CREDENTIALS")
      BY DEF Fates
    <2> QED
      BY <1>5, <1>6, <2>1 DEF JobDoneRejected
  <1>7. CASE JobDoneAccepted(j)
    <2> DEFINE k == job[j].target
    <2>1. /\ job[j].status = "done" /\ ~job[j].canceled
          /\ job' = [job EXCEPT ![j] = FreeJob] /\ UNCHANGED config
      BY <1>7 DEF JobDoneAccepted
    <2>2. job[j].credentials = "good"
      BY <1>7, <2>1 DEF JobDoneAccepted, Objects, Verdicts
    <2>3. ASSUME conn' = [conn EXCEPT ![k] = AcceptedConn(@)],
                 Book(k, AcceptedLoginCost, <<"accepted_logins">>), UNCHANGED gauges
          PROVE  Objects' /\ Kind
      <3> DEFINE cn == AcceptedConn(conn[k])
      <3>1. /\ cn \in GoodConn
            /\ cn.state \in {"SERVER_LIST", "CONNECTING"}
            /\ cn.credentials = "good" /\ conn[k].credentials = "good"
        BY <1>4, <2>1, <2>2, AcceptedGood
      <3>2. conn' = [conn EXCEPT ![k] = cn]
        BY <2>3
      <3> HIDE DEF cn
      <3>3. Objects'
        BY <2>1, <3>1, <3>2, DeliveredObjects
      <3>4. IsAccepted(k)
        BY <1>4, <2>1, <2>3, <3>1, <3>2 DEF IsAccepted
      <3> QED
        BY <1>4, <2>1, <3>3, <3>4 DEF Kind
    <2>4. ASSUME DestroyInCallback(k, AcceptedLoginCost, <<"accepted_logins">>)
          PROVE  Objects' /\ Kind
      <3>1. <<AcceptedLoginCost, <<"accepted_logins">>>> \in Fates("CHECK_CREDENTIALS")
        BY DEF Fates
      <3> QED
        BY <1>5, <2>1, <2>4, <3>1
    <2> QED
      BY <1>7, <2>3, <2>4 DEF JobDoneAccepted
  <1> QED
    BY <1>1, <1>2, <1>3, <1>6, <1>7 DEF JobStep

\* The shutdown deletes all Connections and cancels all jobs they wait for,
\* which are all jobs that would call back.
LEMMA ShutdownObjects ==
  ASSUME Objects, OnShutdown
  PROVE  Objects'
  <1>1. conn' = [k \in Conns |-> Gone]
    BY DEF OnShutdown
  <1>2. conn' \in [Conns -> GoodConn]
    BY <1>1, GoneGood
  <1>3. PICK outcome :
          /\ \A j \in Jobs : outcome[j] \in CancelOutcomes(job[j])
          /\ job' = [j \in Jobs |-> IF \E k \in Conns : conn[k].cancel_ptr = j
                                   THEN outcome[j] ELSE job[j]]
    BY DEF OnShutdown
  <1>4. ASSUME NEW j \in Jobs
        PROVE  /\ job'[j] \in JobRecord
               /\ job'[j].status = "done" =>
                     job'[j].result = (job'[j].credentials = "good")
               /\ job'[j].status = "none" \/ job'[j].canceled
    <2>1. CASE \E k \in Conns : conn[k].cancel_ptr = j
      <3>1. job'[j] = outcome[j]
        BY <1>3, <2>1
      <3> QED
        BY <1>3, <3>1, CanceledJob DEF Objects, Verdicts
    <2>2. CASE ~\E k \in Conns : conn[k].cancel_ptr = j
      <3>1. job'[j] = job[j]
        BY <1>3, <2>2
      <3> QED
        BY <2>2, <3>1 DEF Objects, Verdicts, CallbackTargetAlive
    <2> QED
      BY <2>1, <2>2
  <1>5. job' \in [Jobs -> JobRecord]
    BY <1>3, <1>4
  <1> QED
    BY <1>2, <1>4, <1>5 DEF Objects, Verdicts, CallbackTargetAlive

\* Every step keeps the objects sound and is of one of the kinds above.
LEMMA StepKind ==
  ASSUME Objects, [Next]_vars
  PROVE  Objects' /\ Kind
  <1>1. CASE UNCHANGED vars
    BY <1>1 DEF vars, books, gauges, config, Objects, Verdicts, CallbackTargetAlive, Kind
  <1> QED
    BY <1>1, ConnectionStepKind, JobStepKind, ShutdownObjects DEF Next, Kind

\* Initially there are no objects, and thus they are always sound.
LEMMA AlwaysObjects == Spec => []Objects
  <1>1. Init => Objects
    <2> SUFFICES ASSUME Init PROVE Objects
      OBVIOUS
    <2>1. FreeJob \in JobRecord /\ FreeJob.status = "none"
      BY DEF FreeJob, JobRecord
    <2> QED
      BY <2>1, GoneGood DEF Init, Objects, Verdicts, CallbackTargetAlive
  <1> QED
    BY <1>1, StepKind, PTL DEF Spec

\* A verdict reaches the Connection whose credentials it is about, or nobody:
\* never one that was deleted, nor a new one at its address, whatever order
\* hangups, timeouts, workers and the shutdown come in.
THEOREM CallbacksReachTheirTarget == Spec => []CallbackTargetAlive
  BY AlwaysObjects, PTL DEF Objects

\* What the handlers of Connection rely on without looking holds in every
\* state: timeouts, complete login packets, pending connects, sockets, and
\* READ off on the client socket where no handler would know what to do.
THEOREM HandlersMayAssume == Spec => []HandlerAssumptions
  <1>1. Objects => HandlerAssumptions
    BY DEF Objects, GoodConn, ConnOK, AcceptedStates, HandlerAssumptions, Accepted
  <1> QED
    BY <1>1, AlwaysObjects, PTL
=============================================================================

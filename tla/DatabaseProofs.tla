--------------------------- MODULE DatabaseProofs ----------------------------
(***************************************************************************)
(* Proofs about Database, for any number of jobs and handles and any       *)
(* bounds on the clock, the changes of the file and its size.              *)
(***************************************************************************)
EXTENDS Database, TLAPS

-----------------------------------------------------------------------------
(***************************************************************************)
(* Types.                                                                  *)
(***************************************************************************)

\* Closing, which ReloadBegins does to the old handle, keeps the types.
LEMMA HandlesType ==
  ASSUME TypeOK
  PROVE  HandlesWithoutDb \in [Handles -> Contents]
  BY DEF TypeOK, HandlesWithoutDb, Contents

\* The event loop thread at rest has a record of its type.
LEMMA IdleType == Idle \in MainRecord
  <1>1. 1 \in Sizes
    BY SizeAssumption, SMT DEF Sizes
  <1> QED
    BY <1>1 DEF Idle, MainRecord, Callers

\* The end of CheckCredentials, whether it calls back, queues a job or throws.
LEMMA AnswerType ==
  ASSUME TypeOK, NEW h, Answer(h)
  PROVE  /\ main' \in MainRecord
         /\ job' \in [Jobs -> JobRecord]
         /\ unchecked' \in BOOLEAN
         /\ process' \in {"up", "request_terminated", "worker_aborted"}
  <1>1. ASSUME NEW j \in Jobs
        PROVE  [job EXCEPT ![j].status = "waiting"] \in [Jobs -> JobRecord]
    BY DEF TypeOK, JobRecord
  <1> QED
    BY <1>1, IdleType DEF Answer, TypeOK

\* An exception leaves its caller, whoever that is, in a state of the right type.
LEMMA ThrowType ==
  ASSUME TypeOK, NEW caller, Throw(caller)
  PROVE  /\ main' \in MainRecord
         /\ job' \in [Jobs -> JobRecord]
         /\ unchecked' \in BOOLEAN
         /\ process' \in {"up", "request_terminated", "worker_aborted"}
  BY IdleType DEF Throw, TypeOK

\* The start has the right type, whatever the database file is like.
LEMMA TypeInit == Init => TypeOK
  <1>1. /\ FirstMtime \in Times /\ 0 \in Versions
        /\ 0 \in 0..FirstMtime /\ FirstMtime <= FirstMtime
    BY ClockAssumption, SMT DEF Times, Versions
  <1>2. NoJob \in JobRecord
    BY DEF NoJob, JobRecord
  <1> SUFFICES ASSUME Init PROVE TypeOK
    OBVIOUS
  <1>3. file \in FileRecord /\ file.mtime = FirstMtime
    BY <1>1 DEF Init, FileRecord
  <1>4. db \in Handles \cup {Null}
    BY DEF Init
  <1> QED
    BY <1>1, <1>2, <1>3, <1>4, IdleType DEF Init, TypeOK, Contents

\* Every step of the event loop, a worker, the clock or the administrator
\* keeps the types.
LEMMA TypeStep ==
  ASSUME TypeOK, [Next]_vars
  PROVE  TypeOK'
  <1> USE DEF world, loaded
  <1>t. /\ clock \in Nat /\ file.mtime \in Nat /\ file.mtime <= clock
        /\ last_mtime \in Nat /\ last_mtime <= clock /\ stat_at \in Nat /\ stat_at <= clock
    BY ClockAssumption, SMT DEF TypeOK, FileRecord, Times
  <1>1. CASE Tick
    <2>1. clock' = clock + 1 /\ clock' \in Times
      BY <1>1, ClockAssumption, SMT DEF Tick, TypeOK, Times
    <2>2. file.mtime <= clock' /\ last_mtime \in 0..clock' /\ stat_at \in 0..clock'
      BY <1>t, <2>1, SMT
    <2> QED
      BY <1>1, <2>1, <2>2 DEF Tick, TypeOK
  <1>2. ASSUME NEW status \in {"good", "bad", "missing"}, NEW size \in Sizes,
               ModifyFile(status, size)
        PROVE  TypeOK'
    <2>1. file.version + 1 \in Versions
      BY <1>2, ClockAssumption, SMT DEF ModifyFile, TypeOK, FileRecord, Versions
    <2>2. file' \in FileRecord
      BY <1>2, <2>1 DEF ModifyFile, TypeOK, FileRecord
    <2>3. file'.mtime <= clock'
      BY <1>2, <1>t, SMT DEF ModifyFile
    <2> QED
      BY <1>2, <2>2, <2>3 DEF ModifyFile, TypeOK
  <1>3. ASSUME NEW caller \in Callers, CheckCredentials(caller)
        PROVE  TypeOK'
    <2>1. CASE CheckWithoutReload(caller)
      BY <2>1, AnswerType DEF CheckWithoutReload, TypeOK
    <2>2. CASE StatFails(caller)
      BY <2>2, ThrowType DEF StatFails, TypeOK
    <2>3. CASE NotModified(caller)
      BY <2>3, AnswerType, ThrowType DEF NotModified, TypeOK
    <2>4. CASE ReloadBegins(caller)
      <3>1. file.mtime \in 0..clock /\ clock \in 0..clock
        BY <1>t, SMT
      <3>2. main' \in MainRecord
        BY <2>4 DEF ReloadBegins, MainRecord, TypeOK, FileRecord
      <3> QED
        BY <2>4, <3>1, <3>2, HandlesType DEF ReloadBegins, st_mtime, TypeOK
    <2> QED
      BY <1>3, <2>1, <2>2, <2>3, <2>4 DEF CheckCredentials
  <1>4. CASE ReloadFails
    BY <1>4, ThrowType DEF ReloadFails, TypeOK
  <1>5. CASE CopyRegularFile
    <2>1. CopiedContents \in Contents
      BY DEF CopiedContents, Contents, TypeOK, FileRecord
    <2>2. main' \in MainRecord
      BY <1>5 DEF CopyRegularFile, TypeOK, MainRecord
    <2> QED
      BY <1>5, <2>1, <2>2 DEF CopyRegularFile, TypeOK
  <1>6. CASE OpenCopy
    <2>1. PICK h \in Handles : handle' = [handle EXCEPT ![h] = copy] /\ db' = h /\ Answer(h)
      BY <1>6 DEF OpenCopy
    <2> QED
      BY <1>6, <2>1, AnswerType DEF OpenCopy, TypeOK
  <1>7. ASSUME NEW j \in Jobs, JobStart(j) PROVE TypeOK'
    <2>1. job' \in [Jobs -> JobRecord]
      BY <1>7 DEF JobStart, TypeOK, JobRecord
    <2> QED
      BY <1>7, <2>1 DEF JobStart, TypeOK
  <1>8. ASSUME NEW j \in Jobs, JobLoadsHandle(j) PROVE TypeOK'
    <2>1. job' \in [Jobs -> JobRecord]
      BY <1>8 DEF JobLoadsHandle, TypeOK, JobRecord
    <2> QED
      BY <1>8, <2>1 DEF JobLoadsHandle, TypeOK
  <1>9. ASSUME NEW j \in Jobs, JobGetAborts(j) PROVE TypeOK'
    BY <1>9 DEF JobGetAborts, TypeOK
  <1>10. ASSUME NEW j \in Jobs, JobGet(j) PROVE TypeOK'
    <2>1. job' \in [Jobs -> JobRecord]
      BY <1>10 DEF JobGet, NoJob, TypeOK, JobRecord
    <2> QED
      BY <1>10, <2>1 DEF JobGet, TypeOK
  <1>11. CASE UNCHANGED vars
    BY <1>11 DEF vars, TypeOK
  <1> QED
    BY <1>1, <1>2, <1>3, <1>4, <1>5, <1>6, <1>7, <1>8, <1>9, <1>10, <1>11 DEF Next

\* The types of Database are kept, whatever the workers and the administrator
\* do to a reload.
THEOREM TypeCorrect == Spec => []TypeOK
  BY TypeInit, TypeStep, PTL DEF Spec

-----------------------------------------------------------------------------
(***************************************************************************)
(* The handle.  OnlyHandleIsDb is not inductive: OpenCopy may store a new  *)
(* handle only because ReloadBegins has closed the old one.                *)
(***************************************************************************)

HandleInv ==
    /\ OnlyHandleIsDb
    /\ main.at # "idle" => db = Null

\* Both ends of CheckCredentials leave the event loop thread idle.
LEMMA AnswerIdle ==
  ASSUME NEW x, Answer(x) \/ Throw(x)
  PROVE  main'.at = "idle"
  BY DEF Answer, Throw, Idle

\* Every step that replaces db closes what it held.
LEMMA HandleStep ==
  ASSUME TypeOK, HandleInv, [Next]_vars
  PROVE  HandleInv'
  <1> USE DEF world, loaded, HandleInv, OnlyHandleIsDb
  <1>1. CASE Tick
    BY <1>1 DEF Tick
  <1>2. ASSUME NEW status \in {"good", "bad", "missing"}, NEW size \in Sizes,
               ModifyFile(status, size)
        PROVE  HandleInv'
    BY <1>2 DEF ModifyFile
  <1>3. ASSUME NEW caller \in Callers, CheckCredentials(caller)
        PROVE  HandleInv'
    <2>1. CASE CheckWithoutReload(caller)
      BY <2>1, AnswerIdle DEF CheckWithoutReload
    <2>2. CASE StatFails(caller)
      BY <2>2, AnswerIdle DEF StatFails
    <2>3. CASE NotModified(caller)
      BY <2>3, AnswerIdle DEF NotModified
    <2>4. CASE ReloadBegins(caller)
      <3>1. db' = Null /\ handle' = [h \in Handles |-> IF h = db THEN Closed ELSE handle[h]]
        BY <2>4 DEF ReloadBegins, HandlesWithoutDb
      <3>2. \A h \in Handles : handle'[h] = Closed
        BY <3>1
      <3> QED
        BY <3>1, <3>2, NullAssumption
    <2> QED
      BY <1>3, <2>1, <2>2, <2>3, <2>4 DEF CheckCredentials
  <1>4. CASE ReloadFails
    BY <1>4, AnswerIdle DEF ReloadFails
  <1>5. CASE CopyRegularFile
    BY <1>5 DEF CopyRegularFile
  <1>6. CASE OpenCopy
    <2>1. PICK h \in Handles : handle' = [handle EXCEPT ![h] = copy] /\ db' = h /\ Answer(h)
      BY <1>6 DEF OpenCopy
    <2>2. copy # Closed /\ db = Null
      BY <1>6 DEF OpenCopy
    <2>3. \A g \in Handles : handle[g] = Closed
      BY <2>2, NullAssumption
    <2>4. \A g \in Handles : handle'[g] # Closed <=> g = h
      BY <2>1, <2>2, <2>3 DEF TypeOK
    <2> QED
      BY <2>1, <2>4, AnswerIdle
  <1>7. ASSUME NEW j \in Jobs,
               JobStart(j) \/ JobLoadsHandle(j) \/ JobGetAborts(j) \/ JobGet(j)
        PROVE  HandleInv'
    BY <1>7 DEF JobStart, JobLoadsHandle, JobGetAborts, JobGet
  <1>8. CASE UNCHANGED vars
    BY <1>8 DEF vars
  <1> QED
    BY <1>1, <1>2, <1>3, <1>4, <1>5, <1>6, <1>7, <1>8 DEF Next

\* db is the only open handle at all times.
LEMMA AlwaysHandle == Spec => []HandleInv
  <1>1. Init => HandleInv
    BY SMT DEF Init, HandleInv, OnlyHandleIsDb, Idle, Closed
  <1> QED
    BY <1>1, HandleStep, TypeCorrect, PTL DEF Spec

\* However many reloads fail, succeed or overlap with lookups, Database::db
\* is the one and only open handle: none leaks, and a closed one is never
\* kept in db.
THEOREM NoHandleLeaks == Spec => []OnlyHandleIsDb
  BY AlwaysHandle, PTL DEF HandleInv

-----------------------------------------------------------------------------
(***************************************************************************)
(* Nobody is accepted unchecked.  CheckCredentials looks at db only, so    *)
(* the invariant says when db may be null: while a reload is on its way,   *)
(* after a failed one, whose error every request then meets, and before    *)
(* the first.  The last case is told from the others by last_mtime = 0,    *)
(* which is why the file must be younger than the epoch.                   *)
(***************************************************************************)

LoadedInv ==
    /\ file.mtime > 0 /\ clock > 0
    /\ mode = "static" => db # Null
    /\ main.at # "idle" => mode = "auto_reload" /\ last_mtime > 0
    /\ (mode = "auto_reload" /\ main.at = "idle" /\ last_mtime > 0 /\ ~last_reload_error)
          => db # Null

CheckedInv == LoadedInv /\ CheckedWhenConfigured

\* Answer accepts without a check only if there is no handle.
LEMMA AnswerChecked ==
  ASSUME NEW h, Answer(h), h # Null
  PROVE  unchecked' = unchecked /\ main'.at = "idle"
  BY DEF Answer, Idle

\* An exception lets nobody in.
LEMMA ThrowChecked ==
  ASSUME NEW caller, Throw(caller)
  PROVE  unchecked' = unchecked /\ main'.at = "idle"
  BY DEF Throw, Idle

\* Every step leaves an error or a database behind where one is configured.
LEMMA CheckedStep ==
  ASSUME TypeOK, CheckedInv, [Next]_vars
  PROVE  CheckedInv'
  <1> USE DEF world, loaded, CheckedInv, LoadedInv, CheckedWhenConfigured
  <1>t. /\ clock \in Nat /\ file.mtime \in Nat /\ last_mtime \in Nat
    BY ClockAssumption, SMT DEF TypeOK, FileRecord, Times
  <1>1. CASE Tick
    <2>1. clock' > 0
      BY <1>1, <1>t, SMT DEF Tick
    <2> QED
      BY <1>1, <2>1 DEF Tick
  <1>2. ASSUME NEW status \in {"good", "bad", "missing"}, NEW size \in Sizes,
               ModifyFile(status, size)
        PROVE  CheckedInv'
    <2>1. file'.mtime = clock
      BY <1>2 DEF ModifyFile
    <2> QED
      BY <1>2, <2>1 DEF ModifyFile
  <1>3. ASSUME NEW caller \in Callers, CheckCredentials(caller)
        PROVE  CheckedInv'
    <2>0. main.at = "idle"
      BY <1>3 DEF CheckCredentials
    <2>1. CASE CheckWithoutReload(caller)
      <3>1. CASE mode = "static"
        BY <2>1, <3>1, AnswerChecked DEF CheckWithoutReload
      <3>2. CASE mode = "none"
        <4>1. main'.at = "idle"
          BY <2>1, AnswerIdle DEF CheckWithoutReload
        <4> QED
          BY <2>1, <3>2, <4>1 DEF CheckWithoutReload
      <3> QED
        BY <2>1, <3>1, <3>2 DEF CheckWithoutReload, TypeOK
    <2>2. CASE StatFails(caller)
      BY <2>0, <2>2, ThrowChecked DEF StatFails
    <2>3. CASE NotModified(caller)
      <3>1. last_mtime > 0
        BY <2>3 DEF NotModified, st_mtime
      <3>2. CASE last_reload_error
        BY <2>0, <2>3, <3>1, <3>2, ThrowChecked DEF NotModified, RethrowsError
      <3>3. CASE ~last_reload_error
        <4>1. db # Null
          BY <2>0, <2>3, <3>1, <3>3 DEF NotModified
        <4> QED
          BY <2>0, <2>3, <3>3, <4>1, AnswerChecked DEF NotModified, RethrowsError
      <3> QED
        BY <3>2, <3>3
    <2>4. CASE ReloadBegins(caller)
      BY <2>4 DEF ReloadBegins, st_mtime
    <2> QED
      BY <1>3, <2>1, <2>2, <2>3, <2>4 DEF CheckCredentials
  <1>4. CASE ReloadFails
    BY <1>4, ThrowChecked DEF ReloadFails
  <1>5. CASE CopyRegularFile
    <2>1. main'.at = "copied"
      BY <1>5 DEF CopyRegularFile, TypeOK, MainRecord
    <2> QED
      BY <1>5, <2>1 DEF CopyRegularFile
  <1>6. CASE OpenCopy
    <2>1. PICK h \in Handles : db' = h /\ Answer(h)
      BY <1>6 DEF OpenCopy
    <2> QED
      BY <1>6, <2>1, NullAssumption, AnswerChecked DEF OpenCopy
  <1>7. ASSUME NEW j \in Jobs,
               JobStart(j) \/ JobLoadsHandle(j) \/ JobGetAborts(j) \/ JobGet(j)
        PROVE  CheckedInv'
    BY <1>7 DEF JobStart, JobLoadsHandle, JobGetAborts, JobGet
  <1>8. CASE UNCHANGED vars
    BY <1>8 DEF vars
  <1> QED
    BY <1>1, <1>2, <1>3, <1>4, <1>5, <1>6, <1>7, <1>8 DEF Next

\* With a user database whose file is younger than the epoch, no login or
\* knock is ever accepted without a check: not before the first reload, not
\* while one is failing and not on the requests after that.
THEOREM AlwaysChecked == FirstMtime > 0 => (Spec => []CheckedWhenConfigured)
  <1> SUFFICES ASSUME FirstMtime > 0 PROVE Spec => []CheckedWhenConfigured
    OBVIOUS
  <1>1. Init => CheckedInv
    <2> SUFFICES ASSUME Init PROVE CheckedInv
      OBVIOUS
    <2>1. file.mtime > 0 /\ clock > 0
      BY DEF Init
    <2>2. mode = "static" => db # Null
      BY NullAssumption DEF Init
    <2>3. main.at = "idle" /\ ~(last_mtime > 0) /\ unchecked = FALSE
      BY SMT DEF Init, Idle
    <2> QED
      BY <2>1, <2>2, <2>3 DEF CheckedInv, LoadedInv, CheckedWhenConfigured
  <1>2. CheckedInv => CheckedWhenConfigured
    BY DEF CheckedInv
  <1> QED
    BY <1>1, <1>2, CheckedStep, TypeCorrect, PTL DEF Spec

-----------------------------------------------------------------------------
(***************************************************************************)
(* Staleness.  From the stat() on, the file is as it was then unless its   *)
(* modification time tells: a change in the second of the stat() or later  *)
(* cannot have the modification time that the stat() saw in an earlier     *)
(* one.  So the size is right when the file is copied, and the copy is the *)
(* file when it is opened.                                                 *)
(***************************************************************************)

Settled == file.mtime = last_mtime /\ stat_at > last_mtime

StaleInv ==
    /\ (main.at = "closed" /\ Settled) => main.size = file.size
    /\ (main.at = "copied" /\ Settled /\ copy # Closed) => copy = file.version
    /\ main.at # "idle" => db = Null
    /\ StaleOnlyWithinSecond

\* Every step keeps the promise about the size, the copy or the handle, and
\* hands it on from each to the next.
LEMMA StaleStep ==
  ASSUME TypeOK, StaleInv, [Next]_vars
  PROVE  StaleInv'
  <1> USE DEF world, loaded, StaleInv, StaleOnlyWithinSecond, Settled
  <1>t. /\ clock \in Nat /\ file.mtime \in Nat /\ last_mtime \in Nat
        /\ stat_at \in Nat /\ stat_at <= clock
    BY ClockAssumption, SMT DEF TypeOK, FileRecord, Times
  <1>1. CASE Tick
    BY <1>1 DEF Tick
  <1>2. ASSUME NEW status \in {"good", "bad", "missing"}, NEW size \in Sizes,
               ModifyFile(status, size)
        PROVE  StaleInv'
    <2>1. file'.mtime = clock
      BY <1>2 DEF ModifyFile
    <2>2. ~(file'.mtime = last_mtime /\ stat_at > last_mtime)
      BY <1>t, <2>1, SMT
    <2> QED
      BY <1>2, <2>2 DEF ModifyFile
  <1>3. ASSUME NEW caller \in Callers, CheckCredentials(caller)
        PROVE  StaleInv'
    <2>0. main.at = "idle"
      BY <1>3 DEF CheckCredentials
    <2>1. CASE CheckWithoutReload(caller)
      BY <2>0, <2>1, AnswerIdle DEF CheckWithoutReload
    <2>2. CASE StatFails(caller)
      BY <2>0, <2>2, AnswerIdle DEF StatFails
    <2>3. CASE NotModified(caller)
      BY <2>0, <2>3, AnswerIdle DEF NotModified
    <2>4. CASE ReloadBegins(caller)
      <3>1. main' = [at |-> "closed", caller |-> caller, size |-> file.size]
        BY <2>4 DEF ReloadBegins
      <3>2. main'.at = "closed" /\ main'.size = file'.size /\ db' = Null
        BY <2>4, <3>1 DEF ReloadBegins
      <3> QED
        BY <3>2
    <2> QED
      BY <1>3, <2>1, <2>2, <2>3, <2>4 DEF CheckCredentials
  <1>4. CASE ReloadFails
    <2>1. main.at # "idle"
      BY <1>4 DEF ReloadFails
    <2> QED
      BY <1>4, <2>1, AnswerIdle DEF ReloadFails
  <1>5. CASE CopyRegularFile
    <2>1. /\ main.at = "closed" /\ main'.at = "copied" /\ db' = Null
          /\ file' = file /\ last_mtime' = last_mtime /\ stat_at' = stat_at
          /\ copy' = CopiedContents
      BY <1>5 DEF CopyRegularFile, TypeOK, MainRecord
    <2>2. main.size = file.size => ~(file.size > main.size)
      BY SizeAssumption, SMT DEF TypeOK, FileRecord, Sizes
    <2>3. (Settled /\ copy' # Closed) => copy' = file.version
      BY <2>1, <2>2 DEF CopiedContents
    <2> QED
      BY <2>1, <2>3
  <1>6. CASE OpenCopy
    <2>1. PICK h \in Handles : handle' = [handle EXCEPT ![h] = copy] /\ db' = h /\ Answer(h)
      BY <1>6 DEF OpenCopy
    <2>2. handle'[db'] = copy /\ main'.at = "idle"
      BY <2>1, AnswerIdle DEF TypeOK
    <2> QED
      BY <1>6, <2>2 DEF OpenCopy
  <1>7. ASSUME NEW j \in Jobs,
               JobStart(j) \/ JobLoadsHandle(j) \/ JobGetAborts(j) \/ JobGet(j)
        PROVE  StaleInv'
    BY <1>7 DEF JobStart, JobLoadsHandle, JobGetAborts, JobGet
  <1>8. CASE UNCHANGED vars
    BY <1>8 DEF vars
  <1> QED
    BY <1>1, <1>2, <1>3, <1>4, <1>5, <1>6, <1>7, <1>8 DEF Next

\* A change of the file goes unnoticed, or is cut off at the size of an older
\* version, only if it falls into the very second in which stat() told of an
\* earlier change, whatever is changed, reloaded or looked up in between.
THEOREM StaleWithinSecond == Spec => []StaleOnlyWithinSecond
  <1>1. Init => StaleInv
    <2> SUFFICES ASSUME Init PROVE StaleInv
      OBVIOUS
    <2>1. main.at = "idle"
      BY DEF Init, Idle
    <2>2. mode = "auto_reload" => db = Null
      BY DEF Init
    <2> QED
      BY <2>1, <2>2 DEF StaleInv, StaleOnlyWithinSecond
  <1>2. StaleInv => StaleOnlyWithinSecond
    BY DEF StaleInv
  <1> QED
    BY <1>1, <1>2, StaleStep, TypeCorrect, PTL DEF Spec
=============================================================================

------------------------------- MODULE Database ------------------------------
(***************************************************************************)
(* The user database (Database.cxx, BerkeleyDB.cxx): how the event loop    *)
(* thread reloads it when the file has changed, and the worker threads     *)
(* that use it meanwhile.                                                  *)
(*                                                                         *)
(* CheckCredentials runs in the event loop thread, but its reload is three *)
(* steps here, because workers run concurrently and the file may change:   *)
(* stat() tells of a change and the old handle is closed, the file is      *)
(* copied up to the size that stat() told, the copy is opened.             *)
(***************************************************************************)
EXTENDS Integers, FiniteSets

CONSTANTS
    Jobs,         \* CheckCredentialsJob objects (a bound)
    Handles,      \* Berkeley DB handles (DB *)
    Null,         \* the null pointer
    FirstMtime,   \* modification time of the file when uologin starts
    MaxClock,     \* bound on the clock, in seconds
    MaxVersion,   \* bound on the number of changes of the file
    MaxSize       \* bound on the size of the file

ASSUME NullAssumption == Null \notin Handles
ASSUME ClockAssumption ==
    FirstMtime \in Nat /\ MaxClock \in Nat /\ MaxVersion \in Nat /\ FirstMtime <= MaxClock
ASSUME SizeAssumption == MaxSize \in Nat \ {0}

VARIABLES
    mode,         \* configuration: "none", "static" or "auto_reload"
    clock,        \* wall clock, in seconds like st_mtime
    file,         \* the user_database file
    copy,         \* version of the copy in RUNTIME_DIRECTORY
    db,           \* Database::db
    handle,       \* version each handle has open; Closed if it is not open
    last_mtime,
    last_reload_error,
    stat_at,      \* when stat() last told of a change
    main,         \* what the event loop thread is doing, and for whom
    job,          \* CheckCredentialsJobs: what the workers are doing
    unchecked,    \* was a callback invoked with "true" without a check?
    process       \* "up" or how it died

vars == <<mode, clock, file, copy, db, handle, last_mtime, last_reload_error,
          stat_at, main, job, unchecked, process>>

world == <<mode, clock, file>>
loaded == <<copy, db, handle, last_mtime, last_reload_error, stat_at>>

Closed == -1
Truncated == -2   \* an incomplete copy of some version
Versions == 0..MaxVersion
Contents == Versions \cup {Closed, Truncated}
Sizes == 1..MaxSize
Times == 0..MaxClock
Callers == {"login", "knock"}

FileRecord ==
    [version : Versions, mtime : Times, size : Sizes, status : {"good", "bad", "missing"}]

\* "size" is the argument of DoAutoReload: st_size of the stat() before.
MainRecord == [at : {"idle", "closed", "copied"}, caller : Callers, size : Sizes]
JobRecord == [status : {"none", "waiting", "busy", "using"}, db : Handles \cup {Null}]

TypeOK ==
    /\ mode \in {"none", "static", "auto_reload"}
    /\ clock \in Times
    /\ file \in FileRecord
    /\ file.mtime <= clock
    /\ copy \in Contents
    /\ db \in Handles \cup {Null}
    /\ handle \in [Handles -> Contents]
    /\ last_mtime \in 0..clock
    /\ last_reload_error \in BOOLEAN
    /\ stat_at \in 0..clock
    /\ main \in MainRecord
    /\ job \in [Jobs -> JobRecord]
    /\ unchecked \in BOOLEAN
    /\ process \in {"up", "request_terminated", "worker_aborted"}

Idle == [at |-> "idle", caller |-> "login", size |-> 1]
NoJob == [status |-> "none", db |-> Null]

\* The constructor opens a static database (or uologin does not start).
Init ==
    /\ mode \in {"none", "static", "auto_reload"}
    /\ clock = FirstMtime
    /\ file \in [version : {0}, mtime : {FirstMtime}, size : Sizes,
                status : {"good", "bad", "missing"}]
    /\ mode = "static" => file.status = "good"
    /\ copy = Closed
    /\ db \in IF mode = "static" THEN Handles ELSE {Null}
    /\ handle = [h \in Handles |-> IF h = db THEN 0 ELSE Closed]
    /\ last_mtime = 0
    /\ last_reload_error = FALSE
    /\ stat_at = 0
    /\ main = Idle
    /\ job = [j \in Jobs |-> NoJob]
    /\ unchecked = FALSE
    /\ process = "up"

-----------------------------------------------------------------------------
(***************************************************************************)
(* The world: time passes, an administrator changes or removes the file.   *)
(* A change sets the modification time to the current second.              *)
(***************************************************************************)

Tick ==
    /\ clock < MaxClock
    /\ clock' = clock + 1
    /\ UNCHANGED <<mode, file, loaded, main, job, unchecked, process>>

ModifyFile(status, size) ==
    /\ file.version < MaxVersion
    /\ file' = [version |-> file.version + 1, mtime |-> clock, size |-> size, status |-> status]
    /\ UNCHANGED <<mode, clock, loaded, main, job, unchecked, process>>

-----------------------------------------------------------------------------
(***************************************************************************)
(* Database::CheckCredentials.                                             *)
(***************************************************************************)

\* What becomes of an exception: Connection catches it and rejects the login,
\* KnockListener::Request throws it out of a noexcept constructor.
Throw(caller) ==
    /\ main' = Idle
    /\ process' = IF caller = "login" THEN process ELSE "request_terminated"
    /\ UNCHANGED <<job, unchecked>>

\* The end of CheckCredentials, with the given db: accept at once if there is
\* none, else queue a job.
Answer(handle_or_null) ==
    /\ main' = Idle
    /\ \/ /\ handle_or_null = Null
          /\ unchecked' = TRUE
          /\ UNCHANGED job
       \/ /\ handle_or_null # Null
          /\ \E j \in Jobs :
               /\ job[j].status = "none"
               /\ job' = [job EXCEPT ![j].status = "waiting"]
          /\ UNCHANGED unchecked
    /\ UNCHANGED process

CheckWithoutReload(caller) ==
    /\ mode # "auto_reload"
    /\ Answer(db)
    /\ UNCHANGED <<world, loaded>>

StatFails(caller) ==
    /\ mode = "auto_reload"
    /\ file.status = "missing"
    /\ Throw(caller)
    /\ UNCHANGED <<world, loaded>>

mtime_rounded_up == file.mtime + 1

\* What stat() says of a file that exists.
st_mtime == file.mtime

ForgetsError == FALSE

RethrowsError == last_reload_error

\* Not modified: rethrow the error of the last attempt if it failed.
NotModified(caller) ==
    /\ mode = "auto_reload"
    /\ file.status # "missing"
    /\ st_mtime = last_mtime
    /\ IF RethrowsError THEN Throw(caller) ELSE Answer(db)
    /\ UNCHANGED <<world, loaded>>

KeptHandles == handle

\* db = {}: the handles after ~BerkeleyDB.
HandlesWithoutDb == [h \in Handles |-> IF h = db THEN Closed ELSE handle[h]]

\* Modified: remember the modification time, close the old handle and go on
\* with the size.
ReloadBegins(caller) ==
    /\ mode = "auto_reload"
    /\ file.status # "missing"
    /\ st_mtime # last_mtime
    /\ last_mtime' = st_mtime
    /\ handle' = HandlesWithoutDb
    /\ db' = Null
    /\ last_reload_error' = FALSE
    /\ stat_at' = clock
    /\ main' = [at |-> "closed", caller |-> caller, size |-> file.size]
    /\ UNCHANGED <<world, copy, job, unchecked, process>>

CheckCredentials(caller) ==
    /\ process = "up"
    /\ main.at = "idle"
    /\ \/ CheckWithoutReload(caller)
       \/ StatFails(caller)
       \/ NotModified(caller)
       \/ ReloadBegins(caller)

\* DoAutoReload throws: RUNTIME_DIRECTORY is not set, the file is gone or
\* cannot be copied, or the copy is not a Berkeley DB.
ReloadFails ==
    /\ process = "up"
    /\ main.at \in {"closed", "copied"}
    /\ last_reload_error' = TRUE
    /\ Throw(main.caller)
    /\ UNCHANGED <<world, copy, db, handle, last_mtime, stat_at>>

CopyUnlessExists ==
    CASE copy # Closed -> copy
      [] copy = Closed /\ file.status # "good" -> Closed
      [] OTHER -> file.version

\* What the copy is worth.  Exactly the size of the earlier stat() is copied,
\* so a file that has grown since is cut off; one that has shrunk is copied
\* whole or not at all (ReloadFails).  A file that is not a Berkeley DB is
\* copied, too.
CopiedContents ==
    CASE file.status # "good" -> Closed
      [] file.status = "good" /\ file.size > main.size -> Truncated
      [] OTHER -> file.version

CopyRegularFile ==
    /\ process = "up"
    /\ main.at = "closed"
    /\ file.status # "missing"
    /\ copy' = CopiedContents
    /\ main' = [main EXCEPT !.at = "copied"]
    /\ UNCHANGED <<world, db, handle, last_mtime, last_reload_error, stat_at, job, unchecked,
                   process>>

\* db = BerkeleyDB{copy_path}; a handle is a new allocation, which may get the
\* address of one that was closed before.  An incomplete copy may open, or may
\* not (ReloadFails).
OpenCopy ==
    /\ process = "up"
    /\ main.at = "copied"
    /\ copy # Closed
    /\ \E h \in Handles :
         /\ handle[h] = Closed
         /\ handle' = [handle EXCEPT ![h] = copy]
         /\ db' = h
         /\ Answer(h)
    /\ UNCHANGED <<world, copy, last_mtime, last_reload_error, stat_at>>

-----------------------------------------------------------------------------
(***************************************************************************)
(* A worker thread in CheckCredentialsJob::Run.  The job has a reference   *)
(* to Database::db and looks at it when it gets there.                     *)
(***************************************************************************)

JobStart(j) ==
    /\ process = "up"
    /\ job[j].status = "waiting"
    /\ job' = [job EXCEPT ![j].status = "busy"]
    /\ UNCHANGED <<world, loaded, main, unchecked, process>>

\* BerkeleyDB::Get loads the pointer ...
JobLoadsHandle(j) ==
    /\ process = "up"
    /\ job[j].status = "busy"
    /\ job' = [job EXCEPT ![j] = [status |-> "using", db |-> db]]
    /\ UNCHANGED <<world, loaded, main, unchecked, process>>

\* ... and uses it.  A null pointer aborts; a handle that was closed
\* meanwhile is undefined behaviour: it may abort or go unnoticed; and an
\* error reported by db->get() is thrown out of the noexcept CheckPassword.
JobGetAborts(j) ==
    /\ process = "up"
    /\ job[j].status = "using"
    /\ process' = "worker_aborted"
    /\ UNCHANGED <<world, loaded, main, job, unchecked>>

JobGet(j) ==
    /\ process = "up"
    /\ job[j].status = "using"
    /\ job[j].db # Null
    /\ job' = [job EXCEPT ![j] = NoJob]
    /\ UNCHANGED <<world, loaded, main, unchecked, process>>

Next ==
    \/ Tick
    \/ \E status \in {"good", "bad", "missing"}, size \in Sizes : ModifyFile(status, size)
    \/ \E caller \in Callers : CheckCredentials(caller)
    \/ ReloadFails
    \/ CopyRegularFile
    \/ OpenCopy
    \/ \E j \in Jobs : JobStart(j)
    \/ \E j \in Jobs : JobLoadsHandle(j)
    \/ \E j \in Jobs : JobGetAborts(j)
    \/ \E j \in Jobs : JobGet(j)

Spec == Init /\ [][Next]_vars

-----------------------------------------------------------------------------
(***************************************************************************)
(* Properties.                                                             *)
(***************************************************************************)

\* Where a user database is configured nobody is accepted without a check:
\* not while a reload is failing, not on the requests after a failed one,
\* and not when the file disappears.
CheckedWhenConfigured == unchecked => mode = "none"

\* The handle in "db" is open and it is the only one: a reload neither leaks
\* the old handle nor leaves a closed one behind, whether it succeeds or not.
OnlyHandleIsDb == \A h \in Handles : handle[h] # Closed <=> h = db

\* A change of the file is missed, or copied with the size of the version
\* before it, only if it happens in the very second in which stat() told of
\* an earlier change.  If that stat() was made later than the modification
\* time it told of, "not modified" means that the whole file as it is now has
\* been loaded, however the file changed between the stat() and the copy.
StaleOnlyWithinSecond ==
    (mode = "auto_reload" /\ db # Null /\ main.at = "idle"
        /\ file.mtime = last_mtime /\ stat_at > last_mtime) =>
            handle[db] = file.version

\* Stated by the assertion in BerkeleyDB::Get, assert(db != nullptr), and
\* by DB_THREAD handles having to outlive their users: a worker uses an open
\* handle.
HandleInUseIsOpen ==
    \A j \in Jobs : job[j].status = "using" =>
        job[j].db # Null /\ handle[job[j].db] # Closed

\* Stated by the noexcept of the constructor of KnockListener::Request: a
\* failing reload does not end the process.
KnockDoesNotThrow == process # "request_terminated"
=============================================================================

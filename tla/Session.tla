------------------------------ MODULE Session ------------------------------
(***************************************************************************)
(* The session save handler of php-memcached (php_memcached_session.c).    *)
(*                                                                         *)
(* Each worker is one PHP process serving one request at a time; all of    *)
(* them share memcached.  A session s has two records there: the payload   *)
(* (key s) and the lock (key "lock.s", value "1").  One step of a worker   *)
(* is one call to memcached, because other workers' calls, the server's    *)
(* expirations and the death of the process fall between two of them.      *)
(*                                                                         *)
(* ext/session, which calls the handler's functions, is external: the      *)
(* actions under "The script and ext/session" choose among the call        *)
(* sequences the handler is used with.                                     *)
(***************************************************************************)
EXTENDS Integers, FiniteSets

CONSTANTS
    Workers,             \* PHP processes
    Sids,                \* session ids
    Values,              \* non-empty session payloads
    Empty,               \* the empty payload
    NoRecord,            \* memcached has no payload record under this key
    NoWorker,            \* memcached has no lock record under this key
    NoSid,               \* lock_key == NULL
    LockEnabled,         \* memcached.sess_locking
    LockRetries,         \* memcached.sess_lock_retries
    LockExpires,         \* the lock records carry a time to live
    SessionExpires,      \* the payload records carry a time to live
    Persistent,          \* the workers with memcached.sess_persistent
    Resets,              \* the workers whose scripts call session_reset()
    RemoveFailedServers, \* memcached.sess_remove_failed_servers
    Replicas,            \* memcached.sess_number_of_replicas
    FailureLimit,        \* memcached.sess_server_failure_limit
    FailingCalls,        \* the calls that may end in an error
    Crashes              \* a worker may die at any point of a request

Calls == {"configure", "add_lock", "delete_lock", "add_sid", "exist",
          "get", "set", "touch", "delete"}

ASSUME ConstantsAssumption ==
    /\ LockRetries \in Int /\ Replicas \in Nat /\ FailureLimit \in Nat
    /\ LockEnabled \in BOOLEAN /\ LockExpires \in BOOLEAN /\ SessionExpires \in BOOLEAN
    /\ Persistent \subseteq Workers /\ Resets \subseteq Workers
    /\ RemoveFailedServers \in BOOLEAN /\ Crashes \in BOOLEAN
    /\ FailingCalls \subseteq Calls
    /\ NoWorker \notin Workers /\ NoSid \notin Sids
    /\ Empty # NoRecord /\ Empty \notin Values /\ NoRecord \notin Values

VARIABLES
    \* memcached
    lock,       \* lock[s]: who created the record "lock.s", or NoWorker; the record
                \* itself does not say (its value is "1"), so no guard reads the owner
    sess,       \* sess[s]: the payload under key s, or NoRecord
    \* one handle (memcached_st and php_memcached_user_data) per worker
    plist,      \* plist[w]: the handle is in EG(persistent_list)
    is_locked,  \* user_data->is_locked
    lock_key,   \* user_data->lock_key
    \* the request in progress
    pc,         \* pc[w]: the memcached call the worker makes next
    sid,        \* PS(id)
    retries,    \* the local loop counter of the function that is running
    got,        \* what PS_READ returned
    val,        \* what PS_WRITE was given
    reopen,     \* session_regenerate_id: open a new session after this close
    \* history
    lapsed      \* sessions whose lock record expired under a worker that still
                \* believed it held it; forgotten once no worker believes so

memcached == <<lock, sess>>
handle    == <<plist, is_locked, lock_key>>
request   == <<sid, retries, got, val, reopen>>
vars      == <<memcached, handle, pc, request, lapsed>>

Labels == {"idle", "create_sid", "validate_sid", "lock", "get", "active",
           "write", "touch", "destroy", "unlock", "close", "reopen"}

\* What a session can hold once it is read or written.
Payloads == Values \cup {Empty}

-----------------------------------------------------------------------------
(* Helpers *)

\* w believes it holds the lock of session s.
Holds(w, s) == is_locked[w] /\ lock_key[w] = s

\* Mutant of View: a missing record is handed on as it is.
View_NotFoundUnhandled(s) == sess[s]

\* What a reader of session s is given: a missing record reads as an empty session.
View(s) == IF sess[s] = NoRecord THEN Empty ELSE sess[s]

Goto(w, label) == pc' = [pc EXCEPT ![w] = label]

MayFail(call) == call \in FailingCalls

\* The handle of w holds no lock: s_init_mod_data's fresh user data, or what
\* s_unlock_session leaves behind (the released lock_key is never read again).
FreshUserData(w) ==
    /\ is_locked' = [is_locked EXCEPT ![w] = FALSE]
    /\ lock_key' = [lock_key EXCEPT ![w] = NoSid]

\* The history of lapsed locks after a step that lets the locks in "more" lapse.
Lapse(more) ==
    lapsed' = {s \in lapsed \cup more : \E w \in Workers : is_locked'[w] /\ lock_key'[w] = s}

-----------------------------------------------------------------------------
(* PS_OPEN: find or make the handle and configure it.  No call to memcached *)
(* is made, so the whole function is one step.                              *)

\* The persistent handle of this save_path is reused as it is.
ReuseHandle(w) ==
    /\ w \in Persistent /\ plist[w]
    /\ UNCHANGED handle

\* There is no persistent handle, or it could not be configured and was destroyed.  The
\* handle that PS(mod_data) refers to so far is not looked at, locked or not.
NewHandle(w) ==
    /\ (w \in Persistent /\ plist[w]) => MayFail("configure")
    /\ FreshUserData(w)
    /\ plist' = [plist EXCEPT ![w] = w \in Persistent]

\* PS_OPEN fails: the save_path does not parse, or no handle could be configured.
NoHandle(w) ==
    /\ MayFail("configure")
    /\ \/ UNCHANGED handle
       \/ FreshUserData(w) /\ plist' = [plist EXCEPT ![w] = FALSE]

PsOpen(w) == (ReuseHandle(w) \/ NewHandle(w)) /\ Lapse({})

-----------------------------------------------------------------------------
(* PS_CREATE_SID and PS_VALIDATE_SID                                        *)

CreateSidTries == 3

\* Mutant of EnterRead: locking is skipped.
EnterRead_NoLock(w) ==
    /\ Goto(w, "get")
    /\ retries' = [retries EXCEPT ![w] = LockRetries]

\* PS_READ starts: take the lock first if locking is on.
EnterRead(w) ==
    /\ Goto(w, IF LockEnabled THEN "lock" ELSE "get")
    /\ retries' = [retries EXCEPT ![w] = LockRetries]

EnterCreateSid(w) ==
    /\ Goto(w, "create_sid")
    /\ retries' = [retries EXCEPT ![w] = CreateSidTries]

\* The random id s is free: the add reserves it with an empty record.
CreateSid(w, s) ==
    /\ pc[w] = "create_sid"
    /\ sess[s] = NoRecord
    /\ sess' = [sess EXCEPT ![s] = Empty]
    /\ sid' = [sid EXCEPT ![w] = s]
    /\ EnterRead(w)
    /\ UNCHANGED <<lock, handle, got, val, reopen, lapsed>>

\* The id is taken, or the add failed (its answer may only have been lost):
\* draw another id, and after the last try give up with no id at all.
CreateSidFails(w, s) ==
    /\ pc[w] = "create_sid"
    /\ \/ sess[s] # NoRecord /\ sess' = sess
       \/ MayFail("add_sid") /\ sess' = sess
       \/ MayFail("add_sid") /\ sess[s] = NoRecord /\ sess' = [sess EXCEPT ![s] = Empty]
    /\ retries' = [retries EXCEPT ![w] = @ - 1]
    /\ Goto(w, IF retries[w] - 1 > 0 THEN "create_sid" ELSE "close")
    /\ UNCHANGED <<lock, handle, sid, got, val, reopen, lapsed>>

\* The id the client sent exists.
ValidateSid(w) ==
    /\ pc[w] = "validate_sid"
    /\ sess[sid[w]] # NoRecord
    /\ EnterRead(w)
    /\ UNCHANGED <<memcached, handle, sid, got, val, reopen, lapsed>>

\* Any other answer, an error included, makes ext/session ask for a new id.
ValidateSidFails(w) ==
    /\ pc[w] = "validate_sid"
    /\ sess[sid[w]] = NoRecord \/ MayFail("exist")
    /\ EnterCreateSid(w)
    /\ UNCHANGED <<memcached, handle, sid, got, val, reopen, lapsed>>

-----------------------------------------------------------------------------
(* PS_READ and s_lock_session                                               *)

\* memcached_add of the lock record succeeds.
LockAcquired(w) ==
    /\ pc[w] = "lock"
    /\ lock[sid[w]] = NoWorker
    /\ lock' = [lock EXCEPT ![sid[w]] = w]
    /\ is_locked' = [is_locked EXCEPT ![w] = TRUE]
    /\ lock_key' = [lock_key EXCEPT ![w] = sid[w]]
    /\ Goto(w, "get")
    /\ Lapse({})
    /\ UNCHANGED <<sess, plist, request>>

\* Mutant of NextLockAttempt: the lock that was not taken is not missed.
NextLockAttempt_FallsThrough(w) ==
    /\ retries' = [retries EXCEPT ![w] = @ - 1]
    /\ Goto(w, IF retries[w] > 0 THEN "lock" ELSE "get")

\* Mutant of NextLockAttempt: the retries are not counted.
NextLockAttempt_NoCount(w) ==
    /\ Goto(w, IF is_locked[w] THEN "get" ELSE IF retries[w] > 0 THEN "lock" ELSE "close")
    /\ UNCHANGED retries

\* The rest of the loop after an attempt that did not take the lock:
\* while (!user_data->is_locked && retries-- > 0), then what PS_READ returns.
NextLockAttempt(w) ==
    /\ retries' = [retries EXCEPT ![w] = IF is_locked[w] THEN @ ELSE @ - 1]
    /\ Goto(w, IF is_locked[w] THEN "get" ELSE IF retries[w] > 0 THEN "lock" ELSE "close")

\* Another record is in the way (MEMCACHED_NOTSTORED, MEMCACHED_DATA_EXISTS): sleep.
LockBusy(w) ==
    /\ pc[w] = "lock"
    /\ lock[sid[w]] # NoWorker
    /\ NextLockAttempt(w)
    /\ UNCHANGED <<memcached, handle, sid, got, val, reopen, lapsed>>

\* Any other answer: the record may have been created without the worker knowing.
LockError(w) ==
    /\ pc[w] = "lock"
    /\ MayFail("add_lock")
    /\ \/ lock' = lock
       \/ lock[sid[w]] = NoWorker /\ lock' = [lock EXCEPT ![sid[w]] = w]
    /\ NextLockAttempt(w)
    /\ UNCHANGED <<sess, handle, sid, got, val, reopen, lapsed>>

\* memcached_get: a missing record is an empty session.
Read(w) ==
    /\ pc[w] = "get"
    /\ got' = [got EXCEPT ![w] = View(sid[w])]
    /\ Goto(w, "active")
    /\ UNCHANGED <<memcached, handle, sid, retries, val, reopen, lapsed>>

\* The get fails: PS_READ fails and leaves a lock it took to PS_CLOSE.
ReadFails(w) ==
    /\ pc[w] = "get"
    /\ MayFail("get")
    /\ Goto(w, "close")
    /\ UNCHANGED <<memcached, handle, request, lapsed>>

-----------------------------------------------------------------------------
(* PS_WRITE and PS_UPDATE_TIMESTAMP                                         *)

\* The number of attempts PS_WRITE grants itself.
WriteAttempts == IF RemoveFailedServers THEN 1 + Replicas * (FailureLimit + 1) ELSE 1

EnterWrite(w, v) ==
    /\ Goto(w, "write")
    /\ val' = [val EXCEPT ![w] = v]
    /\ retries' = [retries EXCEPT ![w] = WriteAttempts]

Write(w) ==
    /\ pc[w] = "write"
    /\ sess' = [sess EXCEPT ![sid[w]] = val[w]]
    /\ Goto(w, "close")
    /\ UNCHANGED <<lock, handle, request, lapsed>>

\* memcached_set fails: try again while attempts are left, else PS_WRITE fails and
\* ext/session closes the session (and abandons a session_regenerate_id).
WriteFails(w) ==
    /\ pc[w] = "write"
    /\ MayFail("set")
    /\ sess' \in {sess, [sess EXCEPT ![sid[w]] = val[w]]}
    /\ retries' = [retries EXCEPT ![w] = @ - 1]
    /\ IF retries[w] - 1 > 0
       THEN pc' = pc /\ UNCHANGED reopen
       ELSE Goto(w, "close") /\ reopen' = [reopen EXCEPT ![w] = FALSE]
    /\ UNCHANGED <<lock, handle, sid, got, val, lapsed>>

\* memcached_touch changes no payload, and a missing record is not reported.
UpdateTimestamp(w) ==
    /\ pc[w] = "touch"
    /\ Goto(w, "close")
    /\ UNCHANGED <<memcached, handle, request, lapsed>>

-----------------------------------------------------------------------------
(* PS_DESTROY, PS_CLOSE and s_unlock_session                                *)

\* Mutant of UnlockSession: the handle is not marked as unlocked.
UnlockSession_KeepsFlag(w) ==
    /\ lock' = [lock EXCEPT ![lock_key[w]] = NoWorker]
    /\ UNCHANGED <<is_locked, lock_key>>
    /\ Lapse({})

\* Mutant of UnlockSession: the handle forgets the lock without deleting the record.
UnlockSession_NoDelete(w) ==
    /\ FreshUserData(w)
    /\ Lapse({})
    /\ UNCHANGED lock

\* s_unlock_session: the lock key is deleted whoever created the record now under it,
\* the answer is ignored and the handle is unlocked in any case.
UnlockSession(w) ==
    /\ lock' \in {[lock EXCEPT ![lock_key[w]] = NoWorker]}
                 \cup (IF MayFail("delete_lock") THEN {lock} ELSE {})
    /\ FreshUserData(w)
    /\ Lapse({})

UnlockIfLocked(w) ==
    IF is_locked[w] THEN UnlockSession(w)
                    ELSE UNCHANGED <<lock, is_locked, lock_key, lapsed>>

\* PS_DESTROY deletes the payload first, whatever the answer ...
Destroy(w) ==
    /\ pc[w] = "destroy"
    /\ \/ sess' = [sess EXCEPT ![sid[w]] = NoRecord]
       \/ MayFail("delete") /\ sess' = sess
    /\ Goto(w, "unlock")
    /\ UNCHANGED <<lock, handle, request, lapsed>>

\* ... and then gives up the lock.
DestroyUnlocks(w) ==
    /\ pc[w] = "unlock"
    /\ UnlockIfLocked(w)
    /\ Goto(w, "close")
    /\ UNCHANGED <<sess, plist, request>>

\* What the request kept in its local variables is gone with it.
EndRequest(w) ==
    /\ retries' = [retries EXCEPT ![w] = 0]
    /\ got' = [got EXCEPT ![w] = Empty]
    /\ val' = [val EXCEPT ![w] = Empty]

\* Mutant of Close: the lock is left to PS_DESTROY.
Close_NoUnlock(w) ==
    /\ pc[w] = "close"
    /\ Goto(w, IF reopen[w] THEN "reopen" ELSE "idle")
    /\ EndRequest(w)
    /\ UNCHANGED <<memcached, handle, sid, reopen, lapsed>>

\* PS_CLOSE: unlock; a handle that is not persistent is destroyed.
Close(w) ==
    /\ pc[w] = "close"
    /\ UnlockIfLocked(w)
    /\ Goto(w, IF reopen[w] THEN "reopen" ELSE "idle")
    /\ EndRequest(w)
    /\ UNCHANGED <<sess, plist, sid, reopen>>

-----------------------------------------------------------------------------
(* The script and ext/session (external)                                    *)

\* session_start() with the id the client sent, without or with strict mode.
Start(w, s) ==
    /\ pc[w] = "idle"
    /\ PsOpen(w)
    /\ sid' = [sid EXCEPT ![w] = s]
    /\ \/ EnterRead(w)
       \/ Goto(w, "validate_sid") /\ UNCHANGED retries
    /\ UNCHANGED <<memcached, got, val, reopen>>

\* session_start() without an id.
StartNew(w) ==
    /\ pc[w] = "idle"
    /\ PsOpen(w)
    /\ EnterCreateSid(w)
    /\ UNCHANGED <<memcached, sid, got, val, reopen>>

StartFails(w) ==
    /\ pc[w] = "idle"
    /\ NoHandle(w)
    /\ Lapse({})
    /\ UNCHANGED <<memcached, pc, request>>

\* The session ends with changed data, or session_regenerate_id(false) saves the old one.
Save(w, v) ==
    /\ pc[w] = "active"
    /\ EnterWrite(w, v)
    /\ \E b \in BOOLEAN : reopen' = [reopen EXCEPT ![w] = b]
    /\ UNCHANGED <<memcached, handle, sid, got, lapsed>>

\* The session ends with the data it read (session.lazy_write).
SaveUnchanged(w) ==
    /\ pc[w] = "active"
    /\ Goto(w, "touch")
    /\ UNCHANGED <<memcached, handle, request, lapsed>>

\* session_destroy() or session_regenerate_id(true).
DestroySession(w) ==
    /\ pc[w] = "active"
    /\ Goto(w, "destroy")
    /\ \E b \in BOOLEAN : reopen' = [reopen EXCEPT ![w] = b]
    /\ UNCHANGED <<memcached, handle, sid, retries, got, val, lapsed>>

\* session_abort() or read_and_close.
Abort(w) ==
    /\ pc[w] = "active"
    /\ Goto(w, "close")
    /\ UNCHANGED <<memcached, handle, request, lapsed>>

\* session_reset() opens and reads the session again without a PS_CLOSE.
Reset(w) ==
    /\ pc[w] = "active" /\ w \in Resets
    /\ PsOpen(w)
    /\ \/ EnterRead(w)
       \/ Goto(w, "validate_sid") /\ UNCHANGED retries
    /\ UNCHANGED <<memcached, sid, got, val, reopen>>

\* PS_OPEN fails and leaves no handle to close; the save_path has been parsed before.
ResetFails(w) ==
    /\ pc[w] = "active" /\ w \in Resets
    /\ MayFail("configure")
    /\ FreshUserData(w) /\ plist' = [plist EXCEPT ![w] = FALSE]
    /\ Lapse({})
    /\ Goto(w, "idle")
    /\ EndRequest(w)
    /\ UNCHANGED <<memcached, sid, reopen>>

\* session_regenerate_id() opens the session again under a new id.
Reopen(w) ==
    /\ pc[w] = "reopen"
    /\ PsOpen(w)
    /\ EnterCreateSid(w)
    /\ reopen' = [reopen EXCEPT ![w] = FALSE]
    /\ UNCHANGED <<memcached, sid, got, val>>

ReopenFails(w) ==
    /\ pc[w] = "reopen"
    /\ NoHandle(w)
    /\ Lapse({})
    /\ Goto(w, "idle")
    /\ reopen' = [reopen EXCEPT ![w] = FALSE]
    /\ UNCHANGED <<memcached, sid, retries, got, val>>

-----------------------------------------------------------------------------
(* memcached and the operating system (external)                            *)

\* The lock record's time to live is over.  A worker that believes it holds the lock
\* is not told.
ExpireLock(s) ==
    /\ LockExpires
    /\ lock[s] # NoWorker
    /\ lock' = [lock EXCEPT ![s] = NoWorker]
    /\ UNCHANGED <<sess, handle, pc, request>>
    /\ Lapse({s})

ExpireSession(s) ==
    /\ SessionExpires
    /\ sess[s] # NoRecord
    /\ sess' = [sess EXCEPT ![s] = NoRecord]
    /\ UNCHANGED <<lock, handle, pc, request, lapsed>>

\* The process dies and a new one takes its place: its records stay in memcached.
Crash(w) ==
    /\ Crashes
    /\ pc[w] # "idle"
    /\ Goto(w, "idle")
    /\ FreshUserData(w)
    /\ plist' = [plist EXCEPT ![w] = FALSE]
    /\ reopen' = [reopen EXCEPT ![w] = FALSE]
    /\ EndRequest(w)
    /\ Lapse({})
    /\ UNCHANGED <<memcached, sid>>

-----------------------------------------------------------------------------
Init ==
    /\ lock = [s \in Sids |-> NoWorker]
    /\ sess = [s \in Sids |-> NoRecord]
    /\ plist = [w \in Workers |-> FALSE]
    /\ is_locked = [w \in Workers |-> FALSE]
    /\ lock_key = [w \in Workers |-> NoSid]
    /\ pc = [w \in Workers |-> "idle"]
    /\ sid \in [Workers -> Sids]
    /\ retries = [w \in Workers |-> 0]
    /\ got = [w \in Workers |-> Empty]
    /\ val = [w \in Workers |-> Empty]
    /\ reopen = [w \in Workers |-> FALSE]
    /\ lapsed = {}

\* What the handler, and ext/session around it, do on their own once they were called.
Continue(w) ==
    \/ \E s \in Sids : CreateSid(w, s) \/ CreateSidFails(w, s)
    \/ ValidateSid(w) \/ ValidateSidFails(w)
    \/ LockAcquired(w) \/ LockBusy(w) \/ LockError(w)
    \/ Read(w) \/ ReadFails(w)
    \/ Write(w) \/ WriteFails(w) \/ UpdateTimestamp(w)
    \/ Destroy(w) \/ DestroyUnlocks(w) \/ Close(w)
    \/ Reopen(w) \/ ReopenFails(w)

\* What the script does with an active session, in its own time.
Script(w) ==
    \/ \E v \in Payloads : Save(w, v)
    \/ SaveUnchanged(w) \/ DestroySession(w) \/ Abort(w)
    \/ Reset(w) \/ ResetFails(w)

Begin(w) == (\E s \in Sids : Start(w, s)) \/ StartNew(w) \/ StartFails(w)

Next ==
    \/ \E w \in Workers : Begin(w) \/ Continue(w) \/ Script(w) \/ Crash(w)
    \/ \E s \in Sids : ExpireLock(s) \/ ExpireSession(s)

Spec == Init /\ [][Next]_vars

\* A call of the handler goes on to its end: the process is scheduled, and libmemcached's
\* calls return or time out.  Nothing makes a client send a request, nor the script end
\* its session.
FairSpec == Spec /\ \A w \in Workers : WF_vars(Continue(w))

-----------------------------------------------------------------------------
(* Properties *)

\* The types of memcached's records, of the handles and of the requests.
TypeOK ==
    /\ lock \in [Sids -> Workers \cup {NoWorker}]
    /\ sess \in [Sids -> Payloads \cup {NoRecord}]
    /\ plist \in [Workers -> BOOLEAN]
    /\ is_locked \in [Workers -> BOOLEAN]
    /\ lock_key \in [Workers -> Sids \cup {NoSid}]
    /\ pc \in [Workers -> Labels]
    /\ sid \in [Workers -> Sids]
    /\ retries \in [Workers -> Int]
    /\ got \in [Workers -> Payloads]
    /\ val \in [Workers -> Payloads]
    /\ reopen \in [Workers -> BOOLEAN]
    /\ lapsed \subseteq Sids

\* Two workers never both believe they hold the lock of a session (is_locked), unless
\* that lock expired under one of them: memcached_add in s_lock_session, the retries and
\* the reuse of persistent handles give mutual exclusion.
MutualExclusion ==
    \A u, w \in Workers : \A s \in Sids \ lapsed :
        Holds(u, s) /\ Holds(w, s) => u = w

\* The phases in which the script works with what PS_READ returned and what it does
\* may still reach the payload record.
InSession(w) == pc[w] \in {"active", "write", "touch", "destroy"}

\* Workers that may start s_lock_session with a locked handle: session_reset() finds the
\* handle in the persistent list again.  The lock loop then ends at once, which is right for
\* the same session; if the session has expired and got a new id, it is not.
Strays == Resets \cap Persistent

\* No lost update: as long as the lock of its session has not lapsed, the payload a
\* worker is about to overwrite, touch or destroy is the one PS_READ gave it, or one that
\* its own PS_WRITE attempts stored, or it is gone; no other worker's write can be there,
\* session_reset() or not.
NoLostUpdate ==
    LockEnabled /\ Strays = {} =>
        \A w \in Workers :
            InSession(w) /\ sid[w] \notin lapsed =>
                \/ View(sid[w]) \in {got[w], Empty}
                \/ pc[w] = "write" /\ View(sid[w]) = val[w]

\* A lock record does not outlive its use: if the calls that create and delete lock
\* records are answered and no process dies, whoever created a record that is still there
\* knows it and will delete it.  In particular a PS_READ whose get fails, a PS_WRITE out
\* of attempts and an abandoned session_regenerate_id leave no lock behind.  session_reset()
\* may: the handle that holds the lock is replaced without being closed.
NoStaleLock ==
    ~Crashes /\ ~MayFail("add_lock") /\ ~MayFail("delete_lock") =>
        \A s \in Sids : lock[s] \notin Resets \cup {NoWorker} =>
            Holds(lock[s], s) /\ pc[lock[s]] \notin {"idle", "reopen"}

\* A handle that is locked has the key to unlock with.
LockedHasKey == \A w \in Workers : is_locked[w] => lock_key[w] \in Sids

\* A lock that a worker believes it holds, and that has not lapsed, is in memcached and
\* was put there by this worker.
HeldLock ==
    \A w \in Workers :
        is_locked[w] /\ lock_key[w] \notin lapsed => lock[lock_key[w]] = w

\* A handle is unlocked between requests, and whenever s_lock_session starts or resumes its
\* loop: it is reused by later requests when it is persistent, and a stale is_locked would
\* end the loop as if the lock had been taken.
LockStartsUnlocked ==
    \A w \in Workers :
        /\ pc[w] \in {"idle", "reopen"} => ~is_locked[w]
        /\ pc[w] \in {"create_sid", "validate_sid", "lock"} => ~is_locked[w] \/ w \in Strays

\* From the moment PS_READ has the lock until the last call that may touch the payload,
\* the worker believes it holds the lock of the session it works with.
SessionIsLocked ==
    LockEnabled => \A w \in Workers \ Strays : pc[w] = "get" \/ InSession(w) => Holds(w, sid[w])

\* The locking discipline as a whole: what a handle believes about its lock agrees with
\* memcached and with the phase of the request.  Mutual exclusion rests on it.
LockInv == LockedHasKey /\ HeldLock /\ LockStartsUnlocked /\ SessionIsLocked

\* A lock record whose creator believes it holds it goes away only when the creator
\* gives it up or its time is over: no other worker releases it.
LockKeptByHolder ==
    [][\A s \in Sids :
          /\ lock[s] # NoWorker
          /\ Holds(lock[s], s)
          /\ lock'[s] = NoWorker
          => ~is_locked'[lock[s]] \/ ExpireLock(s)]_vars

\* s_lock_session never waits for ever: whatever the other workers do, its retries run
\* out and the request goes on with or without the lock.
LockWaitEnds ==
    \A w \in Workers : pc[w] = "lock" ~> pc[w] # "lock"

\* A lock that was taken is given up again on every path through the handler, the failing
\* ones included, without the help of its expiration, by a worker whose script does not
\* keep its session for ever and does not call session_reset().
LockReleased ==
    \A w \in Workers \ Resets :
        []<>(pc[w] # "active") => \A s \in Sids : lock[s] = w ~> lock[s] # w

-----------------------------------------------------------------------------
(* The abstract session store                                               *)

Store == INSTANCE SessionStore WITH holder <- lock, data <- [s \in Sids |-> View(s)]

\* With locking on and locks that do not expire, the handler is a session store in which
\* a session is changed by the holder of its lock and by nobody else, and the lock is
\* given up only by the one who took it.
ImplementsStore == Store!Spec
====

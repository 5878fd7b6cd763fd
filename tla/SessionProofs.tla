--------------------------- MODULE SessionProofs ---------------------------
(***************************************************************************)
(* Proofs about the session save handler, for any number of workers,       *)
(* sessions, payloads, retries and replicas, and whichever calls fail.     *)
(***************************************************************************)
EXTENDS Session, TLAPS

USE DEF Payloads

\* PS_OPEN leaves a well-formed handle.
LEMMA OpenType ==
    ASSUME TypeOK, NEW w \in Workers, PsOpen(w) \/ (NoHandle(w) /\ Lapse({}))
    PROVE  /\ plist' \in [Workers -> BOOLEAN]
           /\ is_locked' \in [Workers -> BOOLEAN]
           /\ lock_key' \in [Workers -> Sids \cup {NoSid}]
           /\ lapsed' \subseteq Sids
<1> USE ConstantsAssumption DEF ConstantsAssumption, TypeOK, handle
<1>1. lapsed' \subseteq Sids
  BY DEF PsOpen, Lapse
<1>2. CASE UNCHANGED handle
  BY <1>1, <1>2
<1>3. CASE FreshUserData(w) /\ \E b \in BOOLEAN : plist' = [plist EXCEPT ![w] = b]
  BY <1>1, <1>3 DEF FreshUserData
<1>4. CASE NewHandle(w)
  <2>1. (w \in Persistent) \in BOOLEAN
    OBVIOUS
  <2>2. FreshUserData(w) /\ \E b \in BOOLEAN : plist' = [plist EXCEPT ![w] = b]
    BY <1>4, <2>1, Zenon DEF NewHandle
  <2> QED BY <1>3, <2>2
<1> QED BY <1>2, <1>3, <1>4 DEF PsOpen, ReuseHandle, NoHandle

\* s_unlock_session leaves a well-formed lock table and handle.
LEMMA UnlockType ==
    ASSUME TypeOK, NEW w \in Workers, UnlockIfLocked(w)
    PROVE  /\ lock' \in [Sids -> Workers \cup {NoWorker}]
           /\ is_locked' \in [Workers -> BOOLEAN]
           /\ lock_key' \in [Workers -> Sids \cup {NoSid}]
           /\ lapsed' \subseteq Sids
<1> USE DEF TypeOK
<1>1. CASE ~is_locked[w]
  BY <1>1 DEF UnlockIfLocked
<1>2. CASE is_locked[w]
  <2>1. lock' = lock \/ lock' = [lock EXCEPT ![lock_key[w]] = NoWorker]
    BY <1>2 DEF UnlockIfLocked, UnlockSession
  <2>2. FreshUserData(w) /\ Lapse({})
    BY <1>2 DEF UnlockIfLocked, UnlockSession
  <2>3. lapsed' \subseteq Sids
    BY <2>2 DEF Lapse
  <2> QED BY <2>1, <2>2, <2>3 DEF FreshUserData
<1> QED BY <1>1, <1>2

\* Every step keeps the state well formed.
LEMMA TypeStep ==
    ASSUME TypeOK, [Next]_vars
    PROVE  TypeOK'
<1> USE ConstantsAssumption DEF ConstantsAssumption, TypeOK, Labels, memcached, handle, request
<1>1. ASSUME NEW w \in Workers, Begin(w)
      PROVE  TypeOK'
  <2>1. ASSUME NEW s \in Sids, Start(w, s)
        PROVE  TypeOK'
    BY <2>1, OpenType DEF Start, EnterRead, Goto
  <2>2. CASE StartNew(w)
    BY <2>2, OpenType DEF StartNew, EnterCreateSid, CreateSidTries, Goto
  <2>3. CASE StartFails(w)
    BY <2>3, OpenType DEF StartFails
  <2> QED BY <1>1, <2>1, <2>2, <2>3 DEF Begin
<1>2. ASSUME NEW w \in Workers, Continue(w) \/ Script(w)
      PROVE  TypeOK'
  <2>1. ASSUME NEW s \in Sids, CreateSid(w, s)
        PROVE  TypeOK'
    BY <2>1 DEF CreateSid, EnterRead, Goto
  <2>2. ASSUME NEW s \in Sids, CreateSidFails(w, s)
        PROVE  TypeOK'
    BY <2>2 DEF CreateSidFails, Goto
  <2>3. CASE ValidateSid(w)
    BY <2>3 DEF ValidateSid, EnterRead, Goto
  <2>4. CASE ValidateSidFails(w)
    BY <2>4 DEF ValidateSidFails, EnterCreateSid, CreateSidTries, Goto
  <2>5. CASE LockAcquired(w)
    BY <2>5 DEF LockAcquired, Goto, Lapse
  <2>6. CASE LockBusy(w)
    BY <2>6 DEF LockBusy, NextLockAttempt, Goto
  <2>7. CASE LockError(w)
    BY <2>7 DEF LockError, NextLockAttempt, Goto
  <2>8. CASE Read(w)
    BY <2>8 DEF Read, View, Goto
  <2>9. CASE ReadFails(w)
    BY <2>9 DEF ReadFails, Goto
  <2>10. ASSUME NEW v \in Payloads, Save(w, v)
         PROVE  TypeOK'
    <3>1. WriteAttempts \in Int
      BY DEF WriteAttempts
    <3> QED BY <2>10, <3>1 DEF Save, EnterWrite, Goto
  <2>11. CASE SaveUnchanged(w)
    BY <2>11 DEF SaveUnchanged, Goto
  <2>12. CASE DestroySession(w)
    BY <2>12 DEF DestroySession, Goto
  <2>13. CASE Abort(w)
    BY <2>13 DEF Abort, Goto
  <2>14. CASE Write(w)
    BY <2>14 DEF Write, Goto
  <2>15. CASE WriteFails(w)
    <3>1. sess' \in [Sids -> Payloads \cup {NoRecord}]
      BY <2>15 DEF WriteFails
    <3>2. /\ pc' \in [Workers -> Labels]
          /\ reopen' \in [Workers -> BOOLEAN]
          /\ retries' \in [Workers -> Int]
      <4>1. CASE retries[w] - 1 > 0
        BY <2>15, <4>1 DEF WriteFails
      <4>2. CASE ~(retries[w] - 1 > 0)
        <5>1. Goto(w, "close") /\ reopen' = [reopen EXCEPT ![w] = FALSE]
          BY <2>15, <4>2 DEF WriteFails
        <5>2. retries' = [retries EXCEPT ![w] = @ - 1]
          BY <2>15 DEF WriteFails
        <5> QED BY <5>1, <5>2 DEF Goto
      <4> QED BY <4>1, <4>2
    <3> QED BY <2>15, <3>1, <3>2 DEF WriteFails
  <2>16. CASE UpdateTimestamp(w)
    BY <2>16 DEF UpdateTimestamp, Goto
  <2>17. CASE Destroy(w)
    BY <2>17 DEF Destroy, Goto
  <2>18. CASE DestroyUnlocks(w)
    BY <2>18, UnlockType DEF DestroyUnlocks, Goto
  <2>19. CASE Close(w)
    BY <2>19, UnlockType DEF Close, EndRequest, Goto
  <2>20. CASE Reopen(w)
    BY <2>20, OpenType DEF Reopen, EnterCreateSid, CreateSidTries, Goto
  <2>21. CASE ReopenFails(w)
    BY <2>21, OpenType DEF ReopenFails, Goto
  <2>22. CASE Reset(w)
    BY <2>22, OpenType DEF Reset, EnterRead, Goto
  <2>23. CASE ResetFails(w)
    BY <2>23 DEF ResetFails, FreshUserData, EndRequest, Lapse, Goto
  <2> QED
    BY <1>2, <2>1, <2>2, <2>3, <2>4, <2>5, <2>6, <2>7, <2>8, <2>9, <2>10, <2>11, <2>12,
       <2>13, <2>14, <2>15, <2>16, <2>17, <2>18, <2>19, <2>20, <2>21, <2>22, <2>23
       DEF Continue, Script
<1>3. ASSUME NEW w \in Workers, Crash(w)
      PROVE  TypeOK'
  BY <1>3 DEF Crash, FreshUserData, EndRequest, Lapse, Goto
<1>4. ASSUME NEW s \in Sids, ExpireLock(s)
      PROVE  TypeOK'
  BY <1>4 DEF ExpireLock, Lapse
<1>5. ASSUME NEW s \in Sids, ExpireSession(s)
      PROVE  TypeOK'
  BY <1>5 DEF ExpireSession
<1>6. CASE UNCHANGED vars
  BY <1>6 DEF vars
<1> QED BY <1>1, <1>2, <1>3, <1>4, <1>5, <1>6 DEF Next

\* The state is always well formed: every loop counter, lock owner and payload the
\* handler computes is one of its kind.
THEOREM TypeCorrect == Spec => []TypeOK
<1>1. Init => TypeOK
  BY ConstantsAssumption DEF ConstantsAssumption, Init, TypeOK, Labels
<1> QED BY <1>1, TypeStep, PTL DEF Spec

-----------------------------------------------------------------------------
(* Locking.  The invariant to carry along is LockInv: a believed lock that  *)
(* has not lapsed is recorded for the believer (HeldLock), which makes two  *)
(* believers of one lock the same worker.  That an add succeeds only when   *)
(* no record is there keeps HeldLock; that handles enter s_lock_session     *)
(* unlocked keeps the loop from ending early.                               *)

\* What a worker believes about its lock.
beliefs == <<is_locked, lock_key>>

\* A step of w that leaves the locks, the beliefs and the other workers alone keeps the
\* discipline, if it enters the phases that need the lock only from one that has it.
LEMMA LockQuiet ==
    ASSUME TypeOK, LockInv, NEW w \in Workers, NEW label \in Labels,
           UNCHANGED <<lock, beliefs, lapsed>>,
           pc' = [pc EXCEPT ![w] = label],
           \A u \in Workers \ {w} : sid'[u] = sid[u],
           \/ label \in {"close", "unlock"}
           \/ label = "idle" /\ ~is_locked[w]
           \/ /\ label \in {"create_sid", "validate_sid", "lock"}
              /\ ~is_locked[w] \/ w \in Strays
           \/ pc[w] \in {"get", "active", "write"} /\ InSession(w)' /\ sid' = sid
           \/ label = "get" /\ (~LockEnabled \/ w \in Strays)
    PROVE  LockInv'
<1> USE DEF TypeOK, LockInv, beliefs
<1>1. LockedHasKey' /\ HeldLock'
  BY DEF LockedHasKey, HeldLock
<1>2. LockStartsUnlocked'
  BY DEF LockStartsUnlocked, InSession
<1>3. SessionIsLocked'
  BY DEF SessionIsLocked, Holds, InSession
<1> QED BY <1>1, <1>2, <1>3

\* PS_OPEN changes no belief: a handle it replaces or reuses is unlocked.
LEMMA OpenQuiet ==
    ASSUME TypeOK, LockInv, NEW w \in Workers, ~is_locked[w],
           PsOpen(w) \/ (NoHandle(w) /\ Lapse({}))
    PROVE  /\ is_locked' = is_locked
           /\ \A u \in Workers : is_locked[u] => lock_key'[u] = lock_key[u]
           /\ lapsed' \subseteq lapsed
           /\ \A u \in Workers : is_locked[u] /\ lock_key[u] \in lapsed
                                  => lock_key[u] \in lapsed'
<1> USE DEF TypeOK
<1>1. /\ is_locked' = is_locked
      /\ \A u \in Workers : is_locked[u] => lock_key'[u] = lock_key[u]
  <2>1. CASE UNCHANGED handle
    BY <2>1 DEF handle
  <2>2. CASE FreshUserData(w)
    <3>1. [is_locked EXCEPT ![w] = FALSE] = is_locked
      BY Zenon
    <3> QED BY <2>2, <3>1 DEF FreshUserData
  <2> QED BY <2>1, <2>2 DEF PsOpen, ReuseHandle, NewHandle, NoHandle
<1>2. Lapse({})
  BY DEF PsOpen
<1> QED BY <1>1, <1>2 DEF Lapse

\* PS_OPEN followed by a phase that does not need the lock keeps the discipline.
LEMMA OpenKeepsLocks ==
    ASSUME TypeOK, LockInv, NEW w \in Workers, ~is_locked[w],
           PsOpen(w) \/ (NoHandle(w) /\ Lapse({})),
           NEW label \in {"idle", "create_sid", "validate_sid", "lock", "get"},
           label = "get" => ~LockEnabled,
           pc' = [pc EXCEPT ![w] = label],
           \A u \in Workers \ {w} : sid'[u] = sid[u],
           lock' = lock
    PROVE  LockInv'
<1> USE DEF TypeOK, LockInv
<1>1. /\ is_locked' = is_locked
      /\ \A u \in Workers : is_locked[u] => lock_key'[u] = lock_key[u]
      /\ \A u \in Workers : is_locked[u] /\ lock_key[u] \in lapsed => lock_key[u] \in lapsed'
  BY OpenQuiet
<1>2. LockedHasKey' /\ HeldLock'
  BY <1>1 DEF LockedHasKey, HeldLock
<1>3. LockStartsUnlocked'
  BY <1>1 DEF LockStartsUnlocked
<1>4. SessionIsLocked'
  BY <1>1 DEF SessionIsLocked, Holds, InSession
<1> QED BY <1>2, <1>3, <1>4

\* Giving up a lock, or losing it with the process or with the handle, keeps the discipline.
LEMMA UnlockKeepsLocks ==
    ASSUME TypeOK, LockInv, NEW w \in Workers, FreshUserData(w), Lapse({}),
           \/ lock' = lock
           \/ is_locked[w] /\ lock' = [lock EXCEPT ![lock_key[w]] = NoWorker],
           NEW label \in {"idle", "reopen", "close", "validate_sid", "lock", "get"},
           label = "get" => ~LockEnabled,
           pc' = [pc EXCEPT ![w] = label],
           UNCHANGED sid
    PROVE  LockInv'
<1> USE DEF TypeOK, LockInv, FreshUserData
<1>1. LockedHasKey'
  BY DEF LockedHasKey
<1>2. HeldLock'
  <2> SUFFICES ASSUME NEW u \in Workers, is_locked'[u], lock_key'[u] \notin lapsed'
               PROVE  lock'[lock_key'[u]] = u
    BY DEF HeldLock
  <2>1. u # w /\ is_locked[u] /\ lock_key'[u] = lock_key[u] /\ lock_key[u] \in Sids
    BY DEF LockedHasKey
  <2>2. lock_key[u] \notin lapsed
    BY <2>1 DEF Lapse
  <2>3. lock[lock_key[u]] = u
    BY <2>1, <2>2 DEF HeldLock
  <2>4. is_locked[w] => lock_key[w] # lock_key[u]
    BY <2>1, <2>2, <2>3 DEF HeldLock
  <2> QED BY <2>1, <2>3, <2>4
<1>3. LockStartsUnlocked'
  BY DEF LockStartsUnlocked
<1>4. SessionIsLocked'
  BY DEF SessionIsLocked, Holds, InSession
<1> QED BY <1>1, <1>2, <1>3, <1>4

\* session_reset() keeps the discipline: a locked handle is met again by a stray worker
\* only, and any other handle is a new one.
LEMMA ResetKeepsLocks ==
    ASSUME TypeOK, LockInv, NEW w \in Workers, Reset(w)
    PROVE  LockInv'
<1> USE DEF TypeOK, memcached
<1>1. PICK label \in {"validate_sid", "lock", "get"} :
        /\ label = "get" => ~LockEnabled
        /\ pc' = [pc EXCEPT ![w] = label]
  BY DEF Reset, EnterRead, Goto
<1>2. lock' = lock /\ sid' = sid /\ Lapse({})
  BY DEF Reset, PsOpen
<1>3. CASE NewHandle(w)
  BY <1>1, <1>2, <1>3, UnlockKeepsLocks DEF NewHandle
<1>4. CASE ReuseHandle(w)
  <2> USE <1>1, <1>2, <1>4 DEF ReuseHandle, handle, LockInv
  <2>1. w \in Strays
    BY DEF Reset, Strays
  <2>2. LockedHasKey' /\ HeldLock'
    BY DEF LockedHasKey, HeldLock, Lapse
  <2>3. LockStartsUnlocked'
    BY <2>1 DEF LockStartsUnlocked
  <2>4. SessionIsLocked'
    BY <2>1 DEF SessionIsLocked, Holds, InSession
  <2> QED BY <2>2, <2>3, <2>4
<1> QED BY <1>3, <1>4 DEF Reset, PsOpen

\* Every step keeps the locking discipline.
LEMMA LockStep ==
    ASSUME TypeOK, LockInv, [Next]_vars
    PROVE  LockInv'
<1> USE DEF memcached, handle, request, beliefs, Labels
<1>1. ASSUME NEW w \in Workers, Begin(w)
      PROVE  LockInv'
  <2>1. ~is_locked[w]
    BY <1>1 DEF Begin, Start, StartNew, StartFails, LockInv, LockStartsUnlocked
  <2>2. ASSUME NEW s \in Sids, Start(w, s)
        PROVE  LockInv'
    BY <2>1, <2>2, OpenKeepsLocks DEF Start, EnterRead, Goto, TypeOK
  <2>3. CASE StartNew(w)
    BY <2>1, <2>3, OpenKeepsLocks DEF StartNew, EnterCreateSid, Goto
  <2>4. CASE StartFails(w)
    <3>1. pc' = [pc EXCEPT ![w] = "idle"]
      BY <2>4 DEF StartFails, TypeOK
    <3> QED BY <2>1, <2>4, <3>1, OpenKeepsLocks DEF StartFails
  <2> QED BY <1>1, <2>2, <2>3, <2>4 DEF Begin
<1>2. ASSUME NEW w \in Workers, Continue(w) \/ Script(w)
      PROVE  LockInv'
  <2>1. /\ pc[w] = "reopen" => ~is_locked[w]
        /\ pc[w] \in {"create_sid", "validate_sid", "lock"} => ~is_locked[w] \/ w \in Strays
    BY DEF LockInv, LockStartsUnlocked
  <2>2. ASSUME NEW s \in Sids, CreateSid(w, s)
        PROVE  LockInv'
    <3>1. \A u \in Workers \ {w} : sid'[u] = sid[u]
      BY <2>2 DEF CreateSid, TypeOK
    <3> QED BY <2>1, <2>2, <3>1, LockQuiet DEF CreateSid, EnterRead, Goto
  <2>3. ASSUME NEW s \in Sids, CreateSidFails(w, s)
        PROVE  LockInv'
    BY <2>1, <2>3, LockQuiet DEF CreateSidFails, Goto
  <2>4. CASE ValidateSid(w) \/ ValidateSidFails(w)
    BY <2>1, <2>4, LockQuiet DEF ValidateSid, ValidateSidFails, EnterRead, EnterCreateSid, Goto
  <2>5. CASE LockAcquired(w)
    <3> USE <2>5 DEF LockAcquired, Goto, TypeOK, LockInv
    <3>1. LockedHasKey'
      BY DEF LockedHasKey
    <3>2. HeldLock'
      <4> SUFFICES ASSUME NEW u \in Workers, is_locked'[u], lock_key'[u] \notin lapsed', u # w
                   PROVE  lock'[lock_key'[u]] = u
        BY DEF HeldLock
      <4>1. is_locked[u] /\ lock_key'[u] = lock_key[u] /\ lock_key[u] \in Sids
        BY DEF LockedHasKey
      <4>2. lock_key[u] \notin lapsed
        BY <4>1 DEF Lapse
      <4>3. lock[lock_key[u]] = u /\ lock_key[u] # sid[w]
        BY <4>1, <4>2, ConstantsAssumption DEF HeldLock, ConstantsAssumption
      <4> QED BY <4>1, <4>3
    <3>3. LockStartsUnlocked'
      BY DEF LockStartsUnlocked
    <3>4. SessionIsLocked'
      BY DEF SessionIsLocked, Holds, InSession
    <3> QED BY <3>1, <3>2, <3>3, <3>4
  <2>6. CASE LockBusy(w)
    BY <2>1, <2>6, LockQuiet DEF LockBusy, NextLockAttempt, Goto
  <2>7. CASE LockError(w)
    <3>1. CASE lock' = lock
      BY <2>1, <2>7, <3>1, LockQuiet DEF LockError, NextLockAttempt, Goto
    <3>2. CASE lock[sid[w]] = NoWorker /\ lock' = [lock EXCEPT ![sid[w]] = w]
      <4> USE <2>7, <3>2 DEF LockError, NextLockAttempt, Goto, TypeOK, LockInv
      <4>1. LockedHasKey' /\ HeldLock'
        BY ConstantsAssumption DEF LockedHasKey, HeldLock, ConstantsAssumption
      <4>2. LockStartsUnlocked'
        BY <2>1 DEF LockStartsUnlocked
      <4>3. SessionIsLocked'
        BY <2>1 DEF SessionIsLocked, Holds, InSession
      <4> QED BY <4>1, <4>2, <4>3
    <3> QED BY <2>7, <3>1, <3>2 DEF LockError
  <2>8. CASE Read(w)
    <3>1. InSession(w)'
      BY <2>8 DEF Read, Goto, InSession, TypeOK
    <3> QED BY <2>8, <3>1, LockQuiet DEF Read, Goto
  <2>9. CASE ReadFails(w) \/ Abort(w) \/ Write(w) \/ UpdateTimestamp(w) \/ Destroy(w)
    BY <2>9, LockQuiet DEF ReadFails, Abort, Write, UpdateTimestamp, Destroy, Goto
  <2>10. ASSUME NEW v \in Payloads, Save(w, v)
         PROVE  LockInv'
    <3>1. InSession(w)'
      BY <2>10 DEF Save, EnterWrite, Goto, InSession, TypeOK
    <3> QED BY <2>10, <3>1, LockQuiet DEF Save, EnterWrite, Goto
  <2>11. CASE SaveUnchanged(w) \/ DestroySession(w)
    <3>1. InSession(w)'
      BY <2>11 DEF SaveUnchanged, DestroySession, Goto, InSession, TypeOK
    <3> QED BY <2>11, <3>1, LockQuiet DEF SaveUnchanged, DestroySession, Goto
  <2>12. CASE WriteFails(w)
    <3>1. pc' = [pc EXCEPT ![w] = "write"] \/ pc' = [pc EXCEPT ![w] = "close"]
      BY <2>12 DEF WriteFails, Goto, TypeOK
    <3>2. pc' = [pc EXCEPT ![w] = "write"] => InSession(w)'
      BY DEF InSession, TypeOK
    <3> QED BY <2>12, <3>1, <3>2, LockQuiet DEF WriteFails
  <2>13. CASE DestroyUnlocks(w)
    <3>1. CASE is_locked[w]
      BY <2>13, <3>1, UnlockKeepsLocks DEF DestroyUnlocks, UnlockIfLocked, UnlockSession, Goto
    <3>2. CASE ~is_locked[w]
      BY <2>13, <3>2, LockQuiet DEF DestroyUnlocks, UnlockIfLocked, Goto
    <3> QED BY <3>1, <3>2
  <2>14. CASE Close(w)
    <3>1. CASE is_locked[w]
      BY <2>14, <3>1, UnlockKeepsLocks DEF Close, UnlockIfLocked, UnlockSession, Goto
    <3>2. CASE ~is_locked[w]
      <4> USE <2>14, <3>2 DEF Close, UnlockIfLocked, Goto, TypeOK, LockInv
      <4>1. LockedHasKey' /\ HeldLock'
        BY DEF LockedHasKey, HeldLock
      <4>2. LockStartsUnlocked'
        BY DEF LockStartsUnlocked
      <4>3. SessionIsLocked'
        BY DEF SessionIsLocked, Holds, InSession
      <4> QED BY <4>1, <4>2, <4>3
    <3> QED BY <3>1, <3>2
  <2>15. CASE Reopen(w)
    BY <2>1, <2>15, OpenKeepsLocks DEF Reopen, EnterCreateSid, Goto
  <2>16. CASE ReopenFails(w)
    BY <2>1, <2>16, OpenKeepsLocks DEF ReopenFails, Goto
  <2>17. CASE Reset(w)
    BY <2>17, ResetKeepsLocks
  <2>18. CASE ResetFails(w)
    BY <2>18, UnlockKeepsLocks DEF ResetFails, Goto
  <2> QED
    BY <1>2, <2>2, <2>3, <2>4, <2>5, <2>6, <2>7, <2>8, <2>9, <2>10, <2>11, <2>12, <2>13,
       <2>14, <2>15, <2>16, <2>17, <2>18 DEF Continue, Script
<1>3. ASSUME NEW w \in Workers, Crash(w)
      PROVE  LockInv'
  BY <1>3, UnlockKeepsLocks DEF Crash, Goto
<1>4. ASSUME NEW s \in Sids, ExpireLock(s)
      PROVE  LockInv'
  <2> USE <1>4 DEF ExpireLock, TypeOK, LockInv
  <2>1. HeldLock'
    BY DEF HeldLock, LockedHasKey, Lapse
  <2>2. LockedHasKey' /\ LockStartsUnlocked' /\ SessionIsLocked'
    BY DEF LockedHasKey, LockStartsUnlocked, SessionIsLocked, Holds, InSession
  <2> QED BY <2>1, <2>2
<1>5. ASSUME NEW s \in Sids, ExpireSession(s)
      PROVE  LockInv'
  BY <1>5 DEF ExpireSession, LockInv, LockedHasKey, HeldLock, LockStartsUnlocked,
              SessionIsLocked, Holds, InSession
<1>6. CASE UNCHANGED vars
  BY <1>6 DEF vars, LockInv, LockedHasKey, HeldLock, LockStartsUnlocked,
              SessionIsLocked, Holds, InSession
<1> QED BY <1>1, <1>2, <1>3, <1>4, <1>5, <1>6 DEF Next

\* The locking discipline holds in every reachable state.
THEOREM LockDiscipline == Spec => []LockInv
<1>1. Init => LockInv
  BY DEF Init, LockInv, LockedHasKey, HeldLock, LockStartsUnlocked, SessionIsLocked, InSession
<1> QED BY <1>1, LockStep, TypeCorrect, PTL DEF Spec

\* Two workers hold one session's lock at the same time only if that lock lapsed.
THEOREM Exclusion == Spec => []MutualExclusion
<1>1. TypeOK /\ LockInv => MutualExclusion
  BY DEF LockInv, HeldLock, MutualExclusion, Holds
<1> QED BY <1>1, TypeCorrect, LockDiscipline, PTL

-----------------------------------------------------------------------------
(* Session data.  With locking on, only the holder of a lock that has not   *)
(* lapsed reaches the payload, so what it read stays what is there.         *)

\* A worker's session stays out of "lapsed" only if it was out of it before.
LEMMA LapsedBefore ==
    ASSUME LockEnabled, Strays = {}, LockInv',
           lapsed' = lapsed \/ \E more \in SUBSET Sids : Lapse(more),
           NEW u \in Workers, InSession(u)', sid'[u] \notin lapsed'
    PROVE  sid'[u] \notin lapsed
BY DEF LockInv, SessionIsLocked, Holds, Lapse

\* A step of w (or of memcached) after which every payload reads as before or as empty
\* keeps the promise, if w does not take up a new session or a new write.
LEMMA ViewKept ==
    ASSUME TypeOK, TypeOK', LockEnabled, Strays = {}, LockInv', NoLostUpdate, NEW w \in Workers,
           lapsed' = lapsed \/ \E more \in SUBSET Sids : Lapse(more),
           \A s \in Sids : View(s)' \in {View(s), Empty},
           \A u \in Workers \ {w} : /\ pc'[u] = pc[u] /\ sid'[u] = sid[u]
                                   /\ got'[u] = got[u] /\ val'[u] = val[u],
           InSession(w)' => /\ InSession(w) /\ sid'[w] = sid[w] /\ got'[w] = got[w]
                            /\ pc[w] = "write" => pc'[w] = "write" /\ val'[w] = val[w]
    PROVE  NoLostUpdate'
<1> SUFFICES ASSUME NEW u \in Workers, InSession(u)', sid'[u] \notin lapsed'
             PROVE  \/ View(sid[u])' \in {got'[u], Empty}
                    \/ pc'[u] = "write" /\ View(sid[u])' = val'[u]
  BY DEF NoLostUpdate
<1>1. InSession(u) /\ sid'[u] = sid[u] /\ got'[u] = got[u]
  BY DEF InSession
<1>2. sid[u] \notin lapsed
  BY <1>1, LapsedBefore
<1>3. sid[u] \in Sids
  BY DEF TypeOK
<1>4. View(sid[u])' \in {View(sid[u]), Empty}
  BY <1>1, <1>3 DEF View
<1> QED BY <1>1, <1>2, <1>4 DEF NoLostUpdate

\* A step of w that stores w's own payload in its session, if at all, and stays in the
\* write or leaves the session keeps the promise.
LEMMA OwnWriteKept ==
    ASSUME TypeOK, LockEnabled, Strays = {}, LockInv, NoLostUpdate, NEW w \in Workers,
           pc[w] = "write",
           sess' = [sess EXCEPT ![sid[w]] = val[w]],
           pc' = pc \/ pc' = [pc EXCEPT ![w] = "close"],
           UNCHANGED <<sid, got, val, lapsed>>
    PROVE  NoLostUpdate'
<1> USE DEF TypeOK
<1> SUFFICES ASSUME NEW u \in Workers, InSession(u)', sid[u] \notin lapsed
             PROVE  \/ View(sid[u])' \in {got[u], Empty}
                    \/ pc'[u] = "write" /\ View(sid[u])' = val[u]
  BY DEF NoLostUpdate
<1>1. InSession(u) /\ InSession(w)
  BY DEF InSession
<1>2. CASE u = w
  <2>1. pc'[u] = "write"
    BY <1>2 DEF InSession
  <2>2. View(sid[u])' = val[u]
    BY <1>2, ConstantsAssumption DEF View, ConstantsAssumption
  <2> QED BY <2>1, <2>2
<1>3. CASE u # w
  <2>1. sid[u] # sid[w]
    <3>1. Holds(u, sid[u]) /\ Holds(w, sid[w])
      BY <1>1 DEF LockInv, SessionIsLocked
    <3>2. sid[u] = sid[w] => lock[sid[u]] = u /\ lock[sid[u]] = w
      BY <3>1 DEF LockInv, HeldLock, Holds
    <3> QED BY <1>3, <3>2
  <2>2. View(sid[u])' = View(sid[u]) /\ pc'[u] = pc[u]
    BY <1>3, <2>1 DEF View
  <2> QED BY <1>1, <2>2 DEF NoLostUpdate
<1> QED BY <1>2, <1>3

\* Every step keeps the promise that no update is lost.
LEMMA DataStep ==
    ASSUME TypeOK, TypeOK', LockInv, LockInv', NoLostUpdate, [Next]_vars
    PROVE  NoLostUpdate'
<1> SUFFICES ASSUME LockEnabled, Strays = {}
             PROVE  NoLostUpdate'
  BY DEF NoLostUpdate
<1> USE DEF memcached, handle, request
<1>1. ASSUME NEW w \in Workers, Begin(w)
      PROVE  NoLostUpdate'
  <2>1. \E more \in SUBSET Sids : Lapse(more)
    BY <1>1 DEF Begin, Start, StartNew, StartFails, PsOpen
  <2>2. ~InSession(w)'
    BY <1>1 DEF Begin, Start, StartNew, StartFails, EnterRead, EnterCreateSid, Goto,
                InSession, TypeOK
  <2>3. \A s \in Sids : View(s)' = View(s)
    BY <1>1 DEF Begin, Start, StartNew, StartFails, View
  <2>4. \A u \in Workers \ {w} : /\ pc'[u] = pc[u] /\ sid'[u] = sid[u]
                                 /\ got'[u] = got[u] /\ val'[u] = val[u]
    BY <1>1 DEF Begin, Start, StartNew, StartFails, EnterRead, EnterCreateSid, Goto, TypeOK
  <2> QED BY <2>1, <2>2, <2>3, <2>4, ViewKept
<1>2. ASSUME NEW w \in Workers, Continue(w) \/ Script(w)
      PROVE  NoLostUpdate'
  <2>1. ASSUME NEW s \in Sids, CreateSid(w, s) \/ CreateSidFails(w, s)
        PROVE  NoLostUpdate'
    <3>1. \A r \in Sids : View(r)' \in {View(r), Empty}
      BY <2>1, ConstantsAssumption DEF CreateSid, CreateSidFails, View, TypeOK,
                                       ConstantsAssumption
    <3>2. ~InSession(w)'
      BY <2>1 DEF CreateSid, CreateSidFails, EnterRead, Goto, InSession, TypeOK
    <3>3. \A u \in Workers \ {w} : /\ pc'[u] = pc[u] /\ sid'[u] = sid[u]
                                   /\ got'[u] = got[u] /\ val'[u] = val[u]
      BY <2>1 DEF CreateSid, CreateSidFails, EnterRead, Goto, TypeOK
    <3> QED BY <2>1, <3>1, <3>2, <3>3, ViewKept DEF CreateSid, CreateSidFails
  <2>2. CASE \/ ValidateSid(w) \/ ValidateSidFails(w) \/ LockBusy(w) \/ LockError(w)
             \/ ReadFails(w) \/ Abort(w) \/ UpdateTimestamp(w)
    <3> USE <2>2 DEF ValidateSid, ValidateSidFails, LockBusy, LockError, ReadFails, Abort,
                     UpdateTimestamp, EnterRead, EnterCreateSid, NextLockAttempt, Goto
    <3>1. \A r \in Sids : View(r)' \in {View(r), Empty}
      BY DEF View
    <3>2. ~InSession(w)'
      BY DEF InSession, TypeOK
    <3>3. \A u \in Workers \ {w} : /\ pc'[u] = pc[u] /\ sid'[u] = sid[u]
                                   /\ got'[u] = got[u] /\ val'[u] = val[u]
      BY DEF TypeOK
    <3>4. lapsed' = lapsed
      OBVIOUS
    <3> HIDE <2>2
    <3> QED BY <3>1, <3>2, <3>3, <3>4, ViewKept
  <2>3. CASE LockAcquired(w) \/ DestroyUnlocks(w) \/ Close(w)
    <3>1. \A r \in Sids : View(r)' \in {View(r), Empty}
      BY <2>3 DEF LockAcquired, DestroyUnlocks, Close, View
    <3>2. ~InSession(w)'
      BY <2>3 DEF LockAcquired, DestroyUnlocks, Close, Goto, InSession, TypeOK
    <3>3. \A u \in Workers \ {w} : /\ pc'[u] = pc[u] /\ sid'[u] = sid[u]
                                   /\ got'[u] = got[u] /\ val'[u] = val[u]
      BY <2>3 DEF LockAcquired, DestroyUnlocks, Close, EndRequest, Goto, TypeOK
    <3>4. lapsed' = lapsed \/ \E more \in SUBSET Sids : Lapse(more)
      BY <2>3 DEF LockAcquired, DestroyUnlocks, Close, UnlockIfLocked, UnlockSession
    <3> QED BY <3>1, <3>2, <3>3, <3>4, ViewKept
  <2>4. CASE Read(w)
    <3> SUFFICES ASSUME NEW u \in Workers, InSession(u)', sid'[u] \notin lapsed'
                 PROVE  \/ View(sid[u])' \in {got'[u], Empty}
                        \/ pc'[u] = "write" /\ View(sid[u])' = val'[u]
      BY DEF NoLostUpdate
    <3>1. View(sid[u])' = View(sid[u])
      BY <2>4 DEF Read, View
    <3>2. CASE u = w
      BY <2>4, <3>1, <3>2 DEF Read, TypeOK
    <3>3. CASE u # w
      <4>1. InSession(u) /\ sid[u] \notin lapsed /\ pc'[u] = pc[u]
        BY <2>4, <3>3 DEF Read, Goto, InSession, TypeOK
      <4>2. got'[u] = got[u] /\ val'[u] = val[u]
        BY <2>4, <3>3 DEF Read, TypeOK
      <4> QED BY <3>1, <4>1, <4>2 DEF NoLostUpdate
    <3> QED BY <3>2, <3>3
  <2>5. ASSUME NEW v \in Payloads, Save(w, v)
        PROVE  NoLostUpdate'
    <3>1. \A r \in Sids : View(r)' \in {View(r), Empty}
      BY <2>5 DEF Save, View
    <3>2. InSession(w) /\ sid'[w] = sid[w] /\ got'[w] = got[w] /\ pc[w] # "write"
      BY <2>5 DEF Save, InSession
    <3>3. \A u \in Workers \ {w} : /\ pc'[u] = pc[u] /\ sid'[u] = sid[u]
                                   /\ got'[u] = got[u] /\ val'[u] = val[u]
      BY <2>5 DEF Save, EnterWrite, Goto, TypeOK
    <3>4. lapsed' = lapsed
      BY <2>5 DEF Save
    <3> QED BY <3>1, <3>2, <3>3, <3>4, ViewKept
  <2>6. CASE SaveUnchanged(w) \/ DestroySession(w)
    <3>1. \A r \in Sids : View(r)' \in {View(r), Empty}
      BY <2>6 DEF SaveUnchanged, DestroySession, View
    <3>2. InSession(w) /\ sid'[w] = sid[w] /\ got'[w] = got[w] /\ pc[w] # "write"
      BY <2>6 DEF SaveUnchanged, DestroySession, InSession
    <3>3. \A u \in Workers \ {w} : /\ pc'[u] = pc[u] /\ sid'[u] = sid[u]
                                   /\ got'[u] = got[u] /\ val'[u] = val[u]
      BY <2>6 DEF SaveUnchanged, DestroySession, Goto, TypeOK
    <3>4. lapsed' = lapsed
      BY <2>6 DEF SaveUnchanged, DestroySession
    <3> QED BY <3>1, <3>2, <3>3, <3>4, ViewKept
  <2>7. CASE Write(w)
    BY <2>7, OwnWriteKept DEF Write, Goto
  <2>8. CASE WriteFails(w)
    <3>1. pc' = pc \/ pc' = [pc EXCEPT ![w] = "close"]
      BY <2>8 DEF WriteFails, Goto
    <3>2. CASE sess' = [sess EXCEPT ![sid[w]] = val[w]]
      BY <2>8, <3>1, <3>2, OwnWriteKept DEF WriteFails
    <3>3. CASE sess' = sess
      <4>1. \A r \in Sids : View(r)' \in {View(r), Empty}
        BY <3>3 DEF View
      <4>2. /\ InSession(w)' => pc'[w] = "write"
            /\ InSession(w)
            /\ \A u \in Workers \ {w} : pc'[u] = pc[u]
        BY <2>8, <3>1 DEF WriteFails, InSession, TypeOK
      <4> QED BY <2>8, <4>1, <4>2, ViewKept DEF WriteFails
    <3> QED BY <2>8, <3>2, <3>3 DEF WriteFails
  <2>9. CASE Destroy(w)
    <3>1. \A r \in Sids : View(r)' \in {View(r), Empty}
      BY <2>9 DEF Destroy, View, TypeOK
    <3>2. ~InSession(w)' /\ \A u \in Workers \ {w} : pc'[u] = pc[u]
      BY <2>9 DEF Destroy, Goto, InSession, TypeOK
    <3> QED BY <2>9, <3>1, <3>2, ViewKept DEF Destroy
  <2>10. CASE Reopen(w) \/ ReopenFails(w)
    <3>1. \A r \in Sids : View(r)' \in {View(r), Empty}
      BY <2>10 DEF Reopen, ReopenFails, View
    <3>2. ~InSession(w)' /\ \A u \in Workers \ {w} : pc'[u] = pc[u]
      BY <2>10 DEF Reopen, ReopenFails, EnterCreateSid, Goto, InSession, TypeOK
    <3>3. \E more \in SUBSET Sids : Lapse(more)
      BY <2>10 DEF Reopen, ReopenFails, PsOpen
    <3> QED BY <2>10, <3>1, <3>2, <3>3, ViewKept DEF Reopen, ReopenFails
  <2>11. CASE Reset(w) \/ ResetFails(w)
    <3>1. \A r \in Sids : View(r)' \in {View(r), Empty}
      BY <2>11 DEF Reset, ResetFails, View
    <3>2. ~InSession(w)' /\ \A u \in Workers \ {w} : pc'[u] = pc[u]
      BY <2>11 DEF Reset, ResetFails, EnterRead, Goto, InSession, TypeOK
    <3>3. \A u \in Workers \ {w} : sid'[u] = sid[u] /\ got'[u] = got[u] /\ val'[u] = val[u]
      BY <2>11 DEF Reset, ResetFails, EndRequest, TypeOK
    <3>4. \E more \in SUBSET Sids : Lapse(more)
      BY <2>11 DEF Reset, ResetFails, PsOpen
    <3> QED BY <3>1, <3>2, <3>3, <3>4, ViewKept
  <2> QED
    BY <1>2, <2>1, <2>2, <2>3, <2>4, <2>5, <2>6, <2>7, <2>8, <2>9, <2>10, <2>11
       DEF Continue, Script
<1>3. ASSUME NEW w \in Workers, Crash(w)
      PROVE  NoLostUpdate'
  <2>1. \A r \in Sids : View(r)' \in {View(r), Empty}
    BY <1>3 DEF Crash, View
  <2>2. ~InSession(w)' /\ \A u \in Workers \ {w} : /\ pc'[u] = pc[u] /\ sid'[u] = sid[u]
                                                  /\ got'[u] = got[u] /\ val'[u] = val[u]
    BY <1>3 DEF Crash, EndRequest, Goto, InSession, TypeOK
  <2>3. \E more \in SUBSET Sids : Lapse(more)
    BY <1>3 DEF Crash
  <2> QED BY <2>1, <2>2, <2>3, ViewKept
<1>4. ASSUME NEW s \in Sids, ExpireLock(s) \/ ExpireSession(s)
      PROVE  NoLostUpdate'
  <2>1. \A r \in Sids : View(r)' \in {View(r), Empty}
    BY <1>4 DEF ExpireLock, ExpireSession, View, TypeOK
  <2>2. lapsed' = lapsed \/ \E more \in SUBSET Sids : Lapse(more)
    BY <1>4 DEF ExpireLock, ExpireSession
  <2>3. UNCHANGED <<pc, request>>
    BY <1>4 DEF ExpireLock, ExpireSession
  <2>4. CASE Workers = {}
    BY <2>4 DEF NoLostUpdate
  <2>5. ASSUME NEW w \in Workers
        PROVE  NoLostUpdate'
    BY <2>1, <2>2, <2>3, ViewKept DEF InSession
  <2> QED BY <2>4, <2>5
<1>5. CASE UNCHANGED vars
  BY <1>5 DEF vars, NoLostUpdate, InSession, View
<1> QED BY <1>1, <1>2, <1>3, <1>4, <1>5 DEF Next

\* No update is lost: a worker whose lock has not lapsed writes over what it has read, if
\* session_reset() meets no persistent handle.
THEOREM UpdatesKept == Spec => []NoLostUpdate
<1>1. Init => NoLostUpdate
  BY DEF Init, NoLostUpdate, InSession
<1> QED BY <1>1, DataStep, TypeCorrect, LockDiscipline, PTL DEF Spec

-----------------------------------------------------------------------------
(* Lock records that outlive their use.  NoStaleLock is inductive on top of *)
(* LockInv: a record enters memcached together with the belief of its       *)
(* creator, and the belief ends only with the deletion of that very record, *)
(* because a handle that PS_OPEN throws away is unlocked, except in a       *)
(* worker that calls session_reset().                                       *)

\* A step that leaves the lock records and the beliefs that are held alone keeps the
\* promise, if a worker that holds a lock goes neither to rest nor to reopen.
LEMMA NoStaleQuiet ==
    ASSUME TypeOK, NoStaleLock, NEW w \in Workers, lock' = lock, is_locked' = is_locked,
           \A u \in Workers : is_locked[u] => lock_key'[u] = lock_key[u],
           \A u \in Workers \ {w} : pc'[u] = pc[u],
           is_locked[w] => pc'[w] \notin {"idle", "reopen"}
    PROVE  NoStaleLock'
<1> SUFFICES ASSUME ~Crashes, ~MayFail("add_lock"), ~MayFail("delete_lock"),
                    NEW s \in Sids, lock[s] \notin Resets \cup {NoWorker}
             PROVE  Holds(lock[s], s)' /\ pc'[lock[s]] \notin {"idle", "reopen"}
  BY DEF NoStaleLock, MayFail
<1>1. lock[s] \in Workers
  BY DEF TypeOK
<1>2. Holds(lock[s], s) /\ pc[lock[s]] \notin {"idle", "reopen"}
  BY DEF NoStaleLock, MayFail
<1> QED BY <1>1, <1>2 DEF Holds

\* s_unlock_session keeps the promise: the record it deletes is the only one of w.
LEMMA NoStaleUnlock ==
    ASSUME TypeOK, NoStaleLock, NEW w \in Workers, UnlockIfLocked(w),
           \A u \in Workers \ {w} : pc'[u] = pc[u]
    PROVE  NoStaleLock'
<1> SUFFICES ASSUME ~Crashes, ~MayFail("add_lock"), ~MayFail("delete_lock"),
                    NEW s \in Sids, lock'[s] \notin Resets \cup {NoWorker}
             PROVE  Holds(lock[s], s)' /\ pc'[lock'[s]] \notin {"idle", "reopen"}
  BY DEF NoStaleLock, MayFail
<1> USE DEF TypeOK
<1>1. CASE is_locked[w]
  <2>1. /\ lock' = [lock EXCEPT ![lock_key[w]] = NoWorker]
        /\ is_locked' = [is_locked EXCEPT ![w] = FALSE]
        /\ lock_key' = [lock_key EXCEPT ![w] = NoSid]
    BY <1>1 DEF UnlockIfLocked, UnlockSession, FreshUserData
  <2>2. s # lock_key[w] /\ lock'[s] = lock[s] /\ lock[s] \in Workers
    BY <2>1
  <2>3. Holds(lock[s], s) /\ pc[lock[s]] \notin {"idle", "reopen"}
    BY <2>2 DEF NoStaleLock, MayFail
  <2>4. lock[s] # w
    BY <2>2, <2>3 DEF Holds
  <2> QED BY <2>1, <2>2, <2>3, <2>4 DEF Holds
<1>2. CASE ~is_locked[w]
  <2>1. UNCHANGED <<lock, is_locked, lock_key>>
    BY <1>2 DEF UnlockIfLocked
  <2>2. lock[s] \in Workers
    BY <2>1
  <2>3. Holds(lock[s], s) /\ pc[lock[s]] \notin {"idle", "reopen"}
    BY <2>1 DEF NoStaleLock, MayFail
  <2> QED BY <1>2, <2>1, <2>2, <2>3 DEF Holds
<1> QED BY <1>1, <1>2

\* Every step keeps the promise.
LEMMA NoStaleStep ==
    ASSUME TypeOK, LockInv, NoStaleLock, [Next]_vars
    PROVE  NoStaleLock'
<1> USE DEF memcached, handle, request
<1>1. ASSUME NEW w \in Workers, ~is_locked[w], lock' = lock,
             PsOpen(w) \/ (NoHandle(w) /\ Lapse({})),
             \A u \in Workers \ {w} : pc'[u] = pc[u]
      PROVE  NoStaleLock'
  <2>1. /\ is_locked' = is_locked
        /\ \A u \in Workers : is_locked[u] => lock_key'[u] = lock_key[u]
    BY <1>1, OpenQuiet
  <2> QED BY <1>1, <2>1, NoStaleQuiet
<1>2. ASSUME NEW w \in Workers, Begin(w)
      PROVE  NoStaleLock'
  <2>1. ~is_locked[w]
    BY <1>2 DEF Begin, Start, StartNew, StartFails, LockInv, LockStartsUnlocked
  <2>2. lock' = lock /\ (PsOpen(w) \/ (NoHandle(w) /\ Lapse({})))
    BY <1>2 DEF Begin, Start, StartNew, StartFails
  <2>3. \A u \in Workers \ {w} : pc'[u] = pc[u]
    BY <1>2 DEF Begin, Start, StartNew, StartFails, EnterRead, EnterCreateSid, Goto, TypeOK
  <2> QED BY <1>1, <2>1, <2>2, <2>3
<1>3. ASSUME NEW w \in Workers, Continue(w) \/ Script(w)
      PROVE  NoStaleLock'
  <2>1. ASSUME NEW s \in Sids, CreateSid(w, s) \/ CreateSidFails(w, s)
        PROVE  NoStaleLock'
    <3>1. /\ \A u \in Workers \ {w} : pc'[u] = pc[u]
          /\ pc'[w] \notin {"idle", "reopen"}
      BY <2>1 DEF CreateSid, CreateSidFails, EnterRead, Goto, TypeOK
    <3> QED BY <2>1, <3>1, NoStaleQuiet DEF CreateSid, CreateSidFails
  <2>2. CASE \/ ValidateSid(w) \/ ValidateSidFails(w) \/ LockBusy(w)
             \/ Read(w) \/ ReadFails(w)
    <3>1. /\ \A u \in Workers \ {w} : pc'[u] = pc[u]
          /\ pc'[w] \notin {"idle", "reopen"}
      BY <2>2 DEF ValidateSid, ValidateSidFails, LockBusy, Read, ReadFails, EnterRead,
                  EnterCreateSid, NextLockAttempt, Goto, TypeOK
    <3>2. UNCHANGED <<lock, is_locked, lock_key>>
      BY <2>2 DEF ValidateSid, ValidateSidFails, LockBusy, Read, ReadFails
    <3> QED BY <3>1, <3>2, NoStaleQuiet
  <2>3. CASE LockAcquired(w)
    <3> SUFFICES ASSUME ~Crashes, ~MayFail("add_lock"), ~MayFail("delete_lock"),
                        NEW s \in Sids, lock'[s] \notin Resets \cup {NoWorker}
                 PROVE  Holds(lock[s], s)' /\ pc'[lock'[s]] \notin {"idle", "reopen"}
      BY DEF NoStaleLock, MayFail
    <3> USE <2>3 DEF LockAcquired, Goto, TypeOK
    <3>1. CASE s = sid[w]
      BY <3>1 DEF Holds
    <3>2. CASE s # sid[w]
      <4>1. lock'[s] = lock[s] /\ lock[s] \in Workers
        BY <3>2
      <4>2. Holds(lock[s], s) /\ pc[lock[s]] \notin {"idle", "reopen"}
        BY <4>1 DEF NoStaleLock, MayFail
      <4>3. lock[s] # w
        BY <4>1, <4>2 DEF LockInv, LockStartsUnlocked, Strays, Holds
      <4> QED BY <4>1, <4>2, <4>3 DEF Holds
    <3> QED BY <3>1, <3>2
  <2>4. CASE LockError(w)
    BY <2>4 DEF LockError, NoStaleLock, MayFail
  <2>5. ASSUME NEW v \in Payloads, Save(w, v)
        PROVE  NoStaleLock'
    <3>1. /\ \A u \in Workers \ {w} : pc'[u] = pc[u]
          /\ pc'[w] \notin {"idle", "reopen"}
      BY <2>5 DEF Save, EnterWrite, Goto, TypeOK
    <3> QED BY <2>5, <3>1, NoStaleQuiet DEF Save
  <2>6. CASE \/ SaveUnchanged(w) \/ DestroySession(w) \/ Abort(w) \/ Write(w)
             \/ UpdateTimestamp(w) \/ Destroy(w)
    <3>1. /\ \A u \in Workers \ {w} : pc'[u] = pc[u]
          /\ pc'[w] \notin {"idle", "reopen"}
      BY <2>6 DEF SaveUnchanged, DestroySession, Abort, Write, UpdateTimestamp, Destroy,
                  Goto, TypeOK
    <3>2. UNCHANGED <<lock, is_locked, lock_key>>
      BY <2>6 DEF SaveUnchanged, DestroySession, Abort, Write, UpdateTimestamp, Destroy
    <3> QED BY <3>1, <3>2, NoStaleQuiet
  <2>7. CASE WriteFails(w)
    <3>1. /\ \A u \in Workers \ {w} : pc'[u] = pc[u]
          /\ pc'[w] \notin {"idle", "reopen"}
      BY <2>7 DEF WriteFails, Goto, TypeOK
    <3> QED BY <2>7, <3>1, NoStaleQuiet DEF WriteFails
  <2>8. CASE DestroyUnlocks(w) \/ Close(w)
    <3>1. UnlockIfLocked(w) /\ \A u \in Workers \ {w} : pc'[u] = pc[u]
      BY <2>8 DEF DestroyUnlocks, Close, Goto, TypeOK
    <3> QED BY <3>1, NoStaleUnlock
  <2>9. CASE Reopen(w) \/ ReopenFails(w)
    <3>1. ~is_locked[w]
      BY <2>9 DEF Reopen, ReopenFails, LockInv, LockStartsUnlocked
    <3>2. lock' = lock /\ (PsOpen(w) \/ (NoHandle(w) /\ Lapse({})))
      BY <2>9 DEF Reopen, ReopenFails
    <3>3. \A u \in Workers \ {w} : pc'[u] = pc[u]
      BY <2>9 DEF Reopen, ReopenFails, EnterCreateSid, Goto, TypeOK
    <3> QED BY <1>1, <3>1, <3>2, <3>3
  <2>10. CASE Reset(w) \/ ResetFails(w)
    <3> SUFFICES ASSUME ~Crashes, ~MayFail("add_lock"), ~MayFail("delete_lock"),
                        NEW s \in Sids, lock'[s] \notin Resets \cup {NoWorker}
                 PROVE  Holds(lock[s], s)' /\ pc'[lock'[s]] \notin {"idle", "reopen"}
      BY DEF NoStaleLock, MayFail
    <3>1. lock' = lock /\ lock[s] \in Workers \ {w}
      BY <2>10 DEF Reset, ResetFails, TypeOK
    <3>2. Holds(lock[s], s) /\ pc[lock[s]] \notin {"idle", "reopen"}
      BY <3>1 DEF NoStaleLock, MayFail
    <3>3. /\ is_locked'[lock[s]] = is_locked[lock[s]]
          /\ lock_key'[lock[s]] = lock_key[lock[s]]
      BY <2>10, <3>1 DEF Reset, ResetFails, PsOpen, ReuseHandle, NewHandle, FreshUserData,
                         TypeOK
    <3>4. pc'[lock[s]] = pc[lock[s]]
      BY <2>10, <3>1 DEF Reset, ResetFails, EnterRead, Goto, TypeOK
    <3> QED BY <3>1, <3>2, <3>3, <3>4 DEF Holds
  <2> QED
    BY <1>3, <2>1, <2>2, <2>3, <2>4, <2>5, <2>6, <2>7, <2>8, <2>9, <2>10
       DEF Continue, Script
<1>4. ASSUME NEW w \in Workers, Crash(w)
      PROVE  NoStaleLock'
  BY <1>4 DEF Crash, NoStaleLock
<1>5. ASSUME NEW s \in Sids, ExpireLock(s)
      PROVE  NoStaleLock'
  BY <1>5 DEF ExpireLock, NoStaleLock, Holds, TypeOK
<1>6. ASSUME NEW s \in Sids, ExpireSession(s)
      PROVE  NoStaleLock'
  BY <1>6 DEF ExpireSession, NoStaleLock, Holds
<1>7. CASE UNCHANGED vars
  BY <1>7 DEF vars, NoStaleLock, Holds
<1> QED BY <1>2, <1>3, <1>4, <1>5, <1>6, <1>7 DEF Next

\* No lock record outlives its use: while the calls on lock records are answered and no
\* process dies, the creator of every record knows it and is on its way to PS_CLOSE,
\* whichever other calls fail and however the request ends, unless it calls session_reset().
THEOREM LocksAreReleased == Spec => []NoStaleLock
<1>1. Init => NoStaleLock
  BY DEF Init, NoStaleLock
<1> QED BY <1>1, NoStaleStep, TypeCorrect, LockDiscipline, PTL DEF Spec

-----------------------------------------------------------------------------
(* The abstract session store.  Without expiring locks no lock lapses, so a *)
(* worker in a session is the one the lock record names, and each step      *)
(* takes, uses or gives up that worker's own lock, lets memcached forget a  *)
(* session, or changes nothing a store shows.                               *)

\* Locks that do not expire do not lapse.
LEMMA NothingLapses ==
    ASSUME ~LockExpires
    PROVE  Spec => [](lapsed = {})
<1>1. Init => lapsed = {}
  BY DEF Init
<1>2. ASSUME lapsed = {}, [Next]_vars
      PROVE  (lapsed = {})'
  <2>1. ASSUME NEW w \in Workers, Begin(w) \/ Continue(w) \/ Script(w) \/ Crash(w)
        PROVE  lapsed' = lapsed \/ Lapse({})
    <3>1. CASE Begin(w) \/ Crash(w)
      BY <3>1 DEF Begin, Start, StartNew, StartFails, PsOpen, Crash
    <3>2. CASE Continue(w)
      BY <3>2 DEF Continue, CreateSid, CreateSidFails, ValidateSid, ValidateSidFails,
                  LockAcquired, LockBusy, LockError, Read, ReadFails, Write, WriteFails,
                  UpdateTimestamp, Destroy, DestroyUnlocks, Close, UnlockIfLocked,
                  UnlockSession, Reopen, ReopenFails, PsOpen
    <3>3. CASE Script(w)
      BY <3>3 DEF Script, Save, SaveUnchanged, DestroySession, Abort, Reset, ResetFails, PsOpen
    <3> QED BY <2>1, <3>1, <3>2, <3>3
  <2>2. lapsed' = lapsed \/ Lapse({})
    BY <1>2, <2>1 DEF Next, ExpireLock, ExpireSession, vars
  <2> QED BY <1>2, <2>2 DEF Lapse
<1> QED BY <1>1, <1>2, PTL DEF Spec

\* Without expiring locks a worker's lock record is deleted by that worker only, which then
\* no longer believes that it holds it: s_unlock_session, which does not look whose record
\* it deletes, releases another worker's lock only after its own has expired.
THEOREM HolderKeepsLock ==
    ASSUME ~LockExpires
    PROVE  Spec => LockKeptByHolder
<1>1. ASSUME TypeOK, LockInv, lapsed = {}, [Next]_vars
      PROVE  [\A s \in Sids :
                 /\ lock[s] # NoWorker
                 /\ Holds(lock[s], s)
                 /\ lock'[s] = NoWorker
                 => ~is_locked'[lock[s]] \/ ExpireLock(s)]_vars
  <2> SUFFICES ASSUME NEW s \in Sids, lock[s] # NoWorker, lock'[s] = NoWorker,
                      Holds(lock[s], s)
               PROVE  ~is_locked'[lock[s]]
    OBVIOUS
  <2>1. lock' # lock
    OBVIOUS
  <2>2. PICK w \in Workers : DestroyUnlocks(w) \/ Close(w)
    <3>1. ASSUME NEW w \in Workers, Begin(w) \/ Script(w) \/ Crash(w)
          PROVE  lock' = lock
      BY <3>1 DEF Begin, Start, StartNew, StartFails, Script, Save, SaveUnchanged,
                  DestroySession, Abort, Reset, ResetFails, Crash, memcached
    <3>2. ASSUME NEW w \in Workers, LockAcquired(w) \/ LockError(w)
          PROVE  lock' = lock
      <4>1. \/ lock' = lock
            \/ lock[sid[w]] = NoWorker /\ lock' = [lock EXCEPT ![sid[w]] = w]
        BY <3>2 DEF LockAcquired, LockError
      <4> QED BY <1>1, <4>1, ConstantsAssumption DEF ConstantsAssumption, TypeOK
    <3>3. ASSUME NEW w \in Workers, Continue(w), ~DestroyUnlocks(w), ~Close(w)
          PROVE  lock' = lock
      BY <3>2, <3>3 DEF Continue, CreateSid, CreateSidFails, ValidateSid, ValidateSidFails,
           LockBusy, Read, ReadFails, Write, WriteFails, UpdateTimestamp, Destroy, Reopen,
           ReopenFails, memcached
    <3> QED
      BY <1>1, <2>1, <3>1, <3>3 DEF Next, ExpireLock, ExpireSession, vars, memcached
  <2>3. UnlockIfLocked(w)
    BY <2>2 DEF DestroyUnlocks, Close
  <2>4. /\ is_locked[w]
        /\ lock' = [lock EXCEPT ![lock_key[w]] = NoWorker]
        /\ is_locked' = [is_locked EXCEPT ![w] = FALSE]
    BY <2>1, <2>3 DEF UnlockIfLocked, UnlockSession, FreshUserData
  <2>5. lock[lock_key[w]] = w
    BY <1>1, <2>4 DEF LockInv, HeldLock
  <2>6. s = lock_key[w]
    BY <1>1, <2>4 DEF TypeOK
  <2> QED BY <1>1, <2>4, <2>5, <2>6 DEF TypeOK
<1> QED
  BY <1>1, TypeCorrect, LockDiscipline, NothingLapses, PTL DEF Spec, LockKeptByHolder

\* A step that changes no lock record and no payload as a reader sees it is invisible.
LEMMA StoreStutters ==
    ASSUME lock' = lock, \A s \in Sids : View(s)' = View(s)
    PROVE  [Store!Next]_<<lock, [s \in Sids |-> View(s)]>>
<1>1. [s \in Sids |-> View(s)]' = [s \in Sids |-> View(s)]
  OBVIOUS
<1> QED BY <1>1

\* A payload that goes away is forgotten by the store.
LEMMA StoreForgets ==
    ASSUME NEW r \in Sids, lock' = lock, View(r)' = Empty,
           \A s \in Sids \ {r} : View(s)' = View(s)
    PROVE  Store!Next
<1>1. Store!Forget(r)
  BY DEF Store!Forget
<1> QED BY <1>1 DEF Store!Next

\* A payload written by the worker the lock record names is an update by the holder.
LEMMA StoreUpdates ==
    ASSUME NEW w \in Workers, NEW r \in Sids, NEW v \in Payloads,
           lock' = lock, lock[r] = w, View(r)' = v,
           \A s \in Sids \ {r} : View(s)' = View(s)
    PROVE  Store!Next
<1>1. Store!Update(w, r, v)
  BY DEF Store!Update
<1> QED BY <1>1 DEF Store!Next

\* A lock record that is created is a lock acquired.
LEMMA StoreAcquires ==
    ASSUME NEW w \in Workers, NEW r \in Sids, lock[r] = NoWorker,
           lock' = [lock EXCEPT ![r] = w], \A s \in Sids : View(s)' = View(s)
    PROVE  Store!Next
<1>1. Store!Acquire(w, r)
  BY DEF Store!Acquire
<1> QED BY <1>1 DEF Store!Next

\* A lock record deleted by the worker it names is a lock released.
LEMMA StoreReleases ==
    ASSUME NEW w \in Workers, NEW r \in Sids, lock[r] = w,
           lock' = [lock EXCEPT ![r] = NoWorker], \A s \in Sids : View(s)' = View(s)
    PROVE  Store!Next
<1>1. Store!Release(w, r)
  BY DEF Store!Release
<1> QED BY <1>1 DEF Store!Next

\* Every step of the handler is a step of the store or invisible to it.
LEMMA StoreStep ==
    ASSUME TypeOK, LockInv, LockEnabled, ~LockExpires, Strays = {}, lapsed = {}, [Next]_vars
    PROVE  [Store!Next]_<<lock, [s \in Sids |-> View(s)]>>
<1> USE DEF memcached, handle, request
<1>1. ASSUME UNCHANGED memcached
      PROVE  [Store!Next]_<<lock, [s \in Sids |-> View(s)]>>
  BY <1>1, StoreStutters DEF View
<1>2. ASSUME NEW w \in Workers, Begin(w) \/ Script(w) \/ Crash(w)
      PROVE  UNCHANGED memcached
  BY <1>2 DEF Begin, Start, StartNew, StartFails, Script, Save, SaveUnchanged,
              DestroySession, Abort, Reset, ResetFails, Crash
<1>3. ASSUME NEW w \in Workers, Continue(w)
      PROVE  [Store!Next]_<<lock, [s \in Sids |-> View(s)]>>
  <2>1. sid[w] \in Sids /\ val[w] \in Payloads
    BY DEF TypeOK
  <2>2. ASSUME NEW r \in Sids, CreateSid(w, r) \/ CreateSidFails(w, r)
        PROVE  [Store!Next]_<<lock, [s \in Sids |-> View(s)]>>
    <3>1. \A s \in Sids : View(s)' = View(s)
      BY <2>2, ConstantsAssumption DEF CreateSid, CreateSidFails, View, TypeOK,
                                       ConstantsAssumption
    <3> QED BY <2>2, <3>1, StoreStutters DEF CreateSid, CreateSidFails
  <2>3. CASE \/ ValidateSid(w) \/ ValidateSidFails(w) \/ LockBusy(w) \/ Read(w)
             \/ ReadFails(w) \/ UpdateTimestamp(w) \/ Reopen(w) \/ ReopenFails(w)
    <3>1. UNCHANGED memcached
      BY <2>3 DEF ValidateSid, ValidateSidFails, LockBusy, Read, ReadFails, UpdateTimestamp,
                  Reopen, ReopenFails
    <3> QED BY <1>1, <3>1
  <2>4. CASE LockAcquired(w) \/ LockError(w)
    <3>1. \A r \in Sids : View(r)' = View(r)
      BY <2>4 DEF LockAcquired, LockError, View
    <3>2. \/ lock' = lock
          \/ lock[sid[w]] = NoWorker /\ lock' = [lock EXCEPT ![sid[w]] = w]
      BY <2>4 DEF LockAcquired, LockError
    <3> QED BY <2>1, <3>1, <3>2, StoreStutters, StoreAcquires
  <2>5. CASE Write(w) \/ WriteFails(w)
    <3>1. lock[sid[w]] = w
      BY <2>5 DEF Write, WriteFails, LockInv, SessionIsLocked, HeldLock, Holds, InSession
    <3>2. lock' = lock /\ (sess' = sess \/ sess' = [sess EXCEPT ![sid[w]] = val[w]])
      BY <2>5 DEF Write, WriteFails
    <3>3. CASE sess' = sess
      BY <1>1, <3>2, <3>3
    <3>4. CASE sess' = [sess EXCEPT ![sid[w]] = val[w]]
      <4>1. \A s \in Sids \ {sid[w]} : View(s)' = View(s)
        BY <3>4 DEF View, TypeOK
      <4>2. PICK r \in Sids : r = sid[w]
        BY <2>1
      <4>3. View(r)' = val[w]
        BY <2>1, <3>4, <4>2, ConstantsAssumption DEF View, TypeOK, ConstantsAssumption
      <4> QED BY <2>1, <3>1, <3>2, <4>1, <4>2, <4>3, StoreUpdates
    <3> QED BY <3>2, <3>3, <3>4
  <2>6. CASE Destroy(w)
    <3>1. lock' = lock /\ (sess' = sess \/ sess' = [sess EXCEPT ![sid[w]] = NoRecord])
      BY <2>6 DEF Destroy
    <3>2. CASE sess' = sess
      BY <1>1, <3>1, <3>2
    <3>3. CASE sess' = [sess EXCEPT ![sid[w]] = NoRecord]
      <4>1. PICK r \in Sids : r = sid[w]
        BY <2>1
      <4>2. View(r)' = Empty /\ \A s \in Sids \ {r} : View(s)' = View(s)
        BY <3>3, <4>1 DEF View, TypeOK
      <4> QED BY <3>1, <4>1, <4>2, StoreForgets
    <3> QED BY <3>1, <3>2, <3>3
  <2>7. CASE DestroyUnlocks(w) \/ Close(w)
    <3>1. UnlockIfLocked(w) /\ \A s \in Sids : View(s)' = View(s)
      BY <2>7 DEF DestroyUnlocks, Close, View
    <3>2. CASE lock' = lock
      BY <3>1, <3>2, StoreStutters
    <3>3. CASE is_locked[w] /\ lock' = [lock EXCEPT ![lock_key[w]] = NoWorker]
      <4>1. lock_key[w] \in Sids /\ lock[lock_key[w]] = w
        BY <3>3 DEF LockInv, LockedHasKey, HeldLock
      <4> QED BY <3>1, <3>3, <4>1, StoreReleases
    <3> QED BY <3>1, <3>2, <3>3 DEF UnlockIfLocked, UnlockSession
  <2> QED
    BY <1>1, <1>3, <2>2, <2>3, <2>4, <2>5, <2>6, <2>7 DEF Continue
<1>4. ASSUME NEW s \in Sids, ExpireSession(s)
      PROVE  Store!Next
  <2>1. View(s)' = Empty /\ \A r \in Sids \ {s} : View(r)' = View(r)
    BY <1>4 DEF ExpireSession, View, TypeOK
  <2> QED BY <1>4, <2>1, StoreForgets DEF ExpireSession
<1>5. CASE UNCHANGED vars
  BY <1>1, <1>5 DEF vars
<1> QED BY <1>1, <1>2, <1>3, <1>4, <1>5 DEF Next, ExpireLock

\* With locking on and locks that do not expire the handler implements the abstract
\* session store, whichever calls fail and whichever processes die: a session is changed
\* by the holder of its lock and by nobody else, and the lock is released by its holder.
\* The third assumption says that session_reset() is not called on persistent handles.
THEOREM Refinement ==
    ASSUME LockEnabled, ~LockExpires, Strays = {}
    PROVE  Spec => ImplementsStore
<1>1. Init => Store!Init
  BY DEF Init, Store!Init, View
<1>2. ASSUME TypeOK, LockInv, lapsed = {}, [Next]_vars
      PROVE  [Store!Next]_<<lock, [s \in Sids |-> View(s)]>>
  BY <1>2, StoreStep
<1> QED
  BY <1>1, <1>2, TypeCorrect, LockDiscipline, NothingLapses, PTL
     DEF Spec, ImplementsStore, Store!Spec
====

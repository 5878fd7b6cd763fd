--------------------------- MODULE WriteOpsProofs ---------------------------
(***************************************************************************)
(* Proofs about the write methods, for any keys, servers and retry counts, *)
(* whatever other clients do and whichever calls time out.                 *)
(***************************************************************************)
EXTENDS WriteOps, TLAPS

-----------------------------------------------------------------------------
(* The inductive invariant *)

\* The counters of the history are kept for the same keys, and are counters.
Counters ==
    /\ DOMAIN times = DOMAIN attempts /\ DOMAIN lost = DOMAIN attempts
    /\ DOMAIN results \subseteq DOMAIN attempts
    /\ \A k \in DOMAIN attempts : attempts[k] \in Nat /\ times[k] \in Nat /\ lost[k] \in Nat

\* A finished item: it took effect once more than answers were lost if and only if it
\* succeeded, and its calls are as many as they may be, or must be, by its status.
Finished ==
    \A k \in DOMAIN results :
        /\ times[k] = lost[k] + (IF IsError(results[k]) THEN 0 ELSE 1)
        /\ attempts[k] <= Allowance(op)
        /\ results[k] \in {"NOTSTORED", "NOTFOUND", "TIMEOUT"} => attempts[k] = Allowance(op)

\* An item that is not finished has no effect but those whose answer was lost, and only the
\* current item of a running method has been tried at all.
Unfinished ==
    \A k \in DOMAIN attempts \ DOMAIN results :
        /\ times[k] = lost[k]
        /\ pc = "idle" \/ k # key => attempts[k] = 0

\* While a method runs, its current item and those to come are unfinished; the calls made
\* for the current one are the retries used up, and only a retryable one is past its first.
Running ==
    pc = "attempt" =>
        /\ op \in SingleOps \cup MultiOps
        /\ key \in DOMAIN attempts \ DOMAIN results
        /\ todo \subseteq DOMAIN attempts \ (DOMAIN results \cup {key})
        /\ attempts[key] + retries = StoreRetryCount
        /\ IF first THEN attempts[key] = 0 ELSE Retryable(ItemOp(op)) /\ retries >= 0

WriteInv == Counters /\ Finished /\ Unfinished /\ Running

-----------------------------------------------------------------------------
(* Types *)

\* A server's answer is one of the statuses a method can end with.
LEMMA AnswerType ==
    ASSUME NEW o \in SingleOps, NEW present \in BOOLEAN
    PROVE  Answer(o, present) \in {"SUCCESS", "NOTSTORED", "NOTFOUND"}
BY DEF Answer, SingleOps, StoreOps

\* A call goes to one of the servers.
LEMMA TargetType ==
    ASSUME TypeOK
    PROVE  Target \in Servers
BY ConstantsAssumption DEF ConstantsAssumption, TypeOK, Target

\* A server holds keys only, whatever it carries out.
LEMMA EffectType ==
    ASSUME NEW o \in SingleOps, NEW k \in Keys, NEW held \in SUBSET Keys
    PROVE  Effect(o, k, held) \in SUBSET Keys
BY DEF Effect, SingleOps, StoreOps

\* The item operation of a method that makes calls.
LEMMA ItemOpType ==
    ASSUME op \in SingleOps \cup MultiOps
    PROVE  ItemOp(op) \in SingleOps
BY DEF ItemOp, SingleOps, StoreOps, MultiOps

\* Being done with an item leaves the method well formed.
LEMMA FinishType ==
    ASSUME TypeOK, NEW status \in Statuses, FinishItem(status)
    PROVE  /\ connected' \in BOOLEAN
           /\ pc' \in {"idle", "attempt"} /\ op' \in Ops
           /\ server_key' \in Keys \cup {NoKey} /\ key' \in Keys /\ todo' \in SUBSET Keys
           /\ first' \in BOOLEAN /\ retries' \in Int
           /\ rescode' \in Statuses /\ ret' \in BOOLEAN
BY ConstantsAssumption DEF ConstantsAssumption, TypeOK, FinishItem, IsError

\* So does trying it again.
LEMMA ConcludeType ==
    ASSUME TypeOK, NEW status \in Statuses, Conclude(status)
    PROVE  /\ connected' \in BOOLEAN
           /\ pc' \in {"idle", "attempt"} /\ op' \in Ops
           /\ server_key' \in Keys \cup {NoKey} /\ key' \in Keys /\ todo' \in SUBSET Keys
           /\ first' \in BOOLEAN /\ retries' \in Int
           /\ rescode' \in Statuses /\ ret' \in BOOLEAN
<1>1. CASE FinishItem(status)
  BY <1>1, FinishType
<1>2. CASE /\ retries' = retries - 1
           /\ first' = FALSE
           /\ UNCHANGED <<pc, op, server_key, connected, key, todo, rescode, ret, results>>
  <2>1. retries' \in Int
    BY <1>2 DEF TypeOK
  <2>2. connected' \in BOOLEAN /\ first' \in BOOLEAN /\ ret' \in BOOLEAN
    BY <1>2, Zenon DEF TypeOK
  <2> QED BY <1>2, <2>1, <2>2 DEF TypeOK
<1> QED BY <1>1, <1>2 DEF Conclude

\* A call that is carried out leaves the servers well formed.
LEMMA CarryOutType ==
    ASSUME TypeOK, op \in SingleOps \cup MultiOps, CarryOut
    PROVE  mem' \in [Servers -> SUBSET Keys]
<1>1. PICK s \in Servers : s = Target
  BY TargetType
<1>2. Effect(ItemOp(op), key, mem[s]) \in SUBSET Keys
  BY ItemOpType, EffectType DEF TypeOK
<1>3. mem' = [mem EXCEPT ![s] = Effect(ItemOp(op), key, mem[s])]
  BY <1>1 DEF CarryOut
<1> QED BY <1>2, <1>3 DEF TypeOK

\* Calling a method leaves the state well formed.
LEMMA CallType ==
    ASSUME TypeOK, Call
    PROVE  TypeOK'
<1>1. ASSUME NEW o \in Ops, NEW sk \in Keys \cup {NoKey}, NEW k \in Keys,
             NEW ks \in SUBSET Keys, Enter(o, sk, k, ks)
      PROVE  TypeOK'
  BY <1>1, ConstantsAssumption DEF ConstantsAssumption, TypeOK, Enter, world, Statuses
<1>2. ASSUME NEW o \in Ops, NEW sk \in Keys \cup {NoKey}, NEW k \in Keys,
             NEW status \in {"BAD_KEY_PROVIDED", "SUCCESS"}, Refuse(o, sk, k, status)
      PROVE  TypeOK'
  BY <1>2 DEF TypeOK, Refuse, world, Statuses
<1>3. ASSUME NEW o \in Ops, NEW sk \in Keys \cup {NoKey}, NoItems(o, sk)
      PROVE  TypeOK'
  BY <1>3 DEF TypeOK, NoItems, world, Statuses
<1>4. PICK sk \in Keys \cup {NoKey} :
         \/ \E o \in StoreOps, k \in Keys : CallStore(o, sk, k)
         \/ \E o \in {"incdec", "incdec_initial"}, k \in Keys : CallIncDec(o, sk, k)
         \/ \E k \in Keys : CallDelete(sk, k)
         \/ \E items \in SUBSET Keys : CallSetMulti(sk, items) \/ CallDeleteMulti(sk, items)
  BY DEF Call
<1>5. StoreOps \cup {"incdec", "incdec_initial", "delete", "setMulti", "deleteMulti"}
          \subseteq Ops
  BY DEF Ops, SingleOps, MultiOps
<1>6. ASSUME NEW o \in Ops, NEW k \in Keys, Enter(o, sk, k, {})
      PROVE  TypeOK'
  <2>1. {} \in SUBSET Keys
    OBVIOUS
  <2> QED BY <1>1, <1>6, <2>1
<1>7. ASSUME NEW o \in StoreOps, NEW k \in Keys, CallStore(o, sk, k)
      PROVE  TypeOK'
  <2>1. o \in Ops
    BY <1>5
  <2> QED BY <1>2, <1>6, <1>7, <2>1 DEF CallStore
<1>8. ASSUME NEW o \in {"incdec", "incdec_initial"}, NEW k \in Keys, CallIncDec(o, sk, k)
      PROVE  TypeOK'
  <2>1. o \in Ops
    BY <1>5
  <2> QED BY <1>2, <1>6, <1>8, <2>1 DEF CallIncDec
<1>9. ASSUME NEW k \in Keys, CallDelete(sk, k)
      PROVE  TypeOK'
  <2>1. "delete" \in Ops
    BY <1>5
  <2> QED BY <1>2, <1>6, <1>9, <2>1 DEF CallDelete
<1>10. ASSUME NEW items \in SUBSET Keys, CallSetMulti(sk, items) \/ CallDeleteMulti(sk, items)
       PROVE  TypeOK'
  <2>1. PICK o \in {"setMulti", "deleteMulti"} :
           NoItems(o, sk) \/ \E k \in items : Enter(o, sk, k, items \ {k})
    BY <1>10 DEF CallSetMulti, CallDeleteMulti
  <2>2. o \in Ops
    BY <1>5
  <2>3. CASE NoItems(o, sk)
    BY <1>3, <2>2, <2>3
  <2>4. ASSUME NEW k \in items, Enter(o, sk, k, items \ {k})
        PROVE  TypeOK'
    <3>1. k \in Keys /\ items \ {k} \in SUBSET Keys
      OBVIOUS
    <3> QED BY <1>1, <2>2, <2>4, <3>1
  <2> QED BY <2>1, <2>3, <2>4
<1> QED BY <1>4, <1>7, <1>8, <1>9, <1>10

\* Every step leaves the state well formed.
LEMMA TypeStep ==
    ASSUME TypeOK, Running, [Next]_vars
    PROVE  TypeOK'
<1>1. {"SUCCESS", "NOTSTORED", "NOTFOUND", "TIMEOUT", "NO_SERVERS", "PAYLOAD_FAILURE", "E2BIG"}
          \subseteq Statuses
  BY DEF Statuses
<1>2. CASE Call
  BY <1>2, CallType
<1>3. CASE Attempt
  <2>1. pc = "attempt" /\ op \in SingleOps \cup MultiOps /\ ItemOp(op) \in SingleOps
    BY <1>3, ItemOpType DEF Attempt, AttemptDone, AttemptRefused, AttemptTimesOut, AnswerLost,
                AttemptNoServers, ItemRefused, Running
  <2>2. ASSUME mem' \in [Servers -> SUBSET Keys],
               \E status \in Statuses : Conclude(status) \/ FinishItem(status)
        PROVE  TypeOK'
    BY <2>2, ConcludeType, FinishType DEF TypeOK
  <2>3. CASE AttemptDone \/ AnswerLost
    BY <1>1, <2>1, <2>2, <2>3, CarryOutType DEF AttemptDone, AnswerLost
  <2>4. CASE AttemptTimesOut \/ AttemptNoServers
    BY <1>1, <2>2, <2>4 DEF AttemptTimesOut, AttemptNoServers, TypeOK
  <2>5. CASE AttemptRefused
    <3>1. (key \in mem[Target]) \in BOOLEAN
      OBVIOUS
    <3>2. Answer(ItemOp(op), key \in mem[Target]) \in Statuses
      BY <1>1, <2>1, <3>1, AnswerType
    <3> QED BY <2>2, <2>5, <3>2 DEF AttemptRefused, TypeOK
  <2>6. ASSUME NEW status \in {"PAYLOAD_FAILURE", "E2BIG"}, ItemRefused(status)
        PROVE  TypeOK'
    BY <1>1, <2>2, <2>6 DEF ItemRefused, TypeOK
  <2> QED BY <1>3, <2>3, <2>4, <2>5, <2>6 DEF Attempt
<1>4. CASE AddServers \/ ResetServerList
  BY <1>4, ConstantsAssumption
     DEF ConstantsAssumption, AddServers, ResetServerList, ChangeServers, TypeOK, Statuses, Ops
<1>5. ASSUME NEW s \in Servers, NEW k \in Keys, OtherWrites(s, k)
      PROVE  TypeOK'
  BY <1>5 DEF OtherWrites, TypeOK
<1>6. CASE UNCHANGED vars
  BY <1>6 DEF vars, world, TypeOK
<1> QED BY <1>2, <1>3, <1>4, <1>5, <1>6 DEF Next

-----------------------------------------------------------------------------
(* What the history says of the items *)

\* A method that forgets the one before it and makes no call has no history.
LEMMA ForgetKeeps ==
    ASSUME NEW ks, Forget(ks), pc' = "idle"
    PROVE  WriteInv'
<1>1. Counters'
  BY DEF Forget, Counters
<1>2. Finished'
  BY DEF Forget, Finished
<1>3. Unfinished'
  BY DEF Forget, Unfinished
<1> QED BY <1>1, <1>2, <1>3 DEF WriteInv, Running

\* A method that starts has tried none of its items.
LEMMA EnterKeeps ==
    ASSUME NEW o \in SingleOps \cup MultiOps, NEW sk, NEW k, NEW ks, k \notin ks,
           Enter(o, sk, k, ks)
    PROVE  WriteInv'
<1> USE DEF Enter
<1>1. Counters'
  BY DEF Forget, Counters
<1>2. Finished'
  BY DEF Forget, Finished
<1>3. Unfinished'
  BY DEF Forget, Unfinished
<1>4. Running'
  BY ConstantsAssumption DEF ConstantsAssumption, Forget, Running
<1> QED BY <1>1, <1>2, <1>3, <1>4 DEF WriteInv

\* A step that counts only for the current item.
CountsForKey ==
    /\ DOMAIN attempts' = DOMAIN attempts
    /\ DOMAIN times' = DOMAIN attempts /\ DOMAIN lost' = DOMAIN attempts
    /\ attempts'[key] \in Nat /\ times'[key] \in Nat /\ lost'[key] \in Nat
    /\ \A k \in DOMAIN attempts \ {key} :
          attempts'[k] = attempts[k] /\ times'[k] = times[k] /\ lost'[k] = lost[k]

\* Being done with an item keeps the history true, if the counters of the item are as its
\* status says.
LEMMA FinishKeeps ==
    ASSUME TypeOK, WriteInv, pc = "attempt", NEW status, FinishItem(status), CountsForKey,
           times'[key] = lost'[key] + (IF IsError(status) THEN 0 ELSE 1),
           attempts'[key] <= Allowance(op),
           status \in {"NOTSTORED", "NOTFOUND", "TIMEOUT"} => attempts'[key] = Allowance(op)
    PROVE  WriteInv'
<1>1. /\ DOMAIN results' = DOMAIN results \cup {key}
      /\ results'[key] = status
      /\ \A k \in DOMAIN results \ {key} : results'[k] = results[k]
  BY DEF FinishItem
<1>2. /\ op' = op
      /\ \/ pc' = "idle"
         \/ /\ key' \in todo /\ todo' = todo \ {key'}
            /\ first' = TRUE /\ retries' = StoreRetryCount /\ pc' = pc
  BY DEF FinishItem
<1>3. /\ key \in DOMAIN attempts \ DOMAIN results
      /\ todo \subseteq DOMAIN attempts \ (DOMAIN results \cup {key})
      /\ op \in SingleOps \cup MultiOps
  BY DEF WriteInv, Running
<1>4. Counters'
  BY <1>1, <1>3 DEF WriteInv, Counters, CountsForKey
<1>5. Finished'
  <2> SUFFICES ASSUME NEW k \in DOMAIN results'
               PROVE  /\ times'[k] = lost'[k] + (IF IsError(results'[k]) THEN 0 ELSE 1)
                      /\ attempts'[k] <= Allowance(op)
                      /\ results'[k] \in {"NOTSTORED", "NOTFOUND", "TIMEOUT"}
                            => attempts'[k] = Allowance(op)
    BY <1>2 DEF Finished, Allowance, IsError
  <2>1. CASE k = key
    BY <1>1, <2>1
  <2>2. CASE k # key
    <3>1. k \in DOMAIN results /\ results'[k] = results[k] /\ k \in DOMAIN attempts
      BY <1>1, <2>2 DEF WriteInv, Counters
    <3>2. attempts'[k] = attempts[k] /\ times'[k] = times[k] /\ lost'[k] = lost[k]
      BY <2>2, <3>1 DEF CountsForKey
    <3> QED BY <3>1, <3>2 DEF WriteInv, Finished
  <2> QED BY <2>1, <2>2
<1>6. Unfinished'
  <2> SUFFICES ASSUME NEW k \in DOMAIN attempts' \ DOMAIN results'
               PROVE  times'[k] = lost'[k] /\ attempts'[k] = 0
    BY DEF Unfinished
  <2>1. k \in DOMAIN attempts \ DOMAIN results /\ k # key
    BY <1>1 DEF CountsForKey
  <2>2. attempts'[k] = attempts[k] /\ times'[k] = times[k] /\ lost'[k] = lost[k]
    BY <2>1 DEF CountsForKey
  <2> QED BY <2>1, <2>2 DEF WriteInv, Unfinished
<1>7. Running'
  <2>1. CASE pc' = "idle"
    BY <2>1 DEF Running
  <2>2. CASE /\ key' \in todo /\ todo' = todo \ {key'}
             /\ first' = TRUE /\ retries' = StoreRetryCount /\ pc' = pc
    <3>1. key' \in DOMAIN attempts' \ DOMAIN results'
      BY <1>1, <1>3, <2>2 DEF CountsForKey
    <3>2. todo' \subseteq DOMAIN attempts' \ (DOMAIN results' \cup {key'})
      BY <1>1, <1>3, <2>2 DEF CountsForKey
    <3>3. attempts'[key'] = 0
      <4>1. key' \in DOMAIN attempts \ DOMAIN results /\ key' # key
        BY <1>3, <2>2
      <4>2. attempts'[key'] = attempts[key']
        BY <4>1 DEF CountsForKey
      <4> QED BY <4>1, <4>2 DEF WriteInv, Unfinished
    <3> QED
      BY <1>2, <1>3, <2>2, <3>1, <3>2, <3>3, ConstantsAssumption DEF ConstantsAssumption, Running
  <2> QED BY <1>2, <2>1, <2>2
<1> QED BY <1>4, <1>5, <1>6, <1>7 DEF WriteInv

\* The number of calls granted to an item is at least one.
LEMMA AllowanceType == Allowance(op) \in Int /\ Allowance(op) >= 1
BY ConstantsAssumption DEF ConstantsAssumption, Allowance

\* What a method makes of the status of a call keeps the history true: another call follows
\* only an error, and an error of a server is final only when no retry is left.
LEMMA ConcludeKeeps ==
    ASSUME TypeOK, WriteInv, pc = "attempt", NEW status, Conclude(status), CountsForKey,
           connected \/ status = "NO_SERVERS",
           attempts'[key] = attempts[key] + 1,
           times'[key] = lost'[key] + (IF IsError(status) THEN 0 ELSE 1)
    PROVE  WriteInv'
<1>1. /\ key \in DOMAIN attempts \ DOMAIN results
      /\ todo \subseteq DOMAIN attempts \ (DOMAIN results \cup {key})
      /\ op \in SingleOps \cup MultiOps
      /\ attempts[key] + retries = StoreRetryCount
      /\ IF first THEN attempts[key] = 0 ELSE Retryable(ItemOp(op)) /\ retries >= 0
      /\ attempts[key] \in Nat /\ retries \in Int /\ StoreRetryCount \in Int
  BY ConstantsAssumption DEF ConstantsAssumption, WriteInv, Running, Counters, TypeOK
<1>2. CASE Retryable(ItemOp(op)) /\ ShouldRetry(status) /\ retries > 0
  <2>1. /\ retries' = retries - 1
        /\ first' = FALSE
        /\ UNCHANGED <<pc, op, server_key, connected, key, todo, rescode, ret, results>>
    BY <1>2 DEF Conclude
  <2>2. IsError(status)
    BY <1>2 DEF ShouldRetry
  <2>3. Counters'
    BY <1>1, <2>1 DEF WriteInv, Counters, CountsForKey
  <2>4. Finished'
    <3> SUFFICES ASSUME NEW k \in DOMAIN results
                 PROVE  /\ times'[k] = lost'[k] + (IF IsError(results[k]) THEN 0 ELSE 1)
                        /\ attempts'[k] <= Allowance(op)
                        /\ results[k] \in {"NOTSTORED", "NOTFOUND", "TIMEOUT"}
                              => attempts'[k] = Allowance(op)
      BY <2>1 DEF Finished, Allowance, IsError
    <3>1. k # key /\ k \in DOMAIN attempts
      BY <1>1 DEF WriteInv, Counters
    <3>2. attempts'[k] = attempts[k] /\ times'[k] = times[k] /\ lost'[k] = lost[k]
      BY <3>1 DEF CountsForKey
    <3> QED BY <3>2 DEF WriteInv, Finished
  <2>5. Unfinished'
    <3> SUFFICES ASSUME NEW k \in DOMAIN attempts \ DOMAIN results
                 PROVE  times'[k] = lost'[k] /\ (k # key => attempts'[k] = 0)
      BY <2>1 DEF Unfinished, CountsForKey
    <3>1. CASE k = key
      BY <2>2, <3>1 DEF CountsForKey
    <3>2. CASE k # key
      BY <3>2 DEF CountsForKey, WriteInv, Unfinished
    <3> QED BY <3>1, <3>2
  <2>6. Running'
    <3>1. attempts'[key'] + retries' = StoreRetryCount /\ retries' >= 0
      BY <1>1, <1>2, <2>1
    <3> QED BY <1>1, <1>2, <2>1, <3>1 DEF Running, CountsForKey, Retryable
  <2> QED BY <2>3, <2>4, <2>5, <2>6 DEF WriteInv
<1>3. CASE ~(Retryable(ItemOp(op)) /\ ShouldRetry(status) /\ retries > 0)
  <2>1. FinishItem(status)
    BY <1>3 DEF Conclude
  <2>2. attempts'[key] <= Allowance(op)
    BY <1>1 DEF Allowance
  <2>3. ASSUME status \in {"NOTSTORED", "NOTFOUND", "TIMEOUT"}
        PROVE  attempts'[key] = Allowance(op)
    <3>1. ~Retryable(ItemOp(op)) \/ ~(retries > 0)
      BY <1>3, <2>3 DEF ShouldRetry, IsError
    <3> QED BY <1>1, <3>1 DEF Allowance
  <2> QED BY <2>1, <2>2, <2>3, FinishKeeps
<1> QED BY <1>2, <1>3

\* Every step keeps the history true.
LEMMA WriteStep ==
    ASSUME TypeOK, WriteInv, [Next]_vars
    PROVE  WriteInv'
<1>1. CASE Call
  <2>1. ASSUME NEW o, NEW sk, NEW k, NEW status, Refuse(o, sk, k, status)
        PROVE  WriteInv'
    BY <2>1, ForgetKeeps DEF Refuse
  <2>2. ASSUME NEW o, NEW sk, NoItems(o, sk)
        PROVE  WriteInv'
    BY <2>2, ForgetKeeps DEF NoItems
  <2>3. StoreOps \cup {"incdec", "incdec_initial", "delete", "setMulti", "deleteMulti"}
            \subseteq SingleOps \cup MultiOps
    BY DEF SingleOps, MultiOps
  <2>4. PICK sk \in Keys \cup {NoKey} :
           \/ \E o \in StoreOps, k \in Keys : CallStore(o, sk, k)
           \/ \E o \in {"incdec", "incdec_initial"}, k \in Keys : CallIncDec(o, sk, k)
           \/ \E k \in Keys : CallDelete(sk, k)
           \/ \E items \in SUBSET Keys : CallSetMulti(sk, items) \/ CallDeleteMulti(sk, items)
    BY <1>1 DEF Call
  <2>5. ASSUME NEW o \in StoreOps, NEW k \in Keys, CallStore(o, sk, k)
        PROVE  WriteInv'
    BY <2>1, <2>3, <2>5, EnterKeeps DEF CallStore
  <2>6. ASSUME NEW o \in {"incdec", "incdec_initial"}, NEW k \in Keys, CallIncDec(o, sk, k)
        PROVE  WriteInv'
    BY <2>1, <2>3, <2>6, EnterKeeps DEF CallIncDec
  <2>7. ASSUME NEW k \in Keys, CallDelete(sk, k)
        PROVE  WriteInv'
    BY <2>1, <2>3, <2>7, EnterKeeps DEF CallDelete
  <2>8. ASSUME NEW items \in SUBSET Keys,
               CallSetMulti(sk, items) \/ CallDeleteMulti(sk, items)
        PROVE  WriteInv'
    BY <2>2, <2>3, <2>8, EnterKeeps DEF CallSetMulti, CallDeleteMulti
  <2> QED BY <2>4, <2>5, <2>6, <2>7, <2>8
<1>2. CASE Attempt
  <2>1. /\ key \in DOMAIN attempts \ DOMAIN results
        /\ times[key] = lost[key]
        /\ attempts[key] \in Nat /\ times[key] \in Nat /\ lost[key] \in Nat
        /\ DOMAIN times = DOMAIN attempts /\ DOMAIN lost = DOMAIN attempts
        /\ pc = "attempt"
    BY <1>2 DEF Attempt, AttemptDone, AttemptRefused, AttemptTimesOut, AnswerLost,
                AttemptNoServers, ItemRefused, WriteInv, Running, Counters, Unfinished
  <2>2. CASE AttemptDone
    <3>1. CountsForKey /\ attempts'[key] = attempts[key] + 1 /\ times'[key] = lost'[key] + 1
      BY <2>1, <2>2 DEF AttemptDone, CountAttempt, CarryOut, CountsForKey
    <3> QED BY <2>1, <2>2, <3>1, ConcludeKeeps DEF AttemptDone, IsError
  <2>3. CASE AttemptRefused
    <3>1. PICK status : status # "SUCCESS" /\ Conclude(status)
      BY <2>3 DEF AttemptRefused
    <3>2. CountsForKey /\ attempts'[key] = attempts[key] + 1 /\ times'[key] = lost'[key] + 0
      BY <2>1, <2>3 DEF AttemptRefused, CountAttempt, CountsForKey
    <3> QED BY <2>1, <2>3, <3>1, <3>2, ConcludeKeeps DEF AttemptRefused, IsError
  <2>4. CASE AttemptTimesOut
    <3>1. CountsForKey /\ attempts'[key] = attempts[key] + 1 /\ times'[key] = lost'[key] + 0
      BY <2>1, <2>4 DEF AttemptTimesOut, CountAttempt, CountsForKey
    <3> QED BY <2>1, <2>4, <3>1, ConcludeKeeps DEF AttemptTimesOut, IsError
  <2>5. CASE AnswerLost
    <3>1. CountsForKey /\ attempts'[key] = attempts[key] + 1 /\ times'[key] = lost'[key] + 0
      BY <2>1, <2>5 DEF AnswerLost, CountAttempt, CarryOut, CountsForKey
    <3> QED BY <2>1, <2>5, <3>1, ConcludeKeeps DEF AnswerLost, IsError
  <2>6. CASE AttemptNoServers
    <3>1. CountsForKey /\ attempts'[key] = attempts[key] + 1 /\ times'[key] = lost'[key] + 0
      BY <2>1, <2>6 DEF AttemptNoServers, CountAttempt, CountsForKey
    <3> QED BY <2>1, <2>6, <3>1, ConcludeKeeps DEF AttemptNoServers, IsError
  <2>7. ASSUME NEW status \in {"PAYLOAD_FAILURE", "E2BIG"}, ItemRefused(status)
        PROVE  WriteInv'
    <3>1. CountsForKey /\ times'[key] = lost'[key] + 0
      BY <2>1, <2>7 DEF ItemRefused, CountsForKey
    <3>2. attempts'[key] = 0
      BY <2>1, <2>7 DEF ItemRefused, WriteInv, Running
    <3>3. attempts'[key] <= Allowance(op)
      BY <3>2, AllowanceType
    <3> QED BY <2>1, <2>7, <3>1, <3>3, FinishKeeps DEF ItemRefused, IsError
  <2> QED BY <1>2, <2>2, <2>3, <2>4, <2>5, <2>6, <2>7 DEF Attempt
<1>3. CASE AddServers \/ ResetServerList
  <2>1. Forget({}) /\ pc' = "idle"
    BY <1>3 DEF AddServers, ResetServerList, ChangeServers
  <2> QED BY <2>1, ForgetKeeps
<1>4. CASE UNCHANGED <<pc, op, key, todo, first, retries, history>>
  BY <1>4 DEF history, WriteInv, Counters, Finished, Unfinished, Running, IsError, Allowance,
              Retryable
<1>5. ASSUME NEW s \in Servers, NEW k \in Keys, OtherWrites(s, k)
      PROVE  WriteInv'
  BY <1>4, <1>5 DEF OtherWrites
<1>6. CASE UNCHANGED vars
  BY <1>4, <1>6 DEF vars
<1> QED BY <1>1, <1>2, <1>3, <1>5, <1>6 DEF Next

-----------------------------------------------------------------------------
(* Theorems *)

\* The state is well formed and the history of the running method is true to it.
THEOREM HistoryIsTrue == Spec => [](TypeOK /\ WriteInv)
<1>1. ASSUME Init
      PROVE  TypeOK
  <2>1. connected \in BOOLEAN /\ first \in BOOLEAN /\ ret \in BOOLEAN
    BY <1>1, Zenon DEF Init
  <2>2. mem \in [Servers -> SUBSET Keys] /\ retries \in Int
    BY <1>1 DEF Init
  <2>3. op \in Ops /\ rescode \in Statuses
    BY <1>1 DEF Init, Ops, SingleOps, StoreOps, Statuses
  <2> QED BY <1>1, <2>1, <2>2, <2>3 DEF Init, TypeOK
<1>2. Init => WriteInv
  BY DEF Init, WriteInv, Counters, Finished, Unfinished, Running
<1>3. TypeOK /\ WriteInv /\ [Next]_vars => TypeOK' /\ WriteInv'
  BY TypeStep, WriteStep DEF WriteInv
<1> QED BY <1>1, <1>2, <1>3, PTL DEF Spec

\* The servers, the running method and its status are always well formed.
THEOREM TypeCorrect == Spec => []TypeOK
BY HistoryIsTrue, PTL

\* The status of an item tells what happened on the servers, for any number of keys and
\* retries and whatever times out.
THEOREM StatusIsTrue == Spec => []StatusTellsEffect
<1>1. WriteInv => StatusTellsEffect
  BY DEF WriteInv, Counters, Finished, StatusTellsEffect
<1> QED BY <1>1, HistoryIsTrue, PTL

\* An operation that was answered is never sent again.
THEOREM AnsweredOnce == Spec => []AtMostOncePerAnswer
<1>1. WriteInv => AtMostOncePerAnswer
  <2> SUFFICES ASSUME WriteInv, NEW k \in DOMAIN attempts
               PROVE  times[k] <= lost[k] + 1
    BY DEF AtMostOncePerAnswer, WriteInv, Counters
  <2>1. times[k] \in Nat /\ lost[k] \in Nat
    BY DEF WriteInv, Counters
  <2>2. times[k] = lost[k] \/ times[k] = lost[k] + 1
    BY <2>1 DEF WriteInv, Finished, Unfinished
  <2> QED BY <2>1, <2>2
<1> QED BY <1>1, HistoryIsTrue, PTL

\* An item is given up only after all the calls it may take, and never takes more,
\* whatever store_retry_count is.
THEOREM RetriesAreUsedUp == Spec => []RetriesUsedUp
<1>1. TypeOK /\ WriteInv => RetriesUsedUp
  <2> SUFFICES ASSUME TypeOK, WriteInv
               PROVE  \A k \in DOMAIN attempts : attempts[k] <= Allowance(op)
    BY DEF RetriesUsedUp, WriteInv, Finished
  <2> TAKE k \in DOMAIN attempts
  <2>1. CASE k \in DOMAIN results
    BY <2>1 DEF WriteInv, Finished
  <2>2. CASE k \notin DOMAIN results /\ ~(pc = "attempt" /\ k = key)
    BY <2>2, AllowanceType DEF WriteInv, Unfinished, TypeOK
  <2>3. CASE pc = "attempt" /\ k = key
    <3>1. /\ attempts[key] + retries = StoreRetryCount
          /\ IF first THEN attempts[key] = 0 ELSE Retryable(ItemOp(op)) /\ retries >= 0
          /\ attempts[key] \in Nat /\ retries \in Int /\ StoreRetryCount \in Int
      BY <2>3, ConstantsAssumption
         DEF ConstantsAssumption, WriteInv, Running, Counters, TypeOK
    <3> QED BY <2>3, <3>1 DEF Allowance
  <2> QED BY <2>1, <2>2, <2>3
<1> QED BY <1>1, HistoryIsTrue, PTL

-----------------------------------------------------------------------------
(* The ByKey methods.  ServerKeyRouting fails only because of the retries:   *)
(* the retry label of s_memc_write_zval drops the server key.                *)

\* Without retries every call is the first of its item, and has gone where it should.
RoutingInv == (pc = "attempt" => first) /\ ServerKeyRouting

\* Every step keeps the routing, if there are no retries.
LEMMA RoutingStep ==
    ASSUME StoreRetryCount <= 0, TypeOK, WriteInv, RoutingInv, [Next]_vars
    PROVE  RoutingInv'
<1>1. ASSUME NEW ks, Forget(ks), pc' = "idle" \/ first'
      PROVE  RoutingInv'
  BY <1>1 DEF Forget, RoutingInv, ServerKeyRouting
<1>2. CASE Call
  <2>1. PICK sk \in Keys \cup {NoKey} :
           \/ \E o \in StoreOps, k \in Keys : CallStore(o, sk, k)
           \/ \E o \in {"incdec", "incdec_initial"}, k \in Keys : CallIncDec(o, sk, k)
           \/ \E k \in Keys : CallDelete(sk, k)
           \/ \E items \in SUBSET Keys : CallSetMulti(sk, items) \/ CallDeleteMulti(sk, items)
    BY <1>2 DEF Call
  <2>2. ASSUME NEW o, NEW k, NEW ks, Enter(o, sk, k, ks)
        PROVE  RoutingInv'
    BY <1>1, <2>2 DEF Enter
  <2>3. ASSUME NEW o, NEW k, NEW status, Refuse(o, sk, k, status)
        PROVE  RoutingInv'
    BY <1>1, <2>3 DEF Refuse
  <2>4. ASSUME NEW o, NoItems(o, sk)
        PROVE  RoutingInv'
    BY <1>1, <2>4 DEF NoItems
  <2> QED
    BY <2>1, <2>2, <2>3, <2>4 DEF CallStore, CallIncDec, CallDelete, CallSetMulti, CallDeleteMulti
<1>3. CASE Attempt
  <2>1. pc = "attempt" /\ first
    BY <1>3 DEF Attempt, AttemptDone, AttemptRefused, AttemptTimesOut, AnswerLost,
                AttemptNoServers, ItemRefused, RoutingInv
  <2>2. ~(retries > 0)
    BY <2>1, ConstantsAssumption
       DEF ConstantsAssumption, WriteInv, Running, TypeOK
  <2>3. ASSUME NEW status, Conclude(status) \/ FinishItem(status)
        PROVE  server_key' = server_key /\ (pc' = "idle" \/ first')
    BY <2>2, <2>3 DEF Conclude, FinishItem
  <2>4. server_key' = server_key /\ (pc' = "idle" \/ first')
    <3>1. CASE AttemptDone \/ AttemptTimesOut \/ AnswerLost \/ AttemptNoServers
      BY <2>3, <3>1 DEF AttemptDone, AttemptTimesOut, AnswerLost, AttemptNoServers
    <3>2. CASE AttemptRefused \/ \E status \in {"PAYLOAD_FAILURE", "E2BIG"} : ItemRefused(status)
      BY <2>3, <3>2 DEF AttemptRefused, ItemRefused
    <3> QED BY <1>3, <3>1, <3>2 DEF Attempt
  <2>5. server_key # NoKey => Target = Hash[server_key]
    BY <2>1 DEF Target
  <2>6. reached' = reached \/ reached' = [reached EXCEPT ![key] = @ \cup {Target}]
    BY <1>3 DEF Attempt, AttemptDone, AttemptRefused, AttemptTimesOut, AnswerLost,
                AttemptNoServers, ItemRefused, CarryOut
  <2>7. ServerKeyRouting'
    <3> SUFFICES ASSUME server_key # NoKey, NEW k \in DOMAIN reached'
                 PROVE  reached'[k] \subseteq {Hash[server_key]}
      BY <2>4 DEF ServerKeyRouting
    <3>1. k \in DOMAIN reached /\ reached[k] \subseteq {Hash[server_key]}
      BY <2>6 DEF RoutingInv, ServerKeyRouting
    <3>2. reached'[k] \subseteq reached[k] \cup {Hash[server_key]}
      BY <2>5, <2>6, <3>1
    <3> QED BY <3>1, <3>2
  <2> QED BY <2>4, <2>7 DEF RoutingInv
<1>4. CASE AddServers \/ ResetServerList
  BY <1>1, <1>4 DEF AddServers, ResetServerList, ChangeServers
<1>5. CASE UNCHANGED <<pc, first, server_key, history>>
  BY <1>5 DEF history, RoutingInv, ServerKeyRouting
<1>6. ASSUME NEW s \in Servers, NEW k \in Keys, OtherWrites(s, k)
      PROVE  RoutingInv'
  BY <1>5, <1>6 DEF OtherWrites
<1>7. CASE UNCHANGED vars
  BY <1>5, <1>7 DEF vars
<1> QED BY <1>2, <1>3, <1>4, <1>6, <1>7 DEF Next

\* With store_retry_count at 0, as it is delivered, the ByKey methods work on the server
\* of the server key and on no other.
THEOREM RoutedWithoutRetries ==
    ASSUME StoreRetryCount <= 0
    PROVE  Spec => []ServerKeyRouting
<1>1. Init => RoutingInv
  BY DEF Init, RoutingInv, ServerKeyRouting
<1>2. RoutingInv => ServerKeyRouting
  BY DEF RoutingInv
<1> QED BY <1>1, <1>2, RoutingStep, HistoryIsTrue, PTL DEF Spec
====

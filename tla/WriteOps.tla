------------------------------ MODULE WriteOps ------------------------------
(***************************************************************************)
(* The write methods of the Memcached class (php_memcached.c): set, add,   *)
(* replace, append, prepend, touch, setMulti, increment/decrement, delete, *)
(* deleteMulti and their ByKey forms.                                      *)
(*                                                                         *)
(* One PHP script calls one method at a time; a step is one libmemcached   *)
(* call, and between two of them other clients change the servers.  A call *)
(* may end in a timeout whether or not the server carried it out.          *)
(* Payloads are reduced to presence and to the number of times a call took *)
(* effect, which is what retries put at risk.                              *)
(***************************************************************************)
EXTENDS Integers, FiniteSets

CONSTANTS
    Keys,              \* keys, used as server keys as well
    NoKey,             \* no server key was given
    Servers,           \* memcached servers
    Hash,              \* Hash[k]: the server libmemcached picks for k
    StoreRetryCount,   \* memcached.store_retry_count, OPT_STORE_RETRY_COUNT
    Timeouts,          \* libmemcached calls may time out
    OthersWrite        \* other clients change the servers

ASSUME ConstantsAssumption ==
    /\ NoKey \notin Keys
    /\ Hash \in [Keys -> Servers]
    /\ StoreRetryCount \in Int
    /\ Timeouts \in BOOLEAN /\ OthersWrite \in BOOLEAN

\* The operations of s_memc_write_zval.
StoreOps == {"set", "add", "replace", "append", "prepend", "touch"}

\* Increment and decrement, without and with an initial value, and delete.
SingleOps == StoreOps \cup {"incdec", "incdec_initial", "delete"}
MultiOps  == {"setMulti", "deleteMulti"}

\* The methods, those that change the server list included.
Ops == SingleOps \cup MultiOps \cup {"servers"}

\* The libmemcached operation a method repeats for each of its keys.
ItemOp(o) == CASE o = "setMulti" -> "set" [] o = "deleteMulti" -> "delete" [] OTHER -> o

Statuses == {"SUCCESS", "NOTSTORED", "NOTFOUND", "TIMEOUT", "NO_SERVERS",
             "BAD_KEY_PROVIDED", "PAYLOAD_FAILURE", "E2BIG", "FAILURE"}

VARIABLES
    mem,         \* mem[s]: the set of keys server s holds a record for
    connected,   \* the server list is not empty
    pc,          \* "idle" or "attempt"
    op,          \* the method that is running or ran last
    server_key,  \* its server key, or NoKey
    key,         \* the key of the current item
    todo,        \* keys of a multi method that are still to come
    first,       \* the current item has not been tried yet
    retries,     \* retries left for it
    rescode,     \* intern->rescode
    ret,         \* what the method returned: TRUE or FALSE (deleteMulti: see results)
    \* history of the method
    results,     \* results[k]: the status the call for key k ended with
    attempts,    \* attempts[k]: libmemcached calls made for key k
    times,       \* times[k]: how many of them a server carried out
    reached,     \* reached[k]: the servers that carried one out
    lost         \* lost[k]: carried out, but answered with a timeout

world   == <<mem, connected>>
history == <<results, attempts, times, reached, lost>>
vars    == <<world, pc, op, server_key, key, todo, first, retries, rescode, ret, history>>

-----------------------------------------------------------------------------
\* Mutant of IsError: a store the server refused counts as done.
IsError_NotStoredPasses(status) == status \notin {"SUCCESS", "NOTSTORED"}

\* s_memcached_return_is_error: the statuses here are SUCCESS and errors.
IsError(status) == status # "SUCCESS"

\* s_should_retry_write
ShouldRetry(status) == connected /\ IsError(status)

\* Which operations are tried again at all: s_memc_write_zval, and php_memc_incdec_impl
\* only when it was given an initial value.
Retryable(o) == o \in StoreOps \cup {"incdec_initial"}

\* The server a call goes to.  The retry label of s_memc_write_zval is in the branch
\* without a server key; that of php_memc_incdec_impl is before both.
Target ==
    IF server_key # NoKey /\ (ItemOp(op) \notin StoreOps \/ first)
    THEN Hash[server_key]
    ELSE Hash[key]

\* How a server answers (memcached, external).
Answer(o, present) ==
    CASE o \in {"set", "incdec_initial"}            -> "SUCCESS"
      [] o = "add"                                  -> IF present THEN "NOTSTORED" ELSE "SUCCESS"
      [] o \in {"replace", "append", "prepend"}     -> IF present THEN "SUCCESS" ELSE "NOTSTORED"
      [] o \in {"touch", "incdec", "delete"}        -> IF present THEN "SUCCESS" ELSE "NOTFOUND"

\* The keys a server holds after it carried out o (memcached, external).
Effect(o, k, held) ==
    CASE o \in {"set", "add", "incdec_initial"} -> held \cup {k}
      [] o = "delete"                           -> held \ {k}
      [] OTHER                                  -> held

-----------------------------------------------------------------------------
(* A method is called *)

Forget(ks) ==
    /\ results' = << >>
    /\ attempts' = [k \in ks |-> 0]
    /\ times' = [k \in ks |-> 0]
    /\ reached' = [k \in ks |-> {}]
    /\ lost' = [k \in ks |-> 0]

\* The method starts with a clean status and its first (or only) item.
Enter(o, sk, k, ks) ==
    /\ pc = "idle"
    /\ op' = o /\ server_key' = sk /\ key' = k /\ todo' = ks
    /\ first' = TRUE
    /\ retries' = StoreRetryCount
    /\ rescode' = "SUCCESS"
    /\ ret' = TRUE
    /\ Forget({k} \cup ks)
    /\ pc' = "attempt"
    /\ UNCHANGED world

\* The method returns before it does anything: the key is refused (MEMC_CHECK_KEY), or a
\* warning is all there is and rescode says SUCCESS (append/prepend with compression, a
\* negative offset, an initial value without the binary protocol).  append and prepend
\* then return NULL, the others FALSE.
Refuse(o, sk, k, status) ==
    /\ pc = "idle"
    /\ op' = o /\ server_key' = sk /\ key' = k /\ todo' = {}
    /\ rescode' = status
    /\ ret' = FALSE
    /\ Forget({k})
    /\ UNCHANGED <<world, pc, first, retries>>

\* set, add, replace, append, prepend, touch: php_memc_store_impl.
CallStore(o, sk, k) ==
    \/ Enter(o, sk, k, {})
    \/ Refuse(o, sk, k, "BAD_KEY_PROVIDED")
    \/ o \in {"append", "prepend"} /\ Refuse(o, sk, k, "SUCCESS")

\* increment and decrement: php_memc_incdec_impl.
CallIncDec(o, sk, k) ==
    \/ Enter(o, sk, k, {})
    \/ \E status \in {"BAD_KEY_PROVIDED", "SUCCESS"} : Refuse(o, sk, k, status)

CallDelete(sk, k) ==
    \/ Enter("delete", sk, k, {})
    \/ Refuse("delete", sk, k, "BAD_KEY_PROVIDED")

\* setMulti or deleteMulti of an empty array makes no call at all.
NoItems(o, sk) ==
    /\ pc = "idle"
    /\ op' = o /\ server_key' = sk /\ todo' = {}
    /\ rescode' = "SUCCESS"
    /\ ret' = TRUE
    /\ Forget({})
    /\ UNCHANGED <<world, pc, key, first, retries>>

\* The items are taken one after the other, in an order the caller chose.
CallSetMulti(sk, items) ==
    \/ items = {} /\ NoItems("setMulti", sk)
    \/ \E k \in items : Enter("setMulti", sk, k, items \ {k})

\* Empty keys are skipped.
CallDeleteMulti(sk, items) ==
    \/ items = {} /\ NoItems("deleteMulti", sk)
    \/ \E k \in items : Enter("deleteMulti", sk, k, items \ {k})

-----------------------------------------------------------------------------
(* A libmemcached call and what the method makes of its status *)

\* Mutant of FinishItem: the MEMCACHED_END of a touch is not turned into SUCCESS.
FinishItem_KeepsEnd(status) ==
    /\ rescode' = IF op = "touch" /\ status = "SUCCESS" THEN "END" ELSE status
    /\ ret' = ~IsError(status)
    /\ results' = [k \in {key} |-> status]
    /\ pc' = "idle"
    /\ UNCHANGED <<op, server_key, connected, key, todo, first, retries>>

\* The current item is done: go on to the next key of a multi method, or return.  The
\* status of the last item is the status, and setMulti's result, of the whole method.
FinishItem(status) ==
    /\ rescode' = status
    /\ ret' = ~IsError(status)
    /\ results' = [k \in DOMAIN results \cup {key} |-> IF k = key THEN status ELSE results[k]]
    /\ \/ /\ todo = {}
          /\ pc' = "idle"
          /\ UNCHANGED <<key, todo, first, retries>>
       \/ \E k \in todo :
          /\ key' = k /\ todo' = todo \ {k}
          /\ first' = TRUE
          /\ retries' = StoreRetryCount
          /\ UNCHANGED pc
    /\ UNCHANGED <<op, server_key, connected>>

\* Mutant of Conclude: an operation that succeeded is sent again while retries are left.
Conclude_RetriesSuccess(status) ==
    IF Retryable(ItemOp(op)) /\ connected /\ retries > 0
    THEN /\ retries' = retries - 1
         /\ first' = FALSE
         /\ UNCHANGED <<pc, op, server_key, connected, key, todo, rescode, ret, results>>
    ELSE FinishItem(status)

\* Mutant of Conclude: one retry fewer than configured.
Conclude_OffByOne(status) ==
    IF Retryable(ItemOp(op)) /\ ShouldRetry(status) /\ retries > 1
    THEN /\ retries' = retries - 1
         /\ first' = FALSE
         /\ UNCHANGED <<pc, op, server_key, connected, key, todo, rescode, ret, results>>
    ELSE FinishItem(status)

\* What the method makes of the status of a call: try again, or be done with the item.
Conclude(status) ==
    IF Retryable(ItemOp(op)) /\ ShouldRetry(status) /\ retries > 0
    THEN /\ retries' = retries - 1
         /\ first' = FALSE
         /\ UNCHANGED <<pc, op, server_key, connected, key, todo, rescode, ret, results>>
    ELSE FinishItem(status)

\* The value cannot be serialised, or its payload exceeds OPT_ITEM_SIZE_LIMIT: no call.
ItemRefused(status) ==
    /\ pc = "attempt" /\ first
    /\ ItemOp(op) \in StoreOps \ {"touch"}
    /\ FinishItem(status)
    /\ UNCHANGED <<mem, attempts, times, reached, lost>>

CountAttempt == attempts' = [attempts EXCEPT ![key] = @ + 1]

\* The server carries the call out.
CarryOut ==
    LET s == Target IN
    /\ Answer(ItemOp(op), key \in mem[s]) = "SUCCESS"
    /\ mem' = [mem EXCEPT ![s] = Effect(ItemOp(op), key, @)]
    /\ times' = [times EXCEPT ![key] = @ + 1]
    /\ reached' = [reached EXCEPT ![key] = @ \cup {s}]

\* The call is answered.
AttemptDone ==
    /\ pc = "attempt" /\ connected
    /\ CountAttempt
    /\ CarryOut
    /\ UNCHANGED lost
    /\ Conclude("SUCCESS")

\* The server refuses: NOTSTORED, NOTFOUND.
AttemptRefused ==
    /\ pc = "attempt" /\ connected
    /\ LET status == Answer(ItemOp(op), key \in mem[Target]) IN
       status # "SUCCESS" /\ Conclude(status)
    /\ CountAttempt
    /\ UNCHANGED <<mem, times, reached, lost>>

\* No answer in time, and the server has not carried the call out ...
AttemptTimesOut ==
    /\ pc = "attempt" /\ connected /\ Timeouts
    /\ CountAttempt
    /\ Conclude("TIMEOUT")
    /\ UNCHANGED <<mem, times, reached, lost>>

\* ... or it has.
AnswerLost ==
    /\ pc = "attempt" /\ connected /\ Timeouts
    /\ CountAttempt
    /\ CarryOut
    /\ lost' = [lost EXCEPT ![key] = @ + 1]
    /\ Conclude("TIMEOUT")

\* libmemcached has no server to ask.
AttemptNoServers ==
    /\ pc = "attempt" /\ ~connected
    /\ CountAttempt
    /\ Conclude("NO_SERVERS")
    /\ UNCHANGED <<mem, times, reached, lost>>

-----------------------------------------------------------------------------
(* Other methods and other clients *)

\* A method that changes the server list, with the status and the result it leaves.
ChangeServers(b, status, result) ==
    /\ pc = "idle"
    /\ connected' = b
    /\ op' = "servers" /\ server_key' = NoKey
    /\ rescode' = status
    /\ ret' = result
    /\ Forget({})
    /\ UNCHANGED <<mem, pc, key, todo, first, retries>>

\* addServer, addServers: the list has servers afterwards; or it is as it was, because
\* addServers met no usable entry or libmemcached refused.
AddServers ==
    \/ \E b \in {TRUE, connected} : ChangeServers(b, "SUCCESS", TRUE)
    \/ ChangeServers(connected, "FAILURE", FALSE)

\* resetServerList leaves the status of the method before it.
ResetServerList == ChangeServers(FALSE, rescode, TRUE)

\* Another client stores or deletes k, or k expires (external).
OtherWrites(s, k) ==
    /\ OthersWrite
    /\ mem' = [mem EXCEPT ![s] = IF k \in @ THEN @ \ {k} ELSE @ \cup {k}]
    /\ UNCHANGED <<connected, pc, op, server_key, key, todo, first, retries, rescode, ret, history>>

-----------------------------------------------------------------------------
Init ==
    /\ mem = [s \in Servers |-> {}]
    /\ connected = FALSE
    /\ pc = "idle"
    /\ op = "set" /\ server_key = NoKey /\ key \in Keys /\ todo = {}
    /\ first = TRUE /\ retries = 0
    /\ rescode = "SUCCESS" /\ ret = TRUE
    /\ results = << >> /\ attempts = << >> /\ times = << >>
    /\ reached = << >> /\ lost = << >>

Call ==
    \E sk \in Keys \cup {NoKey} :
        \/ \E o \in StoreOps, k \in Keys : CallStore(o, sk, k)
        \/ \E o \in {"incdec", "incdec_initial"}, k \in Keys : CallIncDec(o, sk, k)
        \/ \E k \in Keys : CallDelete(sk, k)
        \/ \E items \in SUBSET Keys : CallSetMulti(sk, items) \/ CallDeleteMulti(sk, items)

Attempt ==
    \/ AttemptDone \/ AttemptRefused \/ AttemptTimesOut \/ AnswerLost \/ AttemptNoServers
    \/ \E status \in {"PAYLOAD_FAILURE", "E2BIG"} : ItemRefused(status)

Next ==
    \/ Call
    \/ Attempt
    \/ AddServers
    \/ ResetServerList
    \/ \E s \in Servers, k \in Keys : OtherWrites(s, k)

Spec == Init /\ [][Next]_vars

-----------------------------------------------------------------------------
(* Properties *)

\* The types of the servers, of the running method and of its result.
TypeOK ==
    /\ mem \in [Servers -> SUBSET Keys] /\ connected \in BOOLEAN
    /\ pc \in {"idle", "attempt"} /\ op \in Ops
    /\ server_key \in Keys \cup {NoKey} /\ key \in Keys /\ todo \in SUBSET Keys
    /\ first \in BOOLEAN /\ retries \in Int
    /\ rescode \in Statuses /\ ret \in BOOLEAN

\* How many calls an item may take.
Allowance(o) == IF Retryable(ItemOp(o)) /\ StoreRetryCount > 0 THEN 1 + StoreRetryCount ELSE 1

\* The status an item ends with tells what happened on the servers: success means that
\* some call was carried out; an error means that none was, unless an answer was lost.
StatusTellsEffect ==
    \A k \in DOMAIN results :
        /\ ~IsError(results[k]) => times[k] > lost[k]
        /\ IsError(results[k]) => times[k] = lost[k]

\* However often an item is retried, it takes effect at most once more than answers to it
\* were lost: an append or an increment that was answered is never sent again.
AtMostOncePerAnswer ==
    \A k \in DOMAIN times : times[k] <= lost[k] + 1

\* An item is given up with a server error only after all the calls it may take
\* (the first and store_retry_count retries), and never takes more.
RetriesUsedUp ==
    /\ \A k \in DOMAIN attempts : attempts[k] <= Allowance(op)
    /\ \A k \in DOMAIN results :
          results[k] \in {"NOTSTORED", "NOTFOUND", "TIMEOUT"} => attempts[k] = Allowance(op)

\* The ByKey methods work on the server identified by the server key, as their
\* comments say.
ServerKeyRouting ==
    server_key # NoKey => \A k \in DOMAIN reached : reached[k] \subseteq {Hash[server_key]}

\* setMulti's comment: if it failed to write a value, the object keeps the error for the
\* return value.
MultiReportsFailure ==
    op = "setMulti" /\ pc = "idle" /\ ret => \A k \in DOMAIN results : ~IsError(results[k])

\* memcached.ini: the retries provide fail-over for increment and decrement as well.
IncDecRetried ==
    \A k \in DOMAIN results :
        op = "incdec" /\ results[k] = "TIMEOUT" => attempts[k] > StoreRetryCount
====

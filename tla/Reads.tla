------------------------------- MODULE Reads --------------------------------
(***************************************************************************)
(* The read methods of the Memcached class (php_memcached.c): get,         *)
(* getMulti, getDelayed, fetch, fetchAll and quit.                         *)
(*                                                                         *)
(* All of them share one stream of results: those that the servers have    *)
(* sent for the last request and nobody has read yet.  A result callback   *)
(* (getDelayed) or a cache callback (get) is PHP code that may use the     *)
(* same object, so the methods in progress form a stack.  A step is a      *)
(* request, a result, or the end of a callback or method.                  *)
(*                                                                         *)
(* The servers' contents are whatever other clients made of them, so a     *)
(* request finds any value for any key.  The ByKey forms differ in the     *)
(* server they ask and not in anything kept here.                          *)
(***************************************************************************)
EXTENDS Naturals, SequencesExt

CONSTANTS
    Keys,           \* keys
    SupportCas,     \* OPT_SUPPORT_CAS as the script has set it
    Failures,       \* servers may fail
    MaxDepth        \* bound: methods in progress at a time

ASSUME ConstantsAssumption ==
    /\ IsFiniteSet(Keys)
    /\ SupportCas \in BOOLEAN /\ Failures \in BOOLEAN
    /\ MaxDepth \in Nat

Methods == {"get", "getMulti", "getDelayed", "fetch", "fetchAll", "quit"}

\* What a record makes of s_memcached_result_to_zval: a value, a warning, or an exception.
Values == {"good", "bad", "throws"}

Statuses == {"SUCCESS", "NOTFOUND", "SOME_ERRORS", "BAD_KEY_PROVIDED", "PAYLOAD_FAILURE", "FAILURE"}

Returns == {"NOTHING", "FALSE", "TRUE", "VALUE", "ARRAY"}

\* Results on the connection: does it carry a token, and is it meant for fetch and fetchAll?
Results == [key : Keys, value : Values, cas : BOOLEAN, delayed : BOOLEAN]

\* Methods in progress.
Frames ==
    [op : Methods, keys : SUBSET Keys, with_cas : BOOLEAN,
     callback : BOOLEAN,             \* a result or cache callback was given
     at : {"request", "mget", "results", "callback", "finish", "cache"},
     orig_cas_flag : BOOLEAN,
     status : Statuses,              \* of php_memc_result_apply
     count : BOOLEAN,                \* libmemcached has handed out a result to this loop
     \* history
     found : SUBSET Keys,            \* keys the request, or the stream, had a record for
     got : SUBSET Keys,              \* keys handed to return_value or to the callback
     tokenless : BOOLEAN,            \* one of them came without a cas token
     disturbed : BOOLEAN]            \* a callback used the object, or threw

VARIABLES
    stream,        \* results that are still to be read
    support_cas,   \* MEMCACHED_BEHAVIOR_SUPPORT_CAS
    rescode,       \* intern->rescode
    exception,     \* EG(exception)
    stack,         \* methods in progress, the innermost last
    \* history
    last,          \* the frame of a method that has just returned ...
    ret,           \* ... and what it returned
    broken         \* a server has failed since the stream was last empty or purged

vars == <<stream, support_cas, rescode, exception, stack, last, ret, broken>>

-----------------------------------------------------------------------------
top == stack[Len(stack)]

\* Where the object is: in the script, or at this point of the innermost method.
at == IF stack = << >> THEN "script" ELSE top.at

SetTop(f) == stack' = [stack EXCEPT ![Len(stack)] = f]

\* s_memcached_return_is_error, strict
IsError(status) == status # "SUCCESS"

\* PHP code of this object's user runs: the script, or a callback.
InPhp ==
    /\ ~exception
    /\ at \in {"script", "callback", "cache"}
    /\ Len(stack) < MaxDepth

\* The frames below the new one learn that a callback uses the object.
Disturbed(fs) == [i \in DOMAIN fs |-> [fs[i] EXCEPT !.disturbed = TRUE]]

Frame(op, ks, with_cas, callback, start) ==
    [op |-> op, keys |-> ks, with_cas |-> with_cas, callback |-> callback, at |-> start,
     orig_cas_flag |-> FALSE, status |-> "SUCCESS", count |-> FALSE,
     found |-> {}, got |-> {}, tokenless |-> FALSE, disturbed |-> FALSE]

NoFrame == Frame("quit", {}, FALSE, FALSE, "request")

Forget == last' = NoFrame /\ ret' = "NOTHING"

\* A method starts with a clean status.
Enter(f) ==
    /\ InPhp
    /\ stack' = Append(Disturbed(stack), f)
    /\ rescode' = "SUCCESS"
    /\ Forget
    /\ UNCHANGED <<stream, support_cas, exception, broken>>

\* A method returns before it does anything.
Refuse(f, status, r) ==
    /\ InPhp
    /\ stack' = Disturbed(stack)
    /\ rescode' = status
    /\ last' = f /\ ret' = r
    /\ UNCHANGED <<stream, support_cas, exception, broken>>

\* The method at the top returns r with the object's status at rc.
ReturnWith(f, rc, r) ==
    /\ stack' = Front(stack)
    /\ rescode' = rc
    /\ last' = f /\ ret' = r

-----------------------------------------------------------------------------
(* The methods are called *)

\* php_memc_get_impl; callback is the cache callback.
CallGet(k, with_cas, callback) ==
    LET f == Frame("get", {k}, with_cas, callback, "request") IN
    Enter(f) \/ Refuse(f, "BAD_KEY_PROVIDED", "FALSE")

\* php_memc_getMulti_impl
CallGetMulti(ks, with_cas) ==
    LET f == Frame("getMulti", ks, with_cas, FALSE, "request") IN
    \/ ks # {} /\ Enter(f)
    \/ ks = {} /\ Refuse(f, "NOTFOUND", "ARRAY")
    \/ ks = {} /\ Refuse(f, "BAD_KEY_PROVIDED", "FALSE")   \* none of the keys is valid

\* php_memc_getDelayed_impl; callback is the result callback.
CallGetDelayed(ks, with_cas, callback) ==
    LET f == Frame("getDelayed", ks, with_cas, callback, "request") IN
    \/ ks # {} /\ Enter(f)
    \/ ks = {} /\ Refuse(f, "BAD_KEY_PROVIDED", "FALSE")

KeysOf(results) == {results[i].key : i \in DOMAIN results}

CallFetch    == Enter([Frame("fetch", {}, FALSE, FALSE, "results") EXCEPT !.found = KeysOf(stream)])
CallFetchAll == Enter([Frame("fetchAll", {}, FALSE, FALSE, "results") EXCEPT !.found = KeysOf(stream)])

\* Memcached::quit leaves the status of the method before it.
CallQuit ==
    /\ InPhp
    /\ stack' = Disturbed(stack)
    /\ stream' = << >> /\ broken' = FALSE
    /\ last' = NoFrame /\ ret' = "TRUE"
    /\ UNCHANGED <<support_cas, rescode, exception>>

-----------------------------------------------------------------------------
\* What is left of the stream when only some of its results are kept, in their order: the
\* one sequence of the results at these positions, as a set.
Kept(positions) ==
    {[i \in DOMAIN order |-> stream[order[i]]] :
        order \in {o \in SetToSeqs(positions) : \A i, j \in DOMAIN o : i < j => o[i] < o[j]}}

\* Where the results of these keys are in the stream.
PositionsOf(ks) == {i \in DOMAIN stream : stream[i].key \in ks}

-----------------------------------------------------------------------------
(* php_memc_mget_apply *)

\* CAS support is switched on for this request.
SwitchCas ==
    /\ at = "request"
    /\ SetTop([top EXCEPT !.at = "mget", !.orig_cas_flag = support_cas])
    /\ support_cas' = (support_cas \/ top.with_cas)
    /\ UNCHANGED <<stream, rescode, exception, last, ret, broken>>

\* Mutant of RestoreCas: the flag stays on when the request fails.
RestoreCas_NotOnFailure(status) ==
    support_cas' = IF top.with_cas /\ ~IsError(status) THEN top.orig_cas_flag ELSE support_cas

\* It is switched back whatever came of the request.
RestoreCas(status) == support_cas' = IF top.with_cas THEN top.orig_cas_flag ELSE support_cas

\* getDelayed without a callback leaves the results to fetch and fetchAll.
Delayed(f) == f.op = "getDelayed" /\ ~f.callback

\* The answers of the servers, in some order (external).
Answers(records) ==
    {[i \in DOMAIN order |->
        [key |-> order[i], value |-> records[order[i]], cas |-> support_cas,
         delayed |-> Delayed(top)]] :
     order \in SetToSeqs(DOMAIN records)}

\* memcached_mget throws away what is left of the last request and sends this one.
MGetDone ==
    /\ at = "mget"
    /\ RestoreCas("SUCCESS")
    /\ \E ks \in SUBSET top.keys : \E records \in [ks -> Values] :
          /\ stream' \in Answers(records)
          /\ LET f == [top EXCEPT !.found = ks] IN
             IF Delayed(top)
             THEN ReturnWith(f, "SUCCESS", "TRUE")
             ELSE SetTop([f EXCEPT !.at = "results"]) /\ rescode' = "SUCCESS" /\ UNCHANGED <<last, ret>>
    /\ broken' = FALSE
    /\ UNCHANGED exception

\* What the method makes of a request that failed.  getMulti returns its array, which is
\* still empty, for two of the statuses, and get may turn to its cache callback.
MGetFailed(status) ==
    IF top.op = "get" /\ status = "NOTFOUND" /\ top.callback
    THEN /\ SetTop([top EXCEPT !.at = "cache"])
         /\ rescode' = status
         /\ UNCHANGED <<last, ret>>
    ELSE ReturnWith(top, status,
                    IF top.op = "getMulti" /\ status \in {"NOTFOUND", "SOME_ERRORS"}
                    THEN "ARRAY" ELSE "FALSE")

\* The request could not be sent at all.
MGetRefused ==
    /\ at = "mget" /\ Failures
    /\ RestoreCas("FAILURE")
    /\ MGetFailed("FAILURE")
    /\ \/ UNCHANGED <<stream, broken>>
       \/ stream' = << >> /\ broken' = FALSE
    /\ UNCHANGED exception

\* Some servers got it and will answer, although nobody is going to read that.
MGetSomeErrors ==
    /\ at = "mget" /\ Failures
    /\ RestoreCas("SOME_ERRORS")
    /\ \E ks \in SUBSET top.keys : \E records \in [ks -> Values] :
          stream' \in Answers(records)
    /\ MGetFailed("SOME_ERRORS")
    /\ broken' = TRUE
    /\ UNCHANGED exception

-----------------------------------------------------------------------------
(* php_memc_result_apply *)

InLoop == at = "results"

\* Mutant of NoResult: MEMCACHED_END counts as an error.
NoResult_KeepsEnd ==
    /\ InLoop /\ stream = << >>
    /\ SetTop([top EXCEPT !.at = "finish", !.status = IF top.count THEN "END" ELSE "NOTFOUND"])
    /\ UNCHANGED <<stream, support_cas, rescode, exception, last, ret, broken>>

\* There is no further result: END, which is no error, after some, and NOTFOUND if none came.
NoResult ==
    /\ InLoop /\ stream = << >>
    /\ SetTop([top EXCEPT !.at = "finish", !.status = IF top.count THEN @ ELSE "NOTFOUND"])
    /\ UNCHANGED <<stream, support_cas, rescode, exception, last, ret, broken>>

\* A server fails: its results are gone, those of the others stay where they are.
ResultFails ==
    /\ InLoop /\ stream # << >> /\ Failures
    /\ SetTop([top EXCEPT !.at = "finish", !.status = "FAILURE"])
    /\ \E ks \in SUBSET (Keys \ {stream[1].key}) : stream' \in Kept(PositionsOf(ks))
    /\ broken' = TRUE
    /\ UNCHANGED <<support_cas, rescode, exception, last, ret>>

\* The frame after result r was handed on.
Given(f, r) ==
    [f EXCEPT !.count = TRUE, !.got = @ \cup {r.key}, !.tokenless = @ \/ ~r.cas]

\* s_get_apply_fn, s_fetch_apply and s_result_callback_apply, s_get_multi_apply_fn and
\* s_fetch_all_apply: stop after one result, call the callback, or go on.  A loop that
\* stops clears the results, except for fetch.
ApplyResult ==
    LET r == stream[1] IN
    /\ InLoop /\ stream # << >> /\ r.value = "good"
    /\ \/ /\ top.op = "get"
          /\ SetTop([Given(top, r) EXCEPT !.at = "finish"])
          /\ stream' = << >>
       \/ /\ top.op = "fetch"
          /\ SetTop([Given(top, r) EXCEPT !.at = "finish"])
          /\ stream' = Tail(stream)
       \/ /\ top.op \in {"getMulti", "fetchAll"}
          /\ SetTop(Given(top, r))
          /\ stream' = Tail(stream)
       \/ /\ top.op = "getDelayed" /\ ~exception
          /\ SetTop([Given(top, r) EXCEPT !.at = "callback"])
          /\ stream' = Tail(stream)
    /\ UNCHANGED <<support_cas, rescode, exception, last, ret, broken>>

\* An earlier call of the result callback has thrown.  PHP 8 does not call it again and the
\* loop goes on; for PHP 7 the call fails, and the loop clears the results and stops.
CallbackNotCalled ==
    /\ InLoop /\ stream # << >> /\ stream[1].value = "good"
    /\ top.op = "getDelayed" /\ exception
    /\ \/ SetTop([top EXCEPT !.count = TRUE]) /\ stream' = Tail(stream)
       \/ SetTop([top EXCEPT !.at = "finish"]) /\ stream' = << >>
    /\ UNCHANGED <<support_cas, rescode, exception, last, ret, broken>>

\* A value that cannot be decoded is skipped with a warning.
ResultBad ==
    /\ InLoop /\ stream # << >> /\ stream[1].value = "bad" /\ ~exception
    /\ SetTop([top EXCEPT !.count = TRUE, !.status = "SOME_ERRORS"])
    /\ stream' = Tail(stream)
    /\ UNCHANGED <<support_cas, rescode, exception, last, ret, broken>>

\* Mutant of ResultThrows: the connection is kept.
ResultThrows_NoQuit ==
    /\ InLoop /\ stream # << >>
    /\ stream[1].value = "throws" \/ (stream[1].value = "bad" /\ exception)
    /\ SetTop([top EXCEPT !.at = "finish", !.status = "PAYLOAD_FAILURE"])
    /\ exception' = TRUE
    /\ stream' = Tail(stream)
    /\ UNCHANGED <<support_cas, rescode, last, ret, broken>>

\* Decoding throws, or fails while an exception is pending: the connection is closed.
ResultThrows ==
    /\ InLoop /\ stream # << >>
    /\ stream[1].value = "throws" \/ (stream[1].value = "bad" /\ exception)
    /\ SetTop([top EXCEPT !.at = "finish", !.status = "PAYLOAD_FAILURE"])
    /\ exception' = TRUE
    /\ stream' = << >> /\ broken' = FALSE
    /\ UNCHANGED <<support_cas, rescode, last, ret>>

-----------------------------------------------------------------------------
(* Callbacks end *)

\* The result callback returns, whatever its value.
CallbackReturns ==
    /\ at = "callback" /\ ~exception
    /\ SetTop([top EXCEPT !.at = "results"])
    /\ Forget
    /\ UNCHANGED <<stream, support_cas, rescode, exception, broken>>

\* It throws, or does not catch what a method it called has thrown.
CallbackThrows ==
    /\ at = "callback"
    /\ SetTop([top EXCEPT !.at = "results", !.disturbed = TRUE])
    /\ exception' = TRUE
    /\ Forget
    /\ UNCHANGED <<stream, support_cas, rescode, broken>>

\* s_invoke_cache_callback: the callback returns TRUE and its value is stored.  The server
\* asked to store it drops what is left there of a request made in the callback.
CacheStored ==
    /\ at = "cache" /\ ~exception
    /\ ReturnWith(top, "SUCCESS", "VALUE")
    /\ \E ks \in SUBSET Keys : stream' \in Kept(PositionsOf(ks))
    /\ UNCHANGED <<support_cas, exception, broken>>

\* The store fails.
CacheNotStored ==
    /\ at = "cache" /\ ~exception
    /\ \E status \in {"PAYLOAD_FAILURE"} \cup (IF Failures THEN {"FAILURE"} ELSE {}) :
          ReturnWith(top, status, "FALSE")
    /\ \E ks \in SUBSET Keys : stream' \in Kept(PositionsOf(ks))
    /\ UNCHANGED <<support_cas, exception, broken>>

\* The callback returns FALSE, has no value to offer, or throws: the status stays.
CacheDeclines ==
    /\ at = "cache"
    /\ ReturnWith(top, rescode, "FALSE")
    /\ exception' \in {exception, TRUE}
    /\ UNCHANGED <<stream, support_cas, broken>>

\* The script or a callback catches the exception.
Catch ==
    /\ exception
    /\ at \in {"script", "callback", "cache"}
    /\ exception' = FALSE
    /\ UNCHANGED <<stream, support_cas, rescode, stack, last, ret, broken>>

-----------------------------------------------------------------------------
(* A method ends: the status of the loop becomes that of the object *)

\* get: a value, FALSE, or the cache callback for a key that was not found.
FinishGet ==
    LET status == top.status IN
    /\ at = "finish" /\ top.op = "get"
    /\ IF IsError(status) THEN MGetFailed(status) ELSE ReturnWith(top, status, "VALUE")
    /\ UNCHANGED <<stream, support_cas, exception, broken>>

\* Mutant of FinishGetMulti: an incomplete array counts as a success.
FinishGetMulti_NotStrict ==
    LET status == top.status IN
    /\ at = "finish" /\ top.op = "getMulti"
    /\ ReturnWith(top, IF status = "SOME_ERRORS" THEN "SUCCESS" ELSE status,
                  IF status \in {"SUCCESS", "NOTFOUND", "SOME_ERRORS"} THEN "ARRAY" ELSE "FALSE")
    /\ UNCHANGED <<stream, support_cas, exception, broken>>

\* getMulti: what there is of an array, unless the whole loop failed.
FinishGetMulti ==
    LET status == top.status IN
    /\ at = "finish" /\ top.op = "getMulti"
    /\ IF IsError(status) THEN MGetFailed(status) ELSE ReturnWith(top, status, "ARRAY")
    /\ UNCHANGED <<stream, support_cas, exception, broken>>

\* getDelayed with a callback: whether the loop went well.
FinishGetDelayed ==
    /\ at = "finish" /\ top.op = "getDelayed"
    /\ ReturnWith(top, top.status, IF IsError(top.status) THEN "FALSE" ELSE "TRUE")
    /\ UNCHANGED <<stream, support_cas, exception, broken>>

\* fetch and fetchAll: the array, or FALSE for any error on the way.
FinishFetch ==
    /\ at = "finish" /\ top.op \in {"fetch", "fetchAll"}
    /\ ReturnWith(top, top.status, IF IsError(top.status) THEN "FALSE" ELSE "ARRAY")
    /\ UNCHANGED <<stream, support_cas, exception, broken>>

-----------------------------------------------------------------------------
Init ==
    /\ stream = << >>
    /\ support_cas = SupportCas
    /\ rescode = "SUCCESS"
    /\ exception = FALSE
    /\ stack = << >>
    /\ last = NoFrame /\ ret = "NOTHING"
    /\ broken = FALSE

Call ==
    \/ \E k \in Keys, with_cas, callback \in BOOLEAN : CallGet(k, with_cas, callback)
    \/ \E ks \in SUBSET Keys, with_cas \in BOOLEAN : CallGetMulti(ks, with_cas)
    \/ \E ks \in SUBSET Keys, with_cas, callback \in BOOLEAN : CallGetDelayed(ks, with_cas, callback)
    \/ CallFetch \/ CallFetchAll \/ CallQuit

Request == SwitchCas \/ MGetDone \/ MGetRefused \/ MGetSomeErrors

Loop ==
    \/ NoResult \/ ResultFails \/ ApplyResult \/ CallbackNotCalled
    \/ ResultBad \/ ResultThrows

EndOfCallback ==
    \/ CallbackReturns \/ CallbackThrows
    \/ CacheStored \/ CacheNotStored \/ CacheDeclines

Finish == FinishGet \/ FinishGetMulti \/ FinishGetDelayed \/ FinishFetch

Next == Call \/ Request \/ Loop \/ EndOfCallback \/ Catch \/ Finish

Spec == Init /\ [][Next]_vars

-----------------------------------------------------------------------------
(* Properties *)

\* The types of the stream, of the object and of the methods in progress.
TypeOK ==
    /\ stream \in Seq(Results)
    /\ support_cas \in BOOLEAN /\ rescode \in Statuses /\ exception \in BOOLEAN
    /\ stack \in Seq(Frames)
    /\ last \in Frames /\ ret \in Returns /\ broken \in BOOLEAN

\* CAS support is on only while a request that asks for tokens is made: whatever PHP code
\* runs, and however requests fail and nest, it finds the setting of the script; and every
\* result of a method that asked for tokens has one.
CasOnRequest ==
    /\ at # "mget" => support_cas = SupportCas
    /\ last.with_cas /\ ~last.disturbed => ~last.tokenless

\* Only getDelayed without a callback leaves results behind for fetch: as long as no server fails, no other
\* method returns, normally or by an exception, with results of its request unread, which
\* a later fetch or fetchAll would hand out as its own.
NoLeftovers ==
    stack = << >> /\ ~broken => \A i \in DOMAIN stream : stream[i].delayed

\* RES_SUCCESS means complete: whatever the servers had for the keys of a get, getMulti or
\* getDelayed with a callback, or was waiting for fetchAll, has been handed to the script,
\* unless its callbacks used the object meanwhile or threw.
SuccessIsComplete ==
    \/ rescode # "SUCCESS" \/ last.disturbed
    \/ last.op \in {"fetch", "quit"} \/ Delayed(last)
    \/ last.found = last.got

\* fetch returns the next result of a delayed request: a result that it has taken off the
\* stream and decoded is what it returns.
FetchKeepsResults ==
    last.op = "fetch" /\ ret = "FALSE" => last.got = {}
=============================================================================

# php-memcached in TLA+

TLA+ models of the php-memcached extension: the state machines behind its
session handler, its write and read methods, its values and options, its
handles and its `MemcachedServer` class, with TLC runs on small instances of each
and TLAPS proofs about all of them.

## The system and its parts

php-memcached is a PHP extension around libmemcached.  A PHP process runs one
request at a time; what makes the extension hard is everything outside that
process: other PHP processes on the same memcached servers, answers that are
lost, records that expire, servers that fail, PHP callbacks that run in the
middle of the extension's C code, and handles that outlive a request.

| Part | State | Operations | Hard behaviour | What makes it correct |
|---|---|---|---|---|
| Session handler (`php_memcached_session.c`) | lock and payload records in memcached; a handle with `is_locked` and `lock_key`, possibly persistent | open, read, write, close, destroy, create_sid, validate_sid, update_timestamp; `s_lock_session`, `s_unlock_session` | concurrent requests, expiry, lost answers, dying workers, handles reused by the next request or replaced by `session_reset()` | mutual exclusion, no lost update, every lock given back, no endless wait |
| Write methods (`php_memcached.c`) | server list, `rescode`, retries left | set, add, replace, append, prepend, touch, setMulti, increment, decrement, delete, deleteMulti and ByKey forms | timeouts with unknown effect, retries, partial failure of a multi method | the status tells what happened on the servers; no effect twice without a lost answer; retries used as configured |
| Read methods (`php_memcached.c`) | the stream of unread results, `rescode`, the CAS behaviour flag, the methods in progress | get, getMulti, getDelayed, fetch, fetchAll, quit | callbacks re-entering the object, exceptions while decoding, undecodable values, failing servers | no stale results, success means complete, settings restored |
| `MemcachedServer` (`php_memcached_server.c`) | callbacks, clients, one-shot libevent events, unread and unwritten data | on, run, `s_accept_cb`, `s_handle_memcached_event`, the command handlers | peers that send, stop reading and hang up at any time, callbacks that register callbacks, failing event registration | one event per live client, none for a freed one, ON_CONNECT first and once, every command read and its answer written once the peer reads |
| Persistent handles and object life (`__construct`, `php_memc_object_free_storage`, the persistent list) | handles, objects referring to them, the persistent list | construct, on_new, free, request and process end, setSaslAuthData | on_new callbacks that throw or construct further objects, fatal errors inside them, objects constructed twice | no object refers to a freed handle, every handle is freed, on_new runs once per id, isPristine tells the truth |
| Value codec (`s_zval_to_payload`, `s_memcached_result_to_zval`, cas tokens, `g_fmt.c`) | none (pure) | encode, compress, decode | numeric limits, flag layout, readers with another build or other settings | a reader gets the value that was written, or fails; a cas token names one record |
| Options and INI settings (`php_memc_set_option`, `OnUpdate...`) | serializer, compression, user flags, size limit of a handle | setOption, setOptions, php.ini | values that are refused half way, settings changed between a write and a read | a handle can read what it writes |
| Server list, statistics, encryption | libmemcached's | getServerList, getStats, ... | | thin wrappers |

The parts meet in three places.  The session handler and the `Memcached` class
use separate libmemcached handles and share only the servers and the persistent
list (under different keys).  Read and write methods share the handle: its
server list, `rescode` and connection, and `get` with a cache callback calls
the write path.  `MemcachedServer` shares nothing with the others but is
usually the peer of a client in another process.  Settings belong to a handle and
so, for a persistent one, to every object that takes it; two processes that share
a key share its bytes and nothing else, in particular not their settings.

## Modules

| Module | Models | 
|---|---|
| `SessionStore` | what the session handler promises: one holder per session, only the holder changes it |
| `Session` | the session handler, one step per libmemcached call |
| `SessionProofs` | theorems about `Session` |
| `MCSession` | small instances of `Session` |
| `WriteOps`, `MCWriteOps` | the write methods and their retry loop |
| `WriteOpsProofs` | theorems about `WriteOps` |
| `Reads`, `MCReads` | the read methods, the result loop and their callbacks |
| `ReadsProofs` | theorems about `Reads` |
| `ProtoServer`, `MCProtoServer` | the event loop of `MemcachedServer` |
| `ProtoServerProofs` | theorems about `ProtoServer` |
| `Codec` | values to payloads and flags and back, cas tokens: operators only |
| `CodecProofs` | theorems about `Codec` |
| `Options` | the settings of a handle and `php_memc_set_option`: operators only |
| `Values`, `MCValues` | composes `Codec` and `Options`: several processes write, count, read and `cas` one key |
| `ValuesProofs` | theorems about `Values`, from those about `Codec` |
| `Handles`, `MCHandles` | objects, handles, the persistent list and the on_new callback |
| `HandlesProofs` | theorems about `Handles` |

`PROJECT.json` maps every definition to the lines it stands for.
Definitions named `X_Y` next to a definition `X` are mutants: `X` with a
plausible mistake, used to confirm that a property notices it.

### Session

A worker is a PHP process.  `lock` and `sess` are the two memcached records of
a session, `is_locked` and `lock_key` the fields of the handle's user data, and
`pc` names the next libmemcached call of the handler function that is running.
`lock[s]` remembers who added the lock record; the record itself does not (its
value is `"1"`), and no guard of the code looks at it.  Each function of the
save handler is a chain of actions cut at its libmemcached calls, because that
is where other workers, expiry and process death come in: `EnterRead`,
`LockAcquired`/`LockBusy`/`LockError`, `NextLockAttempt` (the loop condition),
`Read`/`ReadFails`; `EnterWrite`, `Write`/`WriteFails`; `Destroy`,
`DestroyUnlocks`; `Close`; `CreateSid`, `ValidateSid`, `UpdateTimestamp`.
`PsOpen` makes or reuses the handle.  PHP's session module, which calls these
functions, is external: `Start`, `Save`, `SaveUnchanged`, `DestroySession`,
`Abort`, `Reset` and `Reopen` are call sequences it makes.  They are taken from how
it uses a save handler and are not claimed to be complete; an id that PHP makes up
itself is one of the ids `Start` may come with.  Waiting times are left
out (a wait is just a point between two steps), and a record with a time to
live may expire at any moment (`ExpireLock`, `ExpireSession`).  `lapsed` is a
history variable: the sessions whose lock expired under a worker that still
believed in it.

`session_reset()` (`Reset`, `ResetFails`) opens and reads the session again without
closing it, and PS_OPEN does not look at the handle it had.  A handle that is not
persistent is replaced while it holds its lock: the new one then waits for a lock
that nobody will give back before it expires, and the request goes on to close
without a session.  A persistent handle is found again, locked.  The lock loop adds
the record once more, fails and ends at once because `is_locked` is set, which is
right for the same session; if the session has expired meanwhile and strict mode gave
it a new id, the worker may enter the new session without its lock.  `Resets` are the
workers whose scripts call it and `Strays` those of them whose handles are persistent.
The properties say what is left: `NoStaleLock` and `LockReleased` except `Resets`,
since their locks do stay behind; `NoLostUpdate`, `ImplementsStore` and the last two
parts of `LockInv` except `Strays` only; `MutualExclusion` and `LockWaitEnds` except
nobody.

### WriteOps

One object, one method at a time.  A method enters (`Enter`) or is refused
before it does anything (`Refuse`); every libmemcached call is one step and ends
answered (`AttemptDone`, `AttemptRefused`), timed out without an effect
(`AttemptTimesOut`), timed out with one (`AnswerLost`), or without servers.
`Conclude` is the retry decision, `FinishItem` the loop of the multi methods.
A server is the set of keys it holds; payloads are reduced to presence and to
the number of times an item took effect.  `OtherWrites` stands for all other
clients and for expiry.  Left out: `cas`, which never retries and is in `Values`,
statuses of buffered and no-reply operation, libmemcached's own ejection of servers (the target of a key is
fixed), the value of a counter, and keys given twice to a multi method.

### Reads

The methods in progress form a `stack`, because the result callback of
`getDelayed` and the cache callback of `get` are PHP code that may call the
same object.  `stream` holds the results that libmemcached has not handed out
yet.  A frame records the local variables of `php_memc_mget_apply` and
`php_memc_result_apply` and some history.  What a server holds is not kept: a
request finds any value for any key, and a value is `good`, `bad` (a warning and
no value) or `throws`.  Three things about libmemcached are assumed: a new request
throws away the results of the one before; a failing server takes only its
own results with it (`Kept`: the others stay in their order); and
`memcached_fetch_result` reports a server that fails, at once and with an error status
(`ResultFails`).  A version that turned such an error into "no more results" would make
`SuccessIsComplete` fail, since the extension has no other way to learn of it.  After an exception in a
result callback PHP 7 refuses to
call the callback again and PHP 8 silently does not; both are allowed.

### ProtoServer

The variables are the callback table, the clients' sockets, their unread
commands and unwritten packets, libevent's one-shot events with the flags they
wait for, and how far the handler of the current event is.  A step is one
callback, because a callback may register others (`On`).  `Dispatch` is
libevent picking a ready event; `ConnectAccepted`, `ConnectRejected`,
`Command`, `WorkError`, `WorkDone`, `Schedule` and `ScheduleWarns` are the
handler; command handlers are sequences of packets (`PlainHandler`,
`ValueHandler`, `StatHandler`).  `memcached_protocol_client_work` is external: it reads
all commands there are and writes as many packets as the socket takes (`Writable`), none
if the peer has stopped reading (`PeerStalls`), whose socket is then not ready for
writing until `PeerReads`.
After a `run()` that failed the model stops.

### Codec, Options and Values

A PHP value is a pair of a type and a content, a payload is a *text*: pieces of
a string, the digits of a number, a serialised value, or one of these compressed.
The texts are abstract, so that digits and serialisation formats are invertible by
definition; what is not is everything the extension itself decides: the
type, which text is written for it, when it is compressed and marked as such, the
layout of the flags, which serializer and decompressor the flags select when
reading, and what happens when the build lacks it.  `Garbled` stands for any run of
bytes that nobody wrote on purpose (an append to a compressed payload, say) and for
whatever a reader makes of it.  `Encode` is `s_zval_to_payload`, `Decode` is
`s_memcached_result_to_zval`.  Flags are integers and their fields are cut out with
`\div` and `%`.

`Options` has one operator for each option that decides about values, and
`SetOption` to choose among them, refusals included: `SetSerializer` falls back to
the PHP serializer when it refuses.  A new handle takes its serializer, compression type,
size limit and protocol from php.ini (`InitialSettings`, `FromIni`).

`Values` has one key, its record on the server, and per client its settings and its
last cas token.  A client is a PHP process with a build of its own (`Have`).
`Store`, `Extend` (append, prepend), `IncDec`, `Cas`, `GetExtended`, `ChangeOption`
and `Vanish` are the methods in which a call reaches the server and takes effect;
calls that are refused change nothing here.  `meant` and `user` record what the bytes
are supposed to stand for; `Unknown` where the script itself asked for something
meaningless (appending to a serialised value) or PHP cannot express it (a
counter above `PHP_INT_MAX`).  memcached is external: how it joins, counts and
compares tokens.

### Handles

Handles are numbers, never used twice.  `memc[o]` is what the object refers to,
`persistent_list` the process's list, and `frames` the constructors that wait for
their on_new callback, innermost last.  While a callback runs, any other action may
happen, since it is PHP code; an object under construction cannot go away, because
the callback's parameters hold it.  `Construct` takes the handle of the id
(`TakeHandle`) or makes one (`MakeHandle`), which is registered at once or,
with a callback, by `CallbackReturns`; `CallbackThrows` frees it.  `exit` in a
callback unwinds like an exception.  `EndRequest` is the end of a request, in order
or with a fatal error at any depth of callbacks; `EndProcess` empties the list.
Destroying a handle that was freed, or calling a method on one, is undefined
behaviour: the model lets nothing follow from it, and `NoDangling` says when it can
happen.

Two exceptions are written into the properties because the code has them.
`overlapped` are the ids for which a constructor ran inside the callback of another
one for the same id: the second registration replaces the first one's list entry and
frees its handle, although an object may still refer to it.  `lost` are handles the
script threw away: that of an object that is constructed a second time, and an
unregistered persistent one after a fatal error in its callback.

## Runs

| Run | Configuration | Shows |
|---|---|---|
| `session_locking` | 2 workers, 2 sessions, 1 payload, 1 retry; every call may fail, workers die, locks and sessions expire; one worker has a persistent handle, the other calls `session_reset()` | `MutualExclusion`, `NoLostUpdate` and the inductive `LockInv` |
| `session_release` | the same without lock expiry, crashes, failing lock calls and persistent handles; one worker calls `session_reset()`; fair | `NoStaleLock`, `LockReleased`, `LockWaitEnds`; `ImplementsStore`, the refinement to `SessionStore` |
| `session_late_unlock` | as `session_locking`, no failures, both handles persistent, no `session_reset()` | *violation*: `LockKeptByHolder` |
| `write_ops` | 2 keys on 2 servers, 2 retries, timeouts, other clients | `StatusTellsEffect`, `AtMostOncePerAnswer`, `RetriesUsedUp` |
| `write_ops_by_key` | same | *violation*: `ServerKeyRouting` |
| `write_ops_multi` | same | *violation*: `MultiReportsFailure` |
| `write_ops_incdec` | same | *violation*: `IncDecRetried` |
| `reads` | 2 keys, failing servers, callbacks nested once | `CasOnRequest`, `NoLeftovers`, `SuccessIsComplete` |
| `reads_fetch` | 2 keys, no failures, no nesting | *violation*: `FetchKeepsResults` |
| `values` | 2 clients, one without igbinary and zstd, with two php.ini files (size limit 10 or none, text or binary protocol); 14 values of every type, 15 option calls, 2 stores, 2 option changes, tokens on both sides of `LONG_MAX` | `ReadsBack`, `UserFlagsKept`, `ReadsOwnValues`, `CasIsExact`, `CounterAgrees` |
| `handles` | 3 objects, 2 ids, 3 handles, callbacks 3 deep; objects and ids symmetric | `NoDangling`, `NoLeak`, `NoCredentialsLeft`, `OnNewOnce`, `PristineMeansMine` |
| `proto_server` | 2 peers, one of 2 commands that may stop reading and one of 1; `get` and `stat`, failing event registration, fair | `EventInv`, `ConnectGate`, `Answered` |

Why the bounds suffice.  The session protocol is between the holder of a lock
and one contender, and a handle is reused at most by the next request, so two
workers and two sessions (session_regenerate_id moves from one to another) show
every kind of conflict; the proofs cover any number.  One payload beside the empty one
tells a lost update from one that was kept.  A persistent handle and `session_reset()`
are given to different workers to keep the state space small; a worker with both
(`Strays`) is covered by the proof of `LockInv` and excepted elsewhere.  One lock retry has a first
attempt, a repeated one and a last one.  Two retries of a write separate the
first attempt (with the server key) from later ones, and two keys on two servers
separate right from wrong targets and first from last items.  Two results are
enough for a good one behind a bad one, and one level of nesting for a callback
that uses its object; deeper nesting repeats the same step on a longer stack.
In the server, two clients are needed for the loop to prefer one of them, and from one
of them a second command that arrives while the answer to the first is partly written.  `ProtoServer` is run without deadlock
checking because it really ends: peers stop after `MaxSent` commands, and a
failed `run()` is the end.

In `Values`, integers are narrow (`LongMax` is 7, `UserFlagsMax` 3) so that every
limit is within a step or two: `LONG_MAX`, the wrap at `UINT64_MAX`, the largest
token that is still a PHP integer (the first token is 6).  The flags keep their real
32-bit layout.  Two stores are a value and what is done to it; two option
changes set a writer apart from a reader or a client from what it was before.
Three handles in `Handles` are a registered one, one that replaces it and one
more that is private; three nested callbacks make an overlap inside an unrelated
callback.  Both are run without deadlock checking: they end when the stores and
option changes, or the handles, are used up.

### Fairness

`Session!FairSpec` has weak fairness of `Continue`, each worker's next step inside the
handler or between two calls of it that PHP's session module makes on its own: a PHP
process that is not stopped goes on, and libmemcached's calls return (with a timeout if
need be).  The script's own steps (`Script`: save, destroy, abort, reset) are not fair,
and a script may keep its session for ever: locks that do not expire are the case
where `max_execution_time` sets no limit either (`s_lock_expiration`).  `LockReleased`
therefore speaks of workers whose scripts leave the session again and again;
`LockWaitEnds` asks nothing of the script, nor of the worker that holds the lock.

`ProtoServer!FairSpec` has weak fairness of the rest of a handler (callbacks
return) and strong fairness of `Dispatch` per client: the event base polls all
descriptors in every round, so an event that is ready again and again is
served.  The peers owe nothing: `Answered` promises that commands are read whether the
peer reads its answers or not, and that answers are written if the peer stops reading
only for a time.

## Findings

* `session_late_unlock`: `s_unlock_session` deletes the lock by its key.  If it
  expired meanwhile ("The time, in seconds, before a lock should release
  itself", `memcached.ini`), the lock of the next holder is deleted.
* `write_ops_by_key`: the retry label of `s_memc_write_zval` is in the branch
  without a server key, so a retried ByKey write goes to another server.
* `write_ops_multi`: `setMulti` returns the status of its last item, not of a
  failed one.
* `write_ops_incdec`: `store_retry_count` is documented for increment and
  decrement, which use it only when an initial value is given.
* `reads_fetch`: `fetch` loses the result that follows an undecodable one.

## Proofs

All theorems hold for every value of the constants that satisfies the
module's assumption; TLC checks these assumptions for each run.  The assumptions
say what the constants are: that retry counts and limits are numbers, that the keys
are finitely many, that a PHP value has the content its type says (`IsValue`), that
user flags fit into their 16 bits.  Every invariant of every passing run and the
refinement are theorems.

`SessionProofs`:

* `TypeCorrect`: `Spec => []TypeOK`.
* `LockDiscipline`: `Spec => []LockInv`.  Mutual exclusion alone is not
  inductive: nothing in "two workers do not both believe" prevents a worker
  from believing without a record, or a reused persistent handle from starting
  with a stale `is_locked`.  `LockInv` adds that a believed lock that has not
  lapsed is in memcached and was added by the believer (`HeldLock`), that a
  handle is unlocked between requests and when the lock loop starts
  (`LockStartsUnlocked`), and that the lock is held from the read to the last access
  (`SessionIsLocked`).  Of `Strays` it does not say that the loop starts unlocked, nor
  that the lock is that of the session at hand; exclusion does not need it.
* `Exclusion`: `MutualExclusion` follows from `HeldLock` in one step.
* `UpdatesKept`: `NoLostUpdate` is inductive relative to `LockInv`: another
  worker's write needs a lock on the same session, and that is excluded.  It asks that
  there are no `Strays`.
* `LocksAreReleased`: `NoStaleLock` is inductive relative to `LockInv`.  A worker
  forgets a lock only where it deletes the record (`UnlockSession`), and
  `LockStartsUnlocked` is what keeps a new lock from replacing one that is still
  believed in.  The theorem does not ask that locks never expire: an expiry, and the
  late delete it may lead to, only take records away.  It says nothing of the locks of
  workers that call `session_reset()`, which forget a lock with its handle.
* `HolderKeepsLock`: assuming that locks do not expire, `LockKeptByHolder` holds.  Run
  `session_late_unlock` refutes it with expiry, so expiry is the whole reason of
  that finding.  Without it nothing lapses (`NothingLapses`), so that by `HeldLock` the
  key a worker deletes names its own record.
* `Refinement`: with locking on, locks that do not expire and no `Strays`, `Spec` implies
  `ImplementsStore`.  The assumptions are needed: without a lock everybody writes, with an
  expired one its old holder still does, and a stray may write without one.  Calls may fail and workers may die.
  Each step is matched with one of the store's by a lemma (`StoreStutters`,
  `StoreForgets`, `StoreUpdates` and so on); that a write is the holder's is
  `SessionIsLocked` with `HeldLock`.

`WriteOpsProofs`, for any keys, servers, distribution and retry count:

* `HistoryIsTrue`: `TypeOK /\ WriteInv` is inductive.  The properties speak of items that
  are finished, and what they say of one depends on the calls made before: `Unfinished`
  says that a call that will be repeated left no effect but one whose answer was
  lost, `Running` that calls made and retries left add up to `StoreRetryCount` and that
  only a retryable operation gets past its first call, `Finished` is their outcome.
* `TypeCorrect`, `StatusIsTrue`, `AnsweredOnce`, `RetriesAreUsedUp`: `TypeOK`,
  `StatusTellsEffect`, `AtMostOncePerAnswer` and `RetriesUsedUp` follow from it.
* `RoutedWithoutRetries`: with a `StoreRetryCount` of 0 (the default,
  `php_memcached.c:446`) or below, `ServerKeyRouting` holds; run `write_ops_by_key` refutes
  it with retries, which are the whole reason of that finding.

`ReadsProofs`, for any finite set of keys, any failures and any depth of callbacks:

* `MethodsAreTrue`: `TypeOK /\ ReadsInv` is inductive.  `SuccessIsComplete` speaks of the
  method that has returned; while a method reads, what it found is what it has handed out
  and what is still in the stream (`ReadsItsOwn`), unless it was disturbed or a
  server failed, which its status then says.  That holds of the innermost method only:
  the others wait in a callback and count as disturbed (`Nested`).  `FrameTrue` is what each
  stage of a method knows (before the request nothing was handed out, after the
  loop everything was), `CasTrue` where the CAS flag differs from the script's,
  `OnlyDelayed` the stages in which the stream may hold results that are not for
  `fetch`, and `ExceptionTrue` that an undisturbed method runs without a pending exception.
* `TypeCorrect`, `TokensOnRequest`, `NothingIsLeft`, `SuccessMeansAll`: `TypeOK`,
  `CasOnRequest`, `NoLeftovers` and `SuccessIsComplete` follow from it.

`ProtoServerProofs`:

* `EventsFollowClients`, `TypeCorrect`: `TypeOK /\ EventInv` is inductive; `EventInv` is
  `OneEventPerClient` with the facts that the handled client is open and that
  clients left behind by a failed `event_base_once` are.
* `ConnectDecidesFirst`: `ConnectGate` from `GateInv`, which ties
  `on_connect_invoked` to the callback count, to the accepted clients and to
  the steps of the handler.

`CodecProofs`, for integers of every width:

* `FieldsAreIndependent`: the type, the internal bits and the user's bits of the
  flags come out as they were put in.  Each field is a quotient and a remainder
  (lemma `Division`).
* `TokenSurvives`: a cas token is the same number after its way through PHP, on
  both sides of `LONG_MAX`.
* `EncodeWrites`: what `Encode` leaves is `Written`: the text the serializer makes of the
  value, as it is or compressed, with flags that say which.
* `RoundTrip`: `Decode` of what is `Written` gives the value, as JSON leaves it where the
  writer used JSON, or fails, exactly if the reader's build lacks what was used.  The
  reader's settings do not matter but for the two forms of JSON objects.

`ValuesProofs`, for any clients, builds, values, setOption calls and widths:

* `RecordsAreTrue`: `TypeOK /\ ValuesInv` is inductive.  `ReadsBack` is about all
  readers, now; that it holds after an append or a count needs to know how the record was
  written: there is a serializer for which the record is `Written` of the value it
  stands for (`MeaningTrue`), bytes that are not compressed are not marked so (`PayloadTrue`),
  and a counted record holds the number that was returned (`CountTrue`).  A client's
  settings stay within its build (`SettingsFit`), and tokens are never 0 (`TokensTrue`),
  which the binary protocol would take for any record.
* `ValuesComeBack` (`ReadsBack`) and `CountersAgree` (`CounterAgrees`) are `MeaningTrue` and
  `CountTrue` with `RoundTrip`; `OwnValuesAreReadable` (`ReadsOwnValues`) is `SettingsFit` with
  `EncodeWrites` and `RoundTrip`; `CasFindsItsRecord` (`CasIsExact`) is `TokensTrue` with
  `TokenSurvives`; `UserFlagsAreKept` and `TypeCorrect` are conjuncts.

`HandlesProofs`, for any number of objects, ids and handles and any depth of
callbacks:

* `Ownership`: `Spec => []HandlesInv`.  `NoDangling` alone is not inductive: that
  nobody refers to a freed handle now does not say that freeing one object's handle
  leaves the others theirs.  `HandlesInv` says who owns a handle at each point of its
  life: the handle of a waiting constructor is live, not configured and its object's
  alone (`FramesOwn`); an entry of the list is live, configured and made for its id
  (`ListOwns`); a handle that is not persistent has one object, a persistent one is
  waiting, registered or of an overlapped id (`ObjectsOwn`); an id that is registered
  while a constructor for it waits has overlapped (`OverlapsKnown`); and credentials
  exist only where the flag says so (`SaslInv`).  "Configured" is what tells the
  handles of the list from those of waiting constructors.
* `TypeCorrect`, `NothingDangles` and `CredentialsGo` follow from it in one step.
* `NothingLeaks`, `CallbackOnce` and `PristineTells`: `NoLeak`, `OnNewOnce` and
  `PristineMeansMine` are inductive relative to `HandlesInv`.

Only model-checked: liveness under fairness (`LockReleased`, `LockWaitEnds`,
`Answered`), which TLAPS cannot prove, as it cannot handle ENABLED, and the
counterexamples of the violation runs.  Facts that need induction over data are out of the
prover's reach as well.  No module uses a RECURSIVE operator, and `Reads` says what is
left of a stream by its positions (`Kept`) and not with `SelectSeq`, about which the
prover knows nothing.

## Plan

1. Sessions, writes, server, reads, values, handles: done as described above.
2. Proofs of the invariants of every run and of the refinement: done as described above.
   Left: what two findings leave true (`MultiReportsFailure` of the last item,
   `FetchKeepsResults` of values that can be decoded).
3. The cache callback's store: `Reads` and `WriteOps` composed over shared server
   contents, with the routing of `getByKey`.
4. Session timing: `s_lock_expiration`, `s_session_expiration`, the doubling
   wait with its limits.
5. Statuses of buffered and no-reply operation in `WriteOps`; answers left unread
   by a request that reached only some servers in `Reads`.

## Not modelled

* Of the codec: the digits of a double (`g_fmt.c` and `zend_strtod`), the formats of
  serializers and compressors.  These are functions of bytes; a model of them would be
  a transliteration.  A `JsonSerializable` that throws at the top level, which leaves
  an empty buffer behind.
* Of the options: key prefix, compression level, the hash options that
  `OPT_LIBKETAMA_COMPATIBLE` sets along, `setBucket` and the behaviours that are
  handed to libmemcached unchanged.  `getOption` changes nothing.
* Of the sessions: call sequences of PHP's session module other than those above.
* Of the handles: constructing an object again from inside its own callback.
* memcached pads a counter that got shorter with blanks; only a reader who stored it
  as a string sees them, and `Values` promises nothing there.
* `getByKey`'s cache callback stores by the key and not by the server key, and an
  extended cache callback may hand over an expiration whose type nobody checks.
* A write that timed out and is carried out by the server long after
  (sessions): libmemcached drops the connection, and the delay is the network's.
* Server list queries, statistics, `flushBuffers`, `getAllKeys`, encryption: single
  calls of libmemcached without state of their own.  Argument tables (generated),
  FastLZ (vendored), compatibility wrappers, constants and module start-up.

`PROJECT.json` lists the hazards that no property covers yet, each with the reason.

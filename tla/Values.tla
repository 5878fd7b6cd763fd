------------------------------- MODULE Values -------------------------------
(***************************************************************************)
(* Several PHP processes work on the value of one key: each writes and     *)
(* reads it through Codec with settings of its own (Options), may have     *)
(* been built with other features, and meets what the others left there.   *)
(*                                                                         *)
(* Retries, routing and statuses are in WriteOps and Reads; here the       *)
(* question is what the bytes on the server mean to whom.  A call that is  *)
(* refused, by the extension or by the server, changes nothing kept here.  *)
(***************************************************************************)
EXTENDS Codec, Options, Sequences

CONSTANTS
    Clients,            \* PHP processes with a Memcached object
    Have,               \* Have[c]: features c's extension was built with
    PhpValues,          \* values that are stored
    Pieces,             \* texts that are appended and prepended
    Offsets,            \* offsets of increment and decrement
    Initials,           \* initial values given to them
    IniFiles,           \* php.ini files: memcached.serializer, .compression_type,
                        \* .item_size_limit and .default_binary_protocol
    OptionCalls,        \* setOption calls: <<option, value>>
    FirstCas,           \* the first token the server gives out
    MaxStores,          \* bound: tokens it gives out
    MaxOptionChanges    \* bound: setOption calls

ASSUME ValuesAssumption ==
    /\ Have \in [Clients -> SUBSET Features]
    /\ Offsets \subseteq -LongMax - 1 .. LongMax /\ Initials \subseteq -LongMax - 1 .. LongMax
    /\ FirstCas \in Nat \ {0} /\ MaxStores \in Nat /\ MaxOptionChanges \in Nat
    /\ FirstCas + MaxStores <= UintMax
    /\ \A v \in PhpValues : IsValue(v)
    /\ \A piece \in Pieces : IsText(piece)
    /\ \A ini \in IniFiles : ini.item_size_limit \in Nat /\ ini.binary_protocol \in BOOLEAN
    /\ \A call \in OptionCalls : call[1] \in {"ITEM_SIZE_LIMIT", "USER_FLAGS"} => call[2] \in Int

\* No record, no token, no return value, and a value nobody promises anything about.
NoRecord == [payload |-> Empty, flags |-> 0, cas |-> 0]
NoToken  == [cas |-> <<"null", "">>, of |-> 0]
NoInitial == <<"none", 0>>
Nothing  == <<"nothing", "">>
Unknown  == <<"unknown", "">>

VARIABLES
    record,      \* the server's record of the key: payload, flags and cas
    next_cas,    \* the next token the server gives out
    settings,    \* settings[c]: the settings of c's handle
    token,       \* token[c]: the cas token of c's last extended get, and which record it is of
    counted,     \* what the increment or decrement that made the record returned
    \* history
    changes,     \* setOption calls so far
    meant,       \* the PHP value the record stands for, or Unknown
    user         \* the user flags it was stored with

vars == <<record, next_cas, settings, token, counted, changes, meant, user>>

-----------------------------------------------------------------------------
(* Storing *)

\* The server stores a payload; every change of a record gives it a new token (external).
Put(payload, flags, value, user_flags) ==
    /\ next_cas < FirstCas + MaxStores
    /\ record' = [payload |-> payload, flags |-> flags, cas |-> next_cas]
    /\ next_cas' = next_cas + 1
    /\ meant' = value /\ user' = user_flags
    /\ UNCHANGED <<settings, token, changes>>

\* s_memc_write_zval and php_memc_cas_impl: PAYLOAD_FAILURE and E2BIG come before any call.
Sendable(c, v) == ~Unserializable(v) /\ ~TooBig(Encode(v, settings[c]).payload, settings[c])

\* Client c stores v.
PutValue(c, v) ==
    LET e == Encode(v, settings[c])
        u == settings[c].set_udf_flags
    IN  /\ Sendable(c, v)
        /\ Put(e.payload, e.flags, v, IF u >= 0 THEN u ELSE 0)
        /\ counted' = Nothing

\* set stores always, add and replace as the server finds the key (external).
Store(c, op, v) ==
    /\ CASE op = "add" -> record = NoRecord [] op = "replace" -> record # NoRecord [] OTHER -> TRUE
    /\ PutValue(c, v)

\* The bytes of two payloads, one after the other.
Joined(a, b) ==
    IF a[1] = "chunk" /\ b[1] = "chunk" THEN <<"chunk", a[2] \o b[2]>> ELSE Garbled

\* append and prepend are refused with a warning while c has compression on.  The server
\* joins the bytes and keeps the flags; nothing good comes of it when another client has
\* compressed or serialised the value.
Extend(c, op, piece) ==
    LET v == <<"string", piece>>
        e == Encode(v, settings[c])
        join(a, b) == IF op = "append" THEN Joined(a, b) ELSE Joined(b, a)
    IN  /\ ~settings[c].compression_enabled
        /\ Sendable(c, v)
        /\ record # NoRecord
        /\ Put(join(record.payload, e.payload), record.flags,
               IF meant[1] = "string" /\ record.payload[1] = "chunk"
               THEN <<"string", join(meant[2], piece)>> ELSE Unknown,
               user)
        /\ counted' = Nothing

-----------------------------------------------------------------------------
(* Counting *)

\* What the server can count with: the digits of a number (memcached, external).
IsCounter(payload) == payload[1] = "decimal" /\ payload[2] >= 0

\* It wraps above and stops at zero (memcached, external).
Counted(n, incr, offset) ==
    IF incr THEN (n + offset) % (UintMax + 1) ELSE IF n > offset THEN n - offset ELSE 0

\* Mutant of IncDecResult: zero stands for no value.
IncDecResult_ZeroIsNone(n) ==
    IF n = 0 THEN <<"bool", FALSE>> ELSE <<"long", IF n > LongMax THEN n - (UintMax + 1) ELSE n>>

\* The new value as the method returns it: UINT64_MAX stands for none, and what is above
\* PHP_INT_MAX comes out negative.
IncDecResult(n) ==
    IF n = UintMax THEN <<"bool", FALSE>>
    ELSE <<"long", IF n > LongMax THEN n - (UintMax + 1) ELSE n>>

\* A number above PHP_INT_MAX is no PHP integer any more, and the server pads the digits of
\* one that got shorter with blanks, which only a string shows (external).
CounterMeans(n) == IF meant[1] = "long" /\ n <= LongMax THEN <<"long", n>> ELSE Unknown

\* increment and decrement; with an initial value, which takes the binary protocol, they
\* create the record, with flags that say it is a string.
IncDec(c, incr, offset, initial) ==
    /\ offset >= 0
    /\ initial # NoInitial => settings[c].binary_protocol
    /\ IF record = NoRecord
       THEN LET n == initial[2] % (UintMax + 1) IN
            /\ initial # NoInitial
            /\ Put(<<"decimal", n>>, 0, <<"string", <<"decimal", n>> >>, 0)
            /\ counted' = IncDecResult(n)
       ELSE LET n == Counted(record.payload[2], incr, offset) IN
            /\ IsCounter(record.payload)
            /\ Put(<<"decimal", n>>, record.flags, CounterMeans(n), user)
            /\ counted' = IncDecResult(n)

-----------------------------------------------------------------------------
(* Reading and cas *)

Read(c) == Decode(record.payload, record.flags, settings[c], Have[c])

\* get with GET_EXTENDED of a value that can be decoded: the script has a token.
GetExtended(c) ==
    /\ record # NoRecord /\ Read(c) # Failure
    /\ token' = [token EXCEPT ![c] = [cas |-> s_uint64_to_zval(record.cas), of |-> record.cas]]
    /\ UNCHANGED <<record, next_cas, settings, counted, changes, meant, user>>

\* The token a script passes: the one it got, or that number as a double if it has room there.
Passed(c) ==
    {token[c].cas} \cup (IF token[c].of \in 1 .. Precision THEN {<<"double", token[c].of>>} ELSE {})

\* How the server takes a token: in the binary protocol a request with 0 stores whatever is
\* there or is not (external).
Matches(c, cas) ==
    \/ record # NoRecord /\ record.cas = cas
    \/ cas = 0 /\ settings[c].binary_protocol

\* php_memc_cas_impl.  It is never retried, so an answer that is lost changes nothing here.
Cas(c, v) ==
    /\ \E z \in Passed(c) : Matches(c, s_zval_to_uint64(z))
    /\ PutValue(c, v)

-----------------------------------------------------------------------------
(* Other methods *)

\* delete, flush, or the record expires.
Vanish ==
    /\ record # NoRecord
    /\ record' = NoRecord /\ meant' = Unknown /\ user' = 0 /\ counted' = Nothing
    /\ UNCHANGED <<next_cas, settings, token, changes>>

\* setOption and setOptions
ChangeOption(c, option, value) ==
    /\ changes < MaxOptionChanges
    /\ changes' = changes + 1
    /\ settings' = [settings EXCEPT ![c] = SetOption(@, Have[c], option, value)]
    /\ UNCHANGED <<record, next_cas, token, counted, meant, user>>

-----------------------------------------------------------------------------
\* The settings a handle of c starts with, for a php.ini.
FromIni(c, ini) ==
    InitialSettings(OnUpdateSerializer(Have[c], DefaultSerializer(Have[c]), ini.serializer),
                    OnUpdateCompressionType(Have[c], "fastlz", ini.compression_type),
                    ini.item_size_limit, ini.binary_protocol)

Init ==
    /\ record = NoRecord /\ next_cas = FirstCas
    /\ \E ini \in [Clients -> IniFiles] : settings = [c \in Clients |-> FromIni(c, ini[c])]
    /\ token = [c \in Clients |-> NoToken]
    /\ counted = Nothing
    /\ changes = 0 /\ meant = Unknown /\ user = 0

Next ==
    \/ \E c \in Clients :
        \/ \E op \in {"set", "add", "replace"}, v \in PhpValues : Store(c, op, v)
        \/ \E op \in {"append", "prepend"}, piece \in Pieces : Extend(c, op, piece)
        \/ \E incr \in BOOLEAN, offset \in Offsets,
              initial \in {NoInitial} \cup {<<"long", n>> : n \in Initials} :
              IncDec(c, incr, offset, initial)
        \/ GetExtended(c)
        \/ \E v \in PhpValues : Cas(c, v)
        \/ \E call \in OptionCalls : ChangeOption(c, call[1], call[2])
    \/ Vanish

Spec == Init /\ [][Next]_vars

-----------------------------------------------------------------------------
(* Properties *)

\* The types of the record, of the settings and of the tokens.
TypeOK ==
    /\ record.flags \in Nat /\ record.cas \in 0 .. UintMax
    /\ next_cas \in FirstCas .. FirstCas + MaxStores
    /\ settings \in [Clients -> Settings]
    /\ \A c \in Clients : token[c].of \in 0 .. UintMax
    /\ changes \in 0 .. MaxOptionChanges

\* What a reader is to get for v: the same, but JSON knows no difference between arrays and
\* objects, so the reader's serializer decides, and loses what is not UTF-8 (memcached.ini).
ReadAs(v, form, c) ==
    IF form # "json" \/ v[1] \notin {"array", "object"} THEN v
    ELSE IF JsonBreaks(v) THEN <<"null", "">>
    ELSE <<IF settings[c].serializer = "json_array" THEN "array" ELSE "object", v[2]>>

\* The form of the payload, and what a build needs to read it.
Packed == record.payload[1] = "packed"
Form   == IF Packed THEN record.payload[3][1] ELSE record.payload[1]
Needs  == ({Form} \cap {"igbinary", "json", "msgpack"}) \cup
          (IF Packed THEN {record.payload[2]} \cap {"zstd"} ELSE {})

\* Whatever the settings of the writer were and those of the reader are, the reader gets the
\* value that was stored, appended to or counted, or fails because its build lacks what the
\* writer used; it never gets another value.
ReadsBack ==
    record # NoRecord /\ meant # Unknown =>
        \A c \in Clients :
            Read(c) = IF Needs \subseteq Have[c] THEN ReadAs(meant, Form, c) ELSE Failure

\* The user flags of an extended get are those its record was first stored with, whatever
\* compression, appending or counting did to the other bits.
UserFlagsKept == record # NoRecord => GetUserFlags(record.flags) = user

\* No sequence of setOption calls, refused ones included, leaves a handle that writes what
\* its own build cannot read.
ReadsOwnValues ==
    \A c \in Clients, v \in PhpValues :
        ~Unserializable(v) =>
            LET e == Encode(v, settings[c]) IN
            Decode(e.payload, e.flags, settings[c], Have[c]) # Failure

\* However tokens are passed through PHP, cas is carried out on the very record its token was
\* got with and on no other.  (A value that is no token counts as 0, which the binary
\* protocol takes for any.)
CasIsExact ==
    record # NoRecord =>
        \A c \in Clients : token[c] # NoToken =>
            \A z \in Passed(c) : Matches(c, s_zval_to_uint64(z)) <=> record.cas = token[c].of

\* An increment or decrement that was carried out returns the new value, which is also what
\* everybody reads, as long as it is a PHP integer.
CounterAgrees ==
    counted # Nothing =>
        \/ record.payload[2] > LongMax
        \/ /\ counted = <<"long", record.payload[2]>>
           /\ GetType(record.flags) = VAL_IS_LONG => \A c \in Clients : Read(c) = counted
=============================================================================

-------------------------------- MODULE Codec -------------------------------
(***************************************************************************)
(* How php_memcached.c turns a PHP value into a payload with 32 bits of    *)
(* flags and back, and how it hands cas tokens to PHP and takes them from  *)
(* it.  Operators only; Values puts them to use.                           *)
(*                                                                         *)
(* A PHP value is a pair <<type, content>>.  The bytes of a payload are a  *)
(* text: <<"chunk", s>> (a string made of the pieces s), <<"decimal", n>>, *)
(* <<"float", d>>, or a serialised value <<form, v>>.  A compressed text   *)
(* is <<"packed", algorithm, text>>.  Garbled is any other run of bytes,   *)
(* and whatever a reader makes of it.                                      *)
(***************************************************************************)
EXTENDS Integers

CONSTANTS
    LongMax,            \* LONG_MAX, PHP_INT_MAX
    Precision,          \* integers up to this one are exact as a double
    Threshold,          \* memcached.compression_threshold
    Factor,             \* memcached.compression_factor in percent
    Size(_),            \* length of a text in bytes
    PackedSize(_, _)    \* length of a text after an algorithm compressed it

ASSUME CodecAssumption ==
    /\ LongMax \in Nat \ {0} /\ Precision \in Nat
    /\ Threshold \in Nat /\ Factor \in Nat

\* UINT64_MAX
UintMax == 2 * LongMax + 1

-----------------------------------------------------------------------------
(* Flags: 4 bits of type, 12 internal bits, 16 bits for the user *)

GetType(flags)      == flags % 16
GetFlags(flags)     == (flags \div 16) % 4096
GetUserFlags(flags) == (flags \div 65536) % 65536

HasFlag(flags, bit) == (GetFlags(flags) \div bit) % 2 = 1

\* The fields start at zero and each is set once, so |= is an addition.
SetType(flags, type)   == flags + (type % 16)
SetFlags(flags, bits)  == flags + 16 * (bits % 4096)

\* Mutant of SetUserFlags: the user's bits reach into the internal ones.
SetUserFlags_Overlaps(flags, user) == flags + 4096 * (user % 65536)

SetUserFlags(flags, user) == flags + 65536 * (user % 65536)

VAL_IS_STRING == 0
VAL_IS_LONG   == 1
VAL_IS_DOUBLE == 2
VAL_IS_BOOL   == 3

\* MEMC_VAL_IS_... of the serialised forms.
FormType(form) ==
    CASE form = "php" -> 4 [] form = "igbinary" -> 5 [] form = "json" -> 6 [] form = "msgpack" -> 7

Forms == {"php", "igbinary", "json", "msgpack"}

VAL_COMPRESSED == 1

\* MEMC_VAL_COMPRESSION_...
AlgorithmFlag(algorithm) ==
    CASE algorithm = "zlib" -> 2 [] algorithm = "fastlz" -> 4 [] algorithm = "zstd" -> 8

Algorithms == {"zlib", "fastlz", "zstd"}

-----------------------------------------------------------------------------
(* Encoding *)

Empty   == <<"chunk", << >> >>
Garbled == <<"garbled", "">>

\* The bytes of a string: pieces, the digits of a number, or anything.
IsText(text) ==
    /\ text = <<text[1], text[2]>>
    /\ text[1] \in {"chunk", "decimal", "garbled"}
    /\ text[1] = "decimal" => text[2] \in Int

\* A PHP value with what its type says of its content.
IsValue(v) ==
    /\ v = <<v[1], v[2]>>
    /\ v[1] \in {"string", "long", "double", "bool", "null", "array", "object", "throws"}
    /\ v[1] = "string" => IsText(v[2])
    /\ v[1] = "long" => v[2] \in -LongMax - 1 .. LongMax
    /\ v[1] = "bool" => v[2] \in BOOLEAN
    /\ v[1] = "null" => v[2] = ""

\* The form a serializer writes; JSON_ARRAY differs from JSON only in reading.
FormOf(serializer) == IF serializer = "json_array" THEN "json" ELSE serializer

\* An array with an object in it whose serialisation throws, whatever the serializer.
Unserializable(v) == v[1] = "throws"

\* An array php_json_encode gives up in the middle of: nobody looks at its result.
JsonBreaks(v) == v[1] \in {"array", "object"} /\ v[2] = "not_utf8"

\* s_serialize_value
Serialize(v, serializer) ==
    IF FormOf(serializer) = "json" /\ JsonBreaks(v)
    THEN <<"json", <<"broken", v[2]>> >>
    ELSE <<FormOf(serializer), v>>

\* s_zval_to_payload: the text of a value and its type.
Plain(v, serializer) ==
    CASE v[1] = "string" -> [text |-> v[2], type |-> VAL_IS_STRING]
      [] v[1] = "long"   -> [text |-> <<"decimal", v[2]>>, type |-> VAL_IS_LONG]
      [] v[1] = "double" -> [text |-> <<"float", v[2]>>, type |-> VAL_IS_DOUBLE]
      [] v[1] = "bool"   -> [text |-> IF v[2] THEN <<"decimal", 1>> ELSE Empty, type |-> VAL_IS_BOOL]
      [] OTHER           -> [text |-> Serialize(v, serializer), type |-> FormType(FormOf(serializer))]

\* s_zval_to_payload: numbers, booleans and short texts are never compressed.
ShouldCompress(v, text, settings) ==
    /\ settings.compression_enabled
    /\ v[1] \notin {"long", "double", "bool"}
    /\ Size(text) > 0 /\ Size(text) >= Threshold

\* s_compress_value: and only if it saves enough.
WorthIt(text, algorithm) == Size(text) * 100 > PackedSize(text, algorithm) * Factor

\* Mutant of Encode: the compressed payload is not marked.
Encode_Unmarked(v, settings) ==
    LET plain == Plain(v, settings.serializer)
        algorithm == settings.compression_type
    IN  [payload |-> IF ShouldCompress(v, plain.text, settings) /\ WorthIt(plain.text, algorithm)
                     THEN <<"packed", algorithm, plain.text>> ELSE plain.text,
         flags |-> SetType(0, plain.type)]

\* s_zval_to_payload of a value that can be serialised.
Encode(v, settings) ==
    LET plain == Plain(v, settings.serializer)
        algorithm == settings.compression_type
        typed == SetType(0, plain.type)
        pack == ShouldCompress(v, plain.text, settings) /\ WorthIt(plain.text, algorithm)
        marked == IF pack THEN SetFlags(typed, VAL_COMPRESSED + AlgorithmFlag(algorithm)) ELSE typed
    IN  [payload |-> IF pack THEN <<"packed", algorithm, plain.text>> ELSE plain.text,
         flags |-> IF settings.set_udf_flags >= 0
                   THEN SetUserFlags(marked, settings.set_udf_flags) ELSE marked]

\* Bytes on the wire: a compressed text is preceded by a uint32_t, its length.
PayloadSize(payload) ==
    IF payload[1] = "packed" THEN 4 + PackedSize(payload[3], payload[2]) ELSE Size(payload)

\* s_is_payload_too_big
TooBig(payload, settings) ==
    settings.item_size_limit # 0 /\ PayloadSize(payload) > settings.item_size_limit

-----------------------------------------------------------------------------
(* Decoding: a value, or Failure with a warning *)

Failure == <<"failure", "">>

\* s_decompress_value: the text, or Failure.  zstd may not be compiled in.
Decompress(payload, flags, have) ==
    LET is(algorithm) == HasFlag(flags, AlgorithmFlag(algorithm)) IN
    IF \/ is("zstd") /\ "zstd" \notin have
       \/ ~ \E algorithm \in Algorithms : is(algorithm)
    THEN Failure
    ELSE IF payload[1] # "packed" THEN Garbled
    ELSE IF is(payload[2]) THEN payload[3] ELSE Failure

\* strtol: the number a text starts with, as far as a long goes.
StrToL(text) ==
    IF text[1] # "decimal" THEN 0
    ELSE CASE text[2] > LongMax      -> LongMax
           [] text[2] < -LongMax - 1 -> -LongMax - 1
           [] OTHER                  -> text[2]

\* The first byte is a 1.
StartsWithOne(text) == text[1] = "decimal" /\ (text[2] = 1 \/ text[2] \in 10 .. 19)

\* s_unserialize_value.  php_json_decode makes objects of arrays or the other way round, as
\* the reader's serializer says, and NULL of what it cannot parse.  (An array here has keys;
\* a list stays an array.)
Unserialize(form, text, settings, have) ==
    IF form # "php" /\ form \notin have THEN Failure
    ELSE IF text[1] # form THEN Garbled
    ELSE IF form # "json" THEN text[2]
    ELSE IF text[2][1] \in {"array", "object"}
    THEN <<IF settings.serializer = "json_array" THEN "array" ELSE "object", text[2][2]>>
    ELSE <<"null", "">>

\* s_memcached_result_to_zval for a reader with these settings, built with support for have.
Decode(payload, flags, settings, have) ==
    LET text == IF HasFlag(flags, VAL_COMPRESSED) THEN Decompress(payload, flags, have) ELSE payload
        type == GetType(flags)
    IN  IF text = Failure THEN Failure ELSE
        CASE type = VAL_IS_STRING   -> <<"string", text>>
          [] type = VAL_IS_LONG     -> <<"long", StrToL(text)>>
          [] type = VAL_IS_DOUBLE   -> IF text[1] = "float" THEN <<"double", text[2]>> ELSE Garbled
          [] type = VAL_IS_BOOL     -> <<"bool", StartsWithOne(text)>>
          [] OTHER -> IF \E form \in Forms : FormType(form) = type
                      THEN Unserialize(CHOOSE form \in Forms : FormType(form) = type, text, settings, have)
                      ELSE Failure

-----------------------------------------------------------------------------
(* Cas tokens *)

\* An integer as a double: odd ones beyond the precision are rounded to even.
Rounded(n) == IF n > Precision /\ n % 2 = 1 THEN 4 * ((n + 1) \div 4) ELSE n

\* Mutant of s_uint64_to_zval: tokens are doubles.
s_uint64_to_zval_Double(value) == <<"double", Rounded(value)>>

\* A token as a PHP value: an integer, or a numeric string from LONG_MAX on.
s_uint64_to_zval(value) ==
    IF value >= LongMax THEN <<"string", <<"decimal", value>> >> ELSE <<"long", value>>

\* A PHP value as a token.  What is no number counts as 0.  (A string that is none ends the
\* script with a fatal error.)
s_zval_to_uint64(cas) ==
    CASE cas[1] = "long"   -> cas[2] % (UintMax + 1)
      [] cas[1] = "double" -> IF cas[2] < 0 THEN 0 ELSE cas[2] % (UintMax + 1)
      [] cas[1] = "string" -> cas[2][2]
      [] OTHER             -> 0
=============================================================================

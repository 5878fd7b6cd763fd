------------------------------- MODULE Options ------------------------------
(***************************************************************************)
(* The settings of a handle that decide how values are written and read,   *)
(* and php_memc_set_option, which changes them.                            *)
(***************************************************************************)
EXTENDS Integers

CONSTANT UserFlagsMax    \* MEMC_VAL_USER_FLAGS_MAX

\* The user's bits are 16 at most.
ASSUME OptionsAssumption == UserFlagsMax \in Nat /\ UserFlagsMax < 65536

\* What a build of the extension may support besides the PHP serializer, fastlz and zlib.
Features == {"igbinary", "json", "msgpack", "zstd"}

Settings ==
    [serializer : {"php", "igbinary", "json", "json_array", "msgpack"},
     compression_enabled : BOOLEAN,
     compression_type : {"fastlz", "zlib", "zstd"},
     set_udf_flags : -1 .. UserFlagsMax,
     item_size_limit : Nat,
     binary_protocol : BOOLEAN]        \* a behaviour of libmemcached

\* __construct: the INI settings of the process, and defaults.
InitialSettings(serializer_type, type, limit, binary) ==
    [serializer |-> serializer_type, compression_enabled |-> TRUE, compression_type |-> type,
     set_udf_flags |-> -1, item_size_limit |-> limit, binary_protocol |-> binary]

\* The serializers a build offers.
Available(have) ==
    {"php"} \cup (have \cap {"igbinary", "json", "msgpack"}) \cup
    (IF "json" \in have THEN {"json_array"} ELSE {})

\* The compression types a build offers.
AvailableCompression(have) == {"fastlz", "zlib"} \cup (have \cap {"zstd"})

\* SERIALIZER_DEFAULT
DefaultSerializer(have) ==
    IF "igbinary" \in have THEN "igbinary"
    ELSE IF "msgpack" \in have THEN "msgpack" ELSE "php"

\* memcached.serializer and memcached.compression_type: PHP keeps the current value when the
\* handler refuses the new one.
OnUpdateSerializer(have, current, value) == IF value \in Available(have) THEN value ELSE current

OnUpdateCompressionType(have, current, value) ==
    IF value \in AvailableCompression(have) THEN value ELSE current

-----------------------------------------------------------------------------
(* The settings after setOption; a value that is refused leaves them alone, but for one *)

SetCompression(o, value) == [o EXCEPT !.compression_enabled = value # 0]

SetCompressionType(o, have, value) ==
    IF value \in AvailableCompression(have)
    THEN [o EXCEPT !.compression_type = value] ELSE o

SetItemSizeLimit(o, value) == IF value < 0 THEN o ELSE [o EXCEPT !.item_size_limit = value]

\* Mutant of SetSerializer: a serializer that is not compiled in is taken.
SetSerializer_Unchecked(o, have, value) == [o EXCEPT !.serializer = value]

\* A serializer that is not there is refused, and the PHP serializer is chosen instead.
SetSerializer(o, have, value) ==
    [o EXCEPT !.serializer = IF value \in Available(have) THEN value ELSE "php"]

\* Mutant of SetUserFlagsOption: the upper limit is not checked.
SetUserFlagsOption_Unchecked(o, value) == [o EXCEPT !.set_udf_flags = IF value < 0 THEN -1 ELSE value]

\* A negative value switches user flags off.
SetUserFlagsOption(o, value) ==
    CASE value < 0            -> [o EXCEPT !.set_udf_flags = -1]
      [] value > UserFlagsMax -> o
      [] OTHER                -> [o EXCEPT !.set_udf_flags = value]

\* A behaviour of libmemcached.
SetBinaryProtocol(o, value) == [o EXCEPT !.binary_protocol = value # 0]

\* php_memc_set_option.  The compression level, the key prefix, the retry count and the other
\* behaviours are not kept here; an option that is neither the extension's nor libmemcached's
\* is refused.
SetOption(o, have, option, value) ==
    CASE option = "COMPRESSION"      -> SetCompression(o, value)
      [] option = "COMPRESSION_TYPE" -> SetCompressionType(o, have, value)
      [] option = "ITEM_SIZE_LIMIT"  -> SetItemSizeLimit(o, value)
      [] option = "SERIALIZER"       -> SetSerializer(o, have, value)
      [] option = "USER_FLAGS"       -> SetUserFlagsOption(o, value)
      [] option = "BINARY_PROTOCOL"  -> SetBinaryProtocol(o, value)
      [] OTHER                       -> o
=============================================================================

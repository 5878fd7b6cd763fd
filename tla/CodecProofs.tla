----------------------------- MODULE CodecProofs ----------------------------
(***************************************************************************)
(* What Codec's operators do for every width of the integers and every     *)
(* value: the fields of the flags do not disturb each other, a cas token   *)
(* survives its way through PHP, and a value survives its way through      *)
(* serialising, compressing and the flags that say what was done.          *)
(***************************************************************************)
EXTENDS Codec, TLAPS

\* Quotient and remainder of a number that is given by them.
LEMMA Division ==
    ASSUME NEW d \in Nat, d > 0, NEW q \in Nat, NEW r \in Nat, r < d
    PROVE  /\ (d * q + r) \div d = q
           /\ (d * q + r) % d = r
           /\ r % d = r
OBVIOUS

\* The type, the internal bits and the user's bits of flags that s_zval_to_payload put
\* together are those it put there.
THEOREM FieldsAreIndependent ==
    ASSUME NEW type \in Nat, type < 16, NEW bits \in Nat, bits < 4096, NEW user \in Nat, user < 65536,
           NEW flags, flags = SetUserFlags(SetFlags(SetType(0, type), bits), user)
    PROVE  /\ GetType(flags) = type
           /\ GetFlags(flags) = bits
           /\ GetUserFlags(flags) = user
<1>1. flags = type + 16 * bits + 65536 * user
  <2>1. type % 16 = type BY Division
  <2>2. bits % 4096 = bits BY Division
  <2>3. user % 65536 = user BY Division
  <2> QED BY <2>1, <2>2, <2>3 DEF SetUserFlags, SetFlags, SetType
<1>2. GetType(flags) = type
  <2>1. flags = 16 * (bits + 4096 * user) + type BY <1>1
  <2> QED BY <2>1, Division DEF GetType
<1>3. GetFlags(flags) = bits
  <2>1. flags \div 16 = 4096 * user + bits
    <3>1. flags = 16 * (4096 * user + bits) + type BY <1>1
    <3> QED BY <3>1, Division
  <2>2. (4096 * user + bits) % 4096 = bits BY Division
  <2> QED BY <2>1, <2>2 DEF GetFlags
<1>4. GetUserFlags(flags) = user
  <2>1. flags = 65536 * user + (type + 16 * bits) BY <1>1
  <2>2. type + 16 * bits \in Nat /\ type + 16 * bits < 65536 OBVIOUS
  <2>3. flags \div 65536 = user BY <2>1, <2>2, Division
  <2>4. user % 65536 = user BY Division
  <2> QED BY <2>3, <2>4 DEF GetUserFlags
<1> QED BY <1>2, <1>3, <1>4

\* A token an extended get returned is the same number again when cas takes it, whether it
\* went through PHP as an integer or, from LONG_MAX on, as a string.
THEOREM TokenSurvives ==
    ASSUME NEW cas \in 0 .. UintMax
    PROVE  s_zval_to_uint64(s_uint64_to_zval(cas)) = cas
<1> USE CodecAssumption
<1>1. CASE cas >= LongMax
  <2>1. s_uint64_to_zval(cas) = <<"string", <<"decimal", cas>> >> BY <1>1 DEF s_uint64_to_zval
  <2> QED BY <2>1 DEF s_zval_to_uint64
<1>2. CASE ~(cas >= LongMax)
  <2>1. s_uint64_to_zval(cas) = <<"long", cas>> BY <1>2 DEF s_uint64_to_zval
  <2>2. cas % (UintMax + 1) = cas BY DEF UintMax
  <2> QED BY <2>1, <2>2 DEF s_zval_to_uint64
<1> QED BY <1>1, <1>2

-----------------------------------------------------------------------------
(* Writing a value and reading it back *)

Serializers == {"php", "igbinary", "json", "json_array", "msgpack"}

\* The payload and the flags are those of v, written through a serializer: the type field
\* tells the type of the text, and the internal bits whether and how it was compressed.
Written(payload, flags, v, serializer) ==
    /\ GetType(flags) = Plain(v, serializer).type
    /\ \/ payload = Plain(v, serializer).text /\ GetFlags(flags) = 0
       \/ \E algorithm \in Algorithms :
             /\ payload = <<"packed", algorithm, Plain(v, serializer).text>>
             /\ GetFlags(flags) = VAL_COMPRESSED + AlgorithmFlag(algorithm)
             /\ v[1] \notin {"long", "double", "bool"}

\* The type of a text fits into the 4 bits of the type field.
LEMMA PlainType ==
    ASSUME NEW v, NEW serializer \in Serializers
    PROVE  Plain(v, serializer).type \in 0 .. 7
BY DEF Plain, Serializers, FormOf, FormType, VAL_IS_STRING, VAL_IS_LONG, VAL_IS_DOUBLE,
       VAL_IS_BOOL

\* Encode writes v and the user's flags, whether or not the text was worth compressing.
THEOREM EncodeWrites ==
    ASSUME NEW v, NEW settings,
           settings.serializer \in Serializers, settings.compression_type \in Algorithms,
           settings.set_udf_flags \in Int, settings.set_udf_flags < 65536
    PROVE  /\ Written(Encode(v, settings).payload, Encode(v, settings).flags, v,
                      settings.serializer)
           /\ GetUserFlags(Encode(v, settings).flags)
                 = IF settings.set_udf_flags >= 0 THEN settings.set_udf_flags ELSE 0
           /\ Encode(v, settings).flags \in Nat
           /\ Encode(v, settings).payload
                 \in {Plain(v, settings.serializer).text,
                      <<"packed", settings.compression_type, Plain(v, settings.serializer).text>>}
<1> DEFINE plain == Plain(v, settings.serializer)
           algorithm == settings.compression_type
           pack == ShouldCompress(v, plain.text, settings) /\ WorthIt(plain.text, algorithm)
           bits == IF pack THEN VAL_COMPRESSED + AlgorithmFlag(algorithm) ELSE 0
           user == IF settings.set_udf_flags >= 0 THEN settings.set_udf_flags ELSE 0
<1>1. plain.type \in 0 .. 7
  BY PlainType
<1>2. bits \in {0, 3, 5, 9}
  BY DEF VAL_COMPRESSED, AlgorithmFlag, Algorithms
<1>3. user \in Nat /\ user < 65536
  OBVIOUS
<1>4. Encode(v, settings).flags = SetUserFlags(SetFlags(SetType(0, plain.type), bits), user)
  <2> HIDE DEF plain, algorithm
  <2>1. SetType(0, plain.type) \in Nat
    BY <1>1 DEF SetType
  <2>2. SetFlags(SetType(0, plain.type), 0) = SetType(0, plain.type)
    BY <2>1 DEF SetFlags
  <2>3. PICK marked \in Nat : marked = SetFlags(SetType(0, plain.type), bits)
    <3>1. bits % 4096 = bits
      BY <1>2, Division
    <3> QED BY <1>2, <2>1, <3>1 DEF SetFlags
  <2>4. SetUserFlags(marked, 0) = marked
    BY DEF SetUserFlags
  <2>5. Encode(v, settings).flags
           = IF settings.set_udf_flags >= 0 THEN SetUserFlags(marked, settings.set_udf_flags)
             ELSE marked
    BY <2>2, <2>3 DEF Encode, plain, algorithm
  <2> QED BY <2>3, <2>4, <2>5
<1>5. /\ GetType(Encode(v, settings).flags) = plain.type
      /\ GetFlags(Encode(v, settings).flags) = bits
      /\ GetUserFlags(Encode(v, settings).flags) = user
  <2> HIDE DEF plain, bits, user
  <2> QED BY <1>1, <1>2, <1>3, <1>4, FieldsAreIndependent
<1>6. Encode(v, settings).payload = IF pack THEN <<"packed", algorithm, plain.text>> ELSE plain.text
  BY DEF Encode
<1>7. pack => v[1] \notin {"long", "double", "bool"}
  BY DEF ShouldCompress
<1>8. Written(Encode(v, settings).payload, Encode(v, settings).flags, v, settings.serializer)
  BY <1>5, <1>6, <1>7 DEF Written
<1>9. Encode(v, settings).flags \in Nat
  <2> HIDE DEF plain, bits, user
  <2>1. plain.type % 16 \in Nat /\ bits % 4096 \in Nat /\ user % 65536 \in Nat
    BY <1>1, <1>2, <1>3
  <2> QED BY <1>4, <2>1 DEF SetType, SetFlags, SetUserFlags
<1> QED BY <1>5, <1>6, <1>8, <1>9

\* The internal bits tell whether a payload was compressed, and by which algorithm.
LEMMA FlagsTell ==
    ASSUME NEW flags, NEW algorithm \in Algorithms,
           GetFlags(flags) = VAL_COMPRESSED + AlgorithmFlag(algorithm)
    PROVE  /\ HasFlag(flags, VAL_COMPRESSED)
           /\ \A a \in Algorithms : HasFlag(flags, AlgorithmFlag(a)) <=> a = algorithm
<1> USE DEF VAL_COMPRESSED, AlgorithmFlag, HasFlag
<1>1. CASE algorithm = "zlib"
  BY <1>1 DEF Algorithms
<1>2. CASE algorithm = "fastlz"
  BY <1>2 DEF Algorithms
<1>3. CASE algorithm = "zstd"
  BY <1>3 DEF Algorithms
<1> QED BY <1>1, <1>2, <1>3 DEF Algorithms

\* A compressed text is unpacked again unless that takes zstd and the build lacks it.
LEMMA Unpacked ==
    ASSUME NEW flags, NEW algorithm \in Algorithms, NEW text, NEW have,
           GetFlags(flags) = VAL_COMPRESSED + AlgorithmFlag(algorithm)
    PROVE  Decompress(<<"packed", algorithm, text>>, flags, have)
              = IF algorithm = "zstd" /\ "zstd" \notin have THEN Failure ELSE text
<1>1. \A a \in Algorithms : HasFlag(flags, AlgorithmFlag(a)) <=> a = algorithm
  BY FlagsTell
<1>2. HasFlag(flags, AlgorithmFlag("zstd")) <=> algorithm = "zstd"
  BY <1>1 DEF Algorithms
<1>3. HasFlag(flags, AlgorithmFlag(algorithm))
  BY <1>1
<1> QED BY <1>2, <1>3 DEF Decompress

\* What a reader makes of a text of v: v itself, but arrays and objects that went through
\* JSON come back as the reader's serializer has it, or not at all.
Understood(v, form, serializer) ==
    IF form # "json" \/ v[1] \notin {"array", "object"} THEN v
    ELSE IF JsonBreaks(v) THEN <<"null", "">>
    ELSE <<IF serializer = "json_array" THEN "array" ELSE "object", v[2]>>

\* The form a value is written in, and what it takes to read it.
FormWritten(v, serializer) ==
    IF v[1] \in {"null", "array", "object"} THEN FormOf(serializer) ELSE "plain"

\* The serialised forms are told apart by their types.
LEMMA FormOfType ==
    ASSUME NEW form \in Forms, NEW type, FormType(form) = type
    PROVE  /\ \E f \in Forms : FormType(f) = type
           /\ (CHOOSE f \in Forms : FormType(f) = type) = form
BY DEF Forms, FormType

\* A text that was written is understood, if the build has what its form takes.
LEMMA TextUnderstood ==
    ASSUME NEW v, IsValue(v), ~Unserializable(v),
           NEW serializer \in Serializers, NEW flags, NEW settings, NEW have, NEW text,
           text = Plain(v, serializer).text, GetType(flags) = Plain(v, serializer).type,
           ~HasFlag(flags, VAL_COMPRESSED)
    PROVE  /\ text # Failure
           /\ Decode(text, flags, settings, have)
                 = IF FormWritten(v, serializer) \in {"igbinary", "json", "msgpack"} \ have
                   THEN Failure
                   ELSE Understood(v, FormWritten(v, serializer), settings.serializer)
<1> DEFINE form == FormWritten(v, serializer)
           Wanted == IF form \in {"igbinary", "json", "msgpack"} \ have THEN Failure
                     ELSE Understood(v, form, settings.serializer)
<1> USE DEF VAL_IS_STRING, VAL_IS_LONG, VAL_IS_DOUBLE, VAL_IS_BOOL
<1>1. CASE v[1] = "string"
  <2>1. text = v[2] /\ GetType(flags) = 0
    BY <1>1 DEF Plain
  <2>2. text # Failure
    <3>1. text[1] \in {"chunk", "decimal", "garbled"}
      BY <1>1, <2>1 DEF IsValue, IsText
    <3>2. Failure[1] = "failure"
      BY DEF Failure
    <3> QED BY <3>1, <3>2
  <2>3. Decode(text, flags, settings, have) = <<"string", text>>
    BY <2>1, <2>2 DEF Decode
  <2>4. Wanted = v
    BY <1>1 DEF FormWritten, Understood
  <2> QED BY <1>1, <2>1, <2>2, <2>3, <2>4 DEF IsValue
<1>2. CASE v[1] = "long"
  <2>1. text = <<"decimal", v[2]>> /\ text # Failure /\ GetType(flags) = 1
    BY <1>2 DEF Plain, Failure
  <2>2. Decode(text, flags, settings, have) = <<"long", StrToL(text)>>
    BY <2>1 DEF Decode
  <2>3. StrToL(text) = v[2]
    BY <1>2, <2>1, CodecAssumption DEF StrToL, IsValue, CodecAssumption
  <2>4. Wanted = v
    BY <1>2 DEF FormWritten, Understood
  <2> QED BY <1>2, <2>1, <2>2, <2>3, <2>4 DEF IsValue
<1>3. CASE v[1] = "double"
  <2>1. text = <<"float", v[2]>> /\ text # Failure /\ GetType(flags) = 2
    BY <1>3 DEF Plain, Failure
  <2>2. Decode(text, flags, settings, have) = <<"double", v[2]>>
    BY <2>1 DEF Decode
  <2>3. Wanted = v
    BY <1>3 DEF FormWritten, Understood
  <2> QED BY <1>3, <2>1, <2>2, <2>3 DEF IsValue
<1>4. CASE v[1] = "bool"
  <2>1. /\ text = (IF v[2] THEN <<"decimal", 1>> ELSE Empty)
        /\ text # Failure /\ GetType(flags) = 3
    BY <1>4 DEF Plain, Failure, Empty
  <2>2. Decode(text, flags, settings, have) = <<"bool", StartsWithOne(text)>>
    BY <2>1 DEF Decode
  <2>3. StartsWithOne(text) <=> v[2]
    BY <2>1 DEF StartsWithOne, Empty
  <2>4. StartsWithOne(text) = v[2]
    BY <1>4, <2>3, Zenon DEF IsValue, StartsWithOne
  <2>5. Wanted = v
    BY <1>4 DEF FormWritten, Understood
  <2>6. v = <<"bool", v[2]>>
    BY <1>4 DEF IsValue
  <2>7. Decode(text, flags, settings, have) = v
    BY <2>2, <2>4, <2>6, Zenon
  <2> QED BY <2>1, <2>5, <2>7
<1>5. CASE v[1] \in {"null", "array", "object"}
  <2>1. PICK f \in Forms : f = FormOf(serializer)
    BY DEF FormOf, Serializers, Forms
  <2>2. form = f
    BY <1>5, <2>1 DEF FormWritten
  <2>3. /\ text = IF f = "json" /\ JsonBreaks(v) THEN <<"json", <<"broken", v[2]>> >> ELSE <<f, v>>
        /\ GetType(flags) = FormType(f)
    BY <1>5, <2>1 DEF Plain, Serialize
  <2>4. text # Failure /\ text[1] = f
    <3>1. text[1] = f
      BY <2>3
    <3>2. Failure[1] = "failure"
      BY DEF Failure
    <3> QED BY <3>1, <3>2 DEF Forms
  <2>5. Decode(text, flags, settings, have) = Unserialize(f, text, settings, have)
    <3>1. FormType(f) \in 4 .. 7
      BY DEF FormType, Forms
    <3>2. GetType(flags) \notin 0 .. 3
      BY <2>3, <3>1
    <3>3. /\ \E g \in Forms : FormType(g) = GetType(flags)
          /\ (CHOOSE g \in Forms : FormType(g) = GetType(flags)) = f
      BY <2>3, FormOfType
    <3>4. Decode(text, flags, settings, have)
            = Unserialize(CHOOSE g \in Forms : FormType(g) = GetType(flags), text, settings, have)
      <4> HIDE DEF form, Wanted
      <4> QED BY <2>4, <3>2, <3>3 DEF Decode
    <3> QED BY <3>3, <3>4
  <2>6. CASE f # "php" /\ f \notin have
    <3>1. Wanted = Failure
      BY <2>2, <2>6 DEF Forms
    <3>2. Unserialize(f, text, settings, have) = Failure
      BY <2>6 DEF Unserialize
    <3> QED BY <2>4, <2>5, <3>1, <3>2
  <2>7. CASE f = "php" \/ f \in have
    <3>1. Wanted = Understood(v, f, settings.serializer)
      BY <2>2, <2>7
    <3>2. CASE f # "json"
      <4>1. text = <<f, v>>
        BY <2>3, <3>2
      <4>2. Unserialize(f, text, settings, have) = v
        BY <2>4, <2>7, <3>2, <4>1 DEF Unserialize
      <4>3. Wanted = v
        BY <3>1, <3>2 DEF Understood
      <4> QED BY <2>4, <2>5, <4>2, <4>3
    <3>3. CASE f = "json" /\ JsonBreaks(v)
      <4>1. text[2][1] = "broken"
        BY <2>3, <3>3
      <4>2. Unserialize(f, text, settings, have) = <<"null", "">>
        BY <2>4, <2>7, <3>3, <4>1 DEF Unserialize
      <4> QED BY <2>4, <2>5, <3>1, <3>3, <4>2 DEF Understood, JsonBreaks
    <3>4. CASE f = "json" /\ ~JsonBreaks(v)
      <4>1. text[2] = v
        BY <2>3, <3>4
      <4>2. Unserialize(f, text, settings, have)
              = IF v[1] \in {"array", "object"}
                THEN <<IF settings.serializer = "json_array" THEN "array" ELSE "object", v[2]>>
                ELSE <<"null", "">>
        BY <2>4, <2>7, <3>4, <4>1 DEF Unserialize
      <4>3. v[1] = "null" => v = <<"null", "">>
        BY DEF IsValue
      <4> QED BY <1>5, <2>4, <2>5, <3>1, <3>4, <4>2, <4>3 DEF Understood
    <3> QED BY <3>2, <3>3, <3>4
  <2> QED BY <2>6, <2>7
<1> QED BY <1>1, <1>2, <1>3, <1>4, <1>5 DEF IsValue, Unserializable

\* What it takes to read a payload of v: the build's support for its form, and for zstd.
Wants(payload, v, serializer) ==
    ({FormWritten(v, serializer)} \cap {"igbinary", "json", "msgpack"})
        \cup (IF payload[1] = "packed" THEN {payload[2]} \cap {"zstd"} ELSE {})

\* The text of a value is not taken for a compressed one, nor for a failure to unpack one.
LEMMA TextIsPlain ==
    ASSUME NEW v, IsValue(v), ~Unserializable(v), NEW serializer \in Serializers
    PROVE  Plain(v, serializer).text[1] \notin {"packed", "failure"}
<1>1. CASE v[1] \in {"string", "long", "double", "bool"}
  BY <1>1 DEF Plain, IsValue, IsText, Empty
<1>2. CASE v[1] \in {"null", "array", "object"}
  BY <1>2 DEF Plain, Serialize, FormOf, Serializers
<1> QED BY <1>1, <1>2 DEF IsValue, Unserializable

\* A value comes back: whatever the settings of the writer and of the reader, a reader gets
\* the value that was written, arrays and objects as JSON leaves them, or it fails, and it
\* fails exactly when its build lacks the serializer or the compression that was used.
THEOREM RoundTrip ==
    ASSUME NEW v, IsValue(v), ~Unserializable(v), NEW serializer \in Serializers,
           NEW payload, NEW flags, Written(payload, flags, v, serializer),
           NEW settings, NEW have
    PROVE  Decode(payload, flags, settings, have)
              = IF Wants(payload, v, serializer) \subseteq have
                THEN Understood(v, FormWritten(v, serializer), settings.serializer)
                ELSE Failure
<1> DEFINE text == Plain(v, serializer).text
           form == FormWritten(v, serializer)
<1>1. text[1] \notin {"packed", "failure"}
  BY TextIsPlain
<1>2. CASE payload = text /\ GetFlags(flags) = 0
  <2>1. ~HasFlag(flags, VAL_COMPRESSED)
    BY <1>2 DEF HasFlag, VAL_COMPRESSED
  <2>2. Wants(payload, v, serializer) = {form} \cap {"igbinary", "json", "msgpack"}
    BY <1>1, <1>2 DEF Wants
  <2>3. Decode(payload, flags, settings, have)
          = IF form \in {"igbinary", "json", "msgpack"} \ have
            THEN Failure ELSE Understood(v, form, settings.serializer)
    BY <1>2, <2>1, TextUnderstood, CodecAssumption DEF Written
  <2> QED BY <2>2, <2>3
<1>3. ASSUME NEW algorithm \in Algorithms, payload = <<"packed", algorithm, text>>,
             GetFlags(flags) = VAL_COMPRESSED + AlgorithmFlag(algorithm)
      PROVE  Decode(payload, flags, settings, have)
                = IF Wants(payload, v, serializer) \subseteq have
                  THEN Understood(v, form, settings.serializer)
                  ELSE Failure
  <2>1. HasFlag(flags, VAL_COMPRESSED)
    BY <1>3, FlagsTell
  <2>2. Decompress(payload, flags, have)
          = IF algorithm = "zstd" /\ "zstd" \notin have THEN Failure ELSE text
    BY <1>3, Unpacked
  <2>3. Wants(payload, v, serializer)
          = ({form} \cap {"igbinary", "json", "msgpack"}) \cup ({algorithm} \cap {"zstd"})
    BY <1>3 DEF Wants
  <2>4. CASE algorithm = "zstd" /\ "zstd" \notin have
    <3>1. Decode(payload, flags, settings, have) = Failure
      BY <2>1, <2>2, <2>4 DEF Decode
    <3> QED BY <2>3, <2>4, <3>1
  <2>5. CASE ~(algorithm = "zstd" /\ "zstd" \notin have)
    \* The text is decoded as it would be if it had not been compressed.
    <3>1. PICK bare \in Nat : bare = Plain(v, serializer).type
      BY PlainType
    <3>2. GetType(bare) = bare /\ ~HasFlag(bare, VAL_COMPRESSED)
      <4>1. bare \in 0 .. 7
        BY <3>1, PlainType
      <4>2. bare % 16 = bare /\ bare \div 16 = 0
        BY <4>1
      <4> QED BY <4>2 DEF GetType, HasFlag, GetFlags, VAL_COMPRESSED
    <3>3. Decode(payload, flags, settings, have) = Decode(text, bare, settings, have)
      <4>1. GetType(flags) = bare
        BY <3>1 DEF Written
      <4> QED BY <2>1, <2>2, <2>5, <3>2, <4>1 DEF Decode
    <3>4. Decode(text, bare, settings, have)
            = IF form \in {"igbinary", "json", "msgpack"} \ have
              THEN Failure ELSE Understood(v, form, settings.serializer)
      BY <3>1, <3>2, TextUnderstood, CodecAssumption
    <3> QED BY <2>3, <2>5, <3>3, <3>4
  <2> QED BY <2>4, <2>5
<1> QED BY <1>2, <1>3 DEF Written
=============================================================================

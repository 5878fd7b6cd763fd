---------------------------- MODULE ValuesProofs ----------------------------
(***************************************************************************)
(* Proofs about the values of one key: for any processes, builds, values,  *)
(* setOption calls and widths of the integers.  What one process writes    *)
(* and another reads is RoundTrip of CodecProofs; here it is carried       *)
(* through stores, appends, counters, cas and changes of the settings.     *)
(***************************************************************************)
EXTENDS Values, CodecProofs

-----------------------------------------------------------------------------
(* The inductive invariant *)

\* A handle has only settings its own build supports.
SettingsFit ==
    \A c \in Clients :
        /\ settings[c].serializer \in Available(Have[c])
        /\ settings[c].compression_type \in AvailableCompression(Have[c])

\* The tokens the server gave out and those the scripts have are not 0, and the latter are
\* what s_uint64_to_zval makes of the former.
TokensTrue ==
    /\ record # NoRecord => record.cas >= 1
    /\ \A c \in Clients :
          \/ token[c] = NoToken
          \/ token[c].of >= 1 /\ token[c].cas = s_uint64_to_zval(token[c].of)

\* A payload that is neither compressed nor garbled is not marked as compressed, and a
\* decimal one holds a number.
PayloadTrue ==
    record # NoRecord =>
        /\ record.payload[1] \notin {"packed", "garbled"} => GetFlags(record.flags) = 0
        /\ record.payload[1] = "decimal" => record.payload[2] \in Int

\* The record is what some serializer writes of the value it stands for.
MeaningTrue ==
    record # NoRecord /\ meant # Unknown =>
        /\ IsValue(meant) /\ ~Unserializable(meant)
        /\ \E serializer \in Serializers :
              Written(record.payload, record.flags, meant, serializer)

\* What a counting method returned is the number it left in the record.
CountTrue ==
    counted # Nothing =>
        /\ record # NoRecord
        /\ record.payload[1] = "decimal" /\ record.payload[2] \in Nat
        /\ record.payload[2] > LongMax \/ counted = <<"long", record.payload[2]>>

ValuesInv == SettingsFit /\ TokensTrue /\ PayloadTrue /\ MeaningTrue /\ CountTrue /\ UserFlagsKept

-----------------------------------------------------------------------------
(* Settings *)

\* The serializers and compression types a build offers are among those there are.
LEMMA OfferedAreKnown ==
    ASSUME NEW have \in SUBSET Features
    PROVE  /\ Available(have) \subseteq Serializers
           /\ AvailableCompression(have) \subseteq {"fastlz", "zlib", "zstd"}
BY DEF Available, AvailableCompression, Serializers, Features

\* What php.ini says, or what the build offers instead, is what the build supports.
LEMMA IniFits ==
    ASSUME NEW c \in Clients, NEW ini \in IniFiles
    PROVE  /\ FromIni(c, ini) \in Settings
           /\ FromIni(c, ini).serializer \in Available(Have[c])
           /\ FromIni(c, ini).compression_type \in AvailableCompression(Have[c])
<1>1. PICK have \in SUBSET Features : have = Have[c]
  BY ValuesAssumption DEF ValuesAssumption
<1>2. DefaultSerializer(have) \in Available(have)
  BY DEF DefaultSerializer, Available
<1>3. PICK s \in Available(have) :
         s = OnUpdateSerializer(have, DefaultSerializer(have), ini.serializer)
  BY <1>2 DEF OnUpdateSerializer
<1>4. PICK t \in AvailableCompression(have) :
         t = OnUpdateCompressionType(have, "fastlz", ini.compression_type)
  BY DEF OnUpdateCompressionType, AvailableCompression
<1>5. PICK limit \in Nat, binary \in BOOLEAN :
         limit = ini.item_size_limit /\ binary = ini.binary_protocol
  BY ValuesAssumption, Zenon DEF ValuesAssumption
<1>6. FromIni(c, ini) = InitialSettings(s, t, limit, binary)
  BY <1>1, <1>3, <1>4, <1>5, Zenon DEF FromIni
<1>7. InitialSettings(s, t, limit, binary) \in Settings
  BY <1>3, <1>4, OfferedAreKnown, OptionsAssumption
     DEF OptionsAssumption, InitialSettings, Settings, Serializers
<1> QED BY <1>1, <1>6, <1>7 DEF InitialSettings

\* setOption leaves settings the build supports, whether it takes the value or refuses it.
LEMMA OptionFits ==
    ASSUME NEW have \in SUBSET Features, NEW o \in Settings,
           o.serializer \in Available(have), o.compression_type \in AvailableCompression(have),
           NEW option, NEW value, option \in {"ITEM_SIZE_LIMIT", "USER_FLAGS"} => value \in Int
    PROVE  /\ SetOption(o, have, option, value) \in Settings
           /\ SetOption(o, have, option, value).serializer \in Available(have)
           /\ SetOption(o, have, option, value).compression_type \in AvailableCompression(have)
<1> USE OfferedAreKnown DEF Settings, Serializers
<1>1. CASE option = "COMPRESSION"
  BY <1>1 DEF SetOption, SetCompression
<1>2. CASE option = "COMPRESSION_TYPE"
  BY <1>2 DEF SetOption, SetCompressionType
<1>3. CASE option = "ITEM_SIZE_LIMIT"
  BY <1>3 DEF SetOption, SetItemSizeLimit
<1>4. CASE option = "SERIALIZER"
  <2>1. PICK s \in Available(have) : s = IF value \in Available(have) THEN value ELSE "php"
    BY DEF Available
  <2>2. SetOption(o, have, option, value) = [o EXCEPT !.serializer = s]
    BY <1>4, <2>1 DEF SetOption, SetSerializer
  <2> QED BY <2>1, <2>2
<1>5. CASE option = "USER_FLAGS"
  BY <1>5, OptionsAssumption DEF OptionsAssumption, SetOption, SetUserFlagsOption
<1>6. CASE option = "BINARY_PROTOCOL"
  BY <1>6 DEF SetOption, SetBinaryProtocol
<1>7. CASE option \notin {"COMPRESSION", "COMPRESSION_TYPE", "ITEM_SIZE_LIMIT", "SERIALIZER",
                          "USER_FLAGS", "BINARY_PROTOCOL"}
  BY <1>7 DEF SetOption
<1> QED BY <1>1, <1>2, <1>3, <1>4, <1>5, <1>6, <1>7

\* The settings of a client are fit for Encode.
LEMMA FitToEncode ==
    ASSUME TypeOK, NEW c \in Clients
    PROVE  /\ settings[c].serializer \in Serializers
           /\ settings[c].compression_type \in Algorithms
           /\ settings[c].set_udf_flags \in Int /\ settings[c].set_udf_flags < 65536
BY OptionsAssumption DEF OptionsAssumption, TypeOK, Settings, Serializers, Algorithms

-----------------------------------------------------------------------------
(* Records *)

\* A record that is put into the place of the old one keeps the invariant, if its flags
\* and its payload agree with what it is said to mean.
LEMMA PutKeeps ==
    ASSUME TypeOK, ValuesInv, NEW payload, NEW flags \in Nat, NEW value, NEW u,
           Put(payload, flags, value, u),
           GetUserFlags(flags) = u,
           payload[1] \notin {"packed", "garbled"} => GetFlags(flags) = 0,
           payload[1] = "decimal" => payload[2] \in Int,
           \/ value = Unknown
           \/ /\ IsValue(value) /\ ~Unserializable(value)
              /\ \E serializer \in Serializers : Written(payload, flags, value, serializer),
           \/ counted' = Nothing
           \/ /\ payload[1] = "decimal" /\ payload[2] \in Nat
              /\ payload[2] > LongMax \/ counted' = <<"long", payload[2]>>
    PROVE  TypeOK' /\ ValuesInv'
<1>1. /\ record'.payload = payload /\ record'.flags = flags /\ record'.cas = next_cas
      /\ next_cas' = next_cas + 1 /\ next_cas < FirstCas + MaxStores
      /\ meant' = value /\ user' = u
      /\ UNCHANGED <<settings, token, changes>>
  BY DEF Put
<1>2. next_cas \in 1 .. UintMax - 1
  BY <1>1, ValuesAssumption, CodecAssumption
     DEF TypeOK, ValuesAssumption, CodecAssumption, UintMax
<1>3. record' # NoRecord
  BY <1>1, <1>2 DEF NoRecord
<1>4. TypeOK'
  <2>1. next_cas' \in FirstCas .. FirstCas + MaxStores
    BY <1>1, ValuesAssumption DEF TypeOK, ValuesAssumption
  <2>2. UintMax \in Int
    BY CodecAssumption DEF CodecAssumption, UintMax
  <2> QED BY <1>1, <1>2, <2>1, <2>2 DEF TypeOK
<1>5. SettingsFit' /\ TokensTrue'
  BY <1>1, <1>2 DEF ValuesInv, SettingsFit, TokensTrue
<1>6. PayloadTrue' /\ UserFlagsKept'
  BY <1>1 DEF PayloadTrue, UserFlagsKept
<1>7. MeaningTrue'
  BY <1>1 DEF MeaningTrue
<1>8. CountTrue'
  BY <1>1, <1>3 DEF CountTrue
<1> QED BY <1>4, <1>5, <1>6, <1>7, <1>8 DEF ValuesInv

\* The payload of a value is marked as it should be, and holds a number if it is decimal.
LEMMA WrittenShape ==
    ASSUME NEW v, IsValue(v), ~Unserializable(v), NEW serializer \in Serializers,
           NEW payload, NEW flags, Written(payload, flags, v, serializer)
    PROVE  /\ payload[1] \notin {"packed", "garbled"} => GetFlags(flags) = 0
           /\ payload[1] = "decimal" => payload[2] \in Int
<1>1. payload[1] # "packed" => payload = Plain(v, serializer).text /\ GetFlags(flags) = 0
  BY DEF Written
<1>2. Plain(v, serializer).text[1] = "decimal" => Plain(v, serializer).text[2] \in Int
  <2>1. CASE v[1] = "string"
    <3>1. Plain(v, serializer).text = v[2]
      BY <2>1 DEF Plain
    <3> QED BY <2>1, <3>1 DEF IsValue, IsText
  <2>2. CASE v[1] = "long"
    <3>1. Plain(v, serializer).text = <<"decimal", v[2]>>
      BY <2>2 DEF Plain
    <3>2. v[2] \in Int
      BY <2>2, CodecAssumption DEF CodecAssumption, IsValue
    <3> QED BY <3>1, <3>2
  <2>3. CASE v[1] = "double"
    BY <2>3 DEF Plain
  <2>4. CASE v[1] = "bool"
    BY <2>4 DEF Plain, Empty
  <2>5. CASE v[1] \in {"null", "array", "object"}
    BY <2>5 DEF Plain, Serialize, FormOf, Serializers
  <2> QED BY <2>1, <2>2, <2>3, <2>4, <2>5 DEF IsValue, Unserializable
<1> QED BY <1>1, <1>2

\* Storing a value keeps the invariant.
LEMMA StoreKeeps ==
    ASSUME TypeOK, ValuesInv, NEW c \in Clients, NEW v \in PhpValues, PutValue(c, v)
    PROVE  TypeOK' /\ ValuesInv'
<1>1. IsValue(v) /\ ~Unserializable(v)
  BY ValuesAssumption DEF ValuesAssumption, PutValue, Sendable
<1>2. PICK e : e = Encode(v, settings[c])
  OBVIOUS
<1>3. PICK u : u = IF settings[c].set_udf_flags >= 0 THEN settings[c].set_udf_flags ELSE 0
  OBVIOUS
<1>4. /\ Written(e.payload, e.flags, v, settings[c].serializer)
      /\ GetUserFlags(e.flags) = u
      /\ e.flags \in Nat
  BY <1>2, <1>3, FitToEncode, EncodeWrites
<1>5. Put(e.payload, e.flags, v, u) /\ counted' = Nothing
  BY <1>2, <1>3 DEF PutValue
<1>6. settings[c].serializer \in Serializers
  BY FitToEncode
<1>7. /\ e.payload[1] \notin {"packed", "garbled"} => GetFlags(e.flags) = 0
      /\ e.payload[1] = "decimal" => e.payload[2] \in Int
  BY <1>1, <1>4, <1>6, WrittenShape
<1> QED BY <1>1, <1>4, <1>5, <1>6, <1>7, PutKeeps

\* A string that is not compressed is its own payload.
LEMMA StringPayload ==
    ASSUME NEW payload, NEW flags, NEW serializer \in Serializers
    PROVE  /\ GetType(flags) = VAL_IS_STRING /\ GetFlags(flags) = 0
                 => Written(payload, flags, <<"string", payload>>, serializer)
           /\ \A v : /\ v[1] = "string" /\ payload[1] # "packed"
                     /\ Written(payload, flags, v, serializer)
                     => /\ payload = v[2]
                        /\ GetType(flags) = VAL_IS_STRING /\ GetFlags(flags) = 0
<1>1. \A v : v[1] = "string"
             => Plain(v, serializer).text = v[2] /\ Plain(v, serializer).type = VAL_IS_STRING
  BY DEF Plain
<1>2. /\ Plain(<<"string", payload>>, serializer).text = payload
      /\ Plain(<<"string", payload>>, serializer).type = VAL_IS_STRING
  BY DEF Plain
<1> QED BY <1>1, <1>2 DEF Written

\* So is an integer.
LEMMA LongPayload ==
    ASSUME NEW payload, NEW flags, NEW serializer \in Serializers
    PROVE  /\ \A n : /\ GetType(flags) = VAL_IS_LONG /\ GetFlags(flags) = 0
                     => Written(<<"decimal", n>>, flags, <<"long", n>>, serializer)
           /\ \A v : v[1] = "long" /\ Written(payload, flags, v, serializer)
                     => GetType(flags) = VAL_IS_LONG /\ GetFlags(flags) = 0
<1>1. \A v : v[1] = "long"
             => /\ Plain(v, serializer).text = <<"decimal", v[2]>>
                /\ Plain(v, serializer).type = VAL_IS_LONG
  BY DEF Plain
<1>2. \A n : /\ Plain(<<"long", n>>, serializer).text = <<"decimal", n>>
             /\ Plain(<<"long", n>>, serializer).type = VAL_IS_LONG
  BY DEF Plain
<1> QED BY <1>1, <1>2 DEF Written

\* Two texts joined are a text.
LEMMA JoinedIsText ==
    ASSUME NEW a, NEW b
    PROVE  IsText(Joined(a, b)) /\ Joined(a, b)[1] \in {"chunk", "garbled"}
BY DEF Joined, IsText, Garbled

\* Unknown is no PHP value.
LEMMA UnknownIsNone == Unknown[1] = "unknown" /\ Unknown[1] \notin {"string", "long"}
BY DEF Unknown

\* append and prepend keep the invariant: the flags of the record go on being true of the
\* longer payload.
LEMMA ExtendKeeps ==
    ASSUME TypeOK, ValuesInv, NEW c \in Clients, NEW op \in {"append", "prepend"},
           NEW piece \in Pieces, Extend(c, op, piece)
    PROVE  TypeOK' /\ ValuesInv'
<1>1. Encode(<<"string", piece>>, settings[c]).payload = piece
  <2>1. ~ShouldCompress(<<"string", piece>>, Plain(<<"string", piece>>, settings[c].serializer).text,
                        settings[c])
    BY DEF Extend, ShouldCompress
  <2>2. Plain(<<"string", piece>>, settings[c].serializer).text = piece
    BY DEF Plain
  <2> QED BY <2>1, <2>2 DEF Encode
<1>2. PICK payload : payload = IF op = "append" THEN Joined(record.payload, piece)
                                                ELSE Joined(piece, record.payload)
  OBVIOUS
<1>3. PICK longer : longer = IF op = "append" THEN Joined(meant[2], piece) ELSE Joined(piece, meant[2])
  OBVIOUS
<1>4. PICK value : value = IF meant[1] = "string" /\ record.payload[1] = "chunk"
                           THEN <<"string", longer>> ELSE Unknown
  OBVIOUS
<1>5. record # NoRecord /\ counted' = Nothing /\ Put(payload, record.flags, value, user)
  BY <1>1, <1>2, <1>3, <1>4 DEF Extend
<1>6. record.flags \in Nat /\ GetUserFlags(record.flags) = user
  BY <1>5 DEF TypeOK, ValuesInv, UserFlagsKept
<1>7. IsText(payload) /\ payload[1] \in {"chunk", "garbled"} /\ IsText(longer)
  BY <1>2, <1>3, JoinedIsText
<1>8. payload[1] = "chunk" => GetFlags(record.flags) = 0
  <2>1. payload[1] = "chunk" => record.payload[1] = "chunk"
    BY <1>2 DEF Joined, Garbled
  <2> QED BY <1>5, <2>1 DEF ValuesInv, PayloadTrue
<1>9. value = Unknown \/ /\ IsValue(value) /\ ~Unserializable(value)
                         /\ \E serializer \in Serializers :
                               Written(payload, record.flags, value, serializer)
  <2> SUFFICES ASSUME meant[1] = "string", record.payload[1] = "chunk"
               PROVE  /\ IsValue(value) /\ ~Unserializable(value)
                      /\ \E serializer \in Serializers :
                            Written(payload, record.flags, value, serializer)
    BY <1>4
  <2>1. meant # Unknown
    BY UnknownIsNone
  <2>2. PICK serializer \in Serializers :
           Written(record.payload, record.flags, meant, serializer)
    BY <1>5, <2>1 DEF ValuesInv, MeaningTrue
  <2>3. /\ record.payload = meant[2]
        /\ GetType(record.flags) = VAL_IS_STRING /\ GetFlags(record.flags) = 0
    BY <2>2, StringPayload
  <2>4. value = <<"string", payload>>
    BY <1>2, <1>3, <1>4, <2>3
  <2>5. Written(payload, record.flags, value, serializer)
    BY <2>3, <2>4, StringPayload
  <2>6. IsValue(value) /\ ~Unserializable(value)
    BY <1>7, <2>4 DEF IsValue, Unserializable
  <2> QED BY <2>5, <2>6
<1> QED BY <1>5, <1>6, <1>7, <1>8, <1>9, PutKeeps

\* What a counting method returns, for a number that is stored.
LEMMA ResultIsNumber ==
    ASSUME NEW n \in Nat
    PROVE  n > LongMax \/ IncDecResult(n) = <<"long", n>>
BY CodecAssumption DEF CodecAssumption, IncDecResult, UintMax

\* increment and decrement keep the invariant.
LEMMA IncDecKeeps ==
    ASSUME TypeOK, ValuesInv, NEW c \in Clients, NEW incr \in BOOLEAN, NEW offset \in Offsets,
           NEW initial \in {NoInitial} \cup {<<"long", n>> : n \in Initials},
           IncDec(c, incr, offset, initial)
    PROVE  TypeOK' /\ ValuesInv'
<1>1. UintMax \in Nat /\ UintMax + 1 \in Nat \ {0} /\ LongMax \in Nat
  BY CodecAssumption DEF CodecAssumption, UintMax
<1>2. offset \in Nat
  BY <1>1, ValuesAssumption DEF ValuesAssumption, IncDec
<1>3. CASE record = NoRecord
  <2>1. initial # NoInitial
    BY <1>3 DEF IncDec
  <2>2. initial[2] \in Int
    BY <1>1, <2>1, ValuesAssumption DEF ValuesAssumption
  <2>3. PICK n : n = initial[2] % (UintMax + 1)
    OBVIOUS
  <2>4. n \in Nat
    BY <1>1, <2>2, <2>3
  <2>5. PICK text : text = <<"decimal", n>>
    OBVIOUS
  <2>6. Put(text, 0, <<"string", text>>, 0) /\ counted' = IncDecResult(n)
    BY <1>3, <2>3, <2>5 DEF IncDec
  <2>7. GetType(0) = VAL_IS_STRING /\ GetFlags(0) = 0 /\ GetUserFlags(0) = 0
    BY DEF GetType, GetFlags, GetUserFlags, VAL_IS_STRING
  <2>8. \E serializer \in Serializers : Written(text, 0, <<"string", text>>, serializer)
    BY <2>7, StringPayload DEF Serializers
  <2>9. IsValue(<<"string", text>>) /\ ~Unserializable(<<"string", text>>)
    BY <2>4, <2>5 DEF IsValue, IsText, Unserializable
  <2>10. /\ text[1] = "decimal" /\ text[2] \in Nat
         /\ text[2] > LongMax \/ counted' = <<"long", text[2]>>
    BY <2>4, <2>5, <2>6, ResultIsNumber
  <2> QED BY <2>6, <2>7, <2>8, <2>9, <2>10, PutKeeps
<1>4. CASE record # NoRecord
  <2>1. PICK n : n = Counted(record.payload[2], incr, offset)
    OBVIOUS
  <2>2. PICK text : text = <<"decimal", n>>
    OBVIOUS
  <2>3. /\ IsCounter(record.payload)
        /\ Put(text, record.flags, CounterMeans(n), user)
        /\ counted' = IncDecResult(n)
    BY <1>4, <2>1, <2>2 DEF IncDec
  <2>4. record.payload[1] = "decimal" /\ record.payload[2] \in Nat
    BY <1>4, <2>3 DEF IsCounter, ValuesInv, PayloadTrue
  <2>5. n \in Nat
    BY <1>1, <1>2, <2>1, <2>4 DEF Counted
  <2>6. record.flags \in Nat /\ GetUserFlags(record.flags) = user /\ GetFlags(record.flags) = 0
    BY <1>4, <2>4 DEF TypeOK, ValuesInv, UserFlagsKept, PayloadTrue
  <2>7. /\ text[1] = "decimal" /\ text[2] \in Nat
        /\ text[2] > LongMax \/ counted' = <<"long", text[2]>>
    BY <2>2, <2>3, <2>5, ResultIsNumber
  <2>8. CounterMeans(n) = Unknown \/
           /\ IsValue(CounterMeans(n)) /\ ~Unserializable(CounterMeans(n))
           /\ \E serializer \in Serializers :
                 Written(text, record.flags, CounterMeans(n), serializer)
    <3> SUFFICES ASSUME meant[1] = "long", n <= LongMax
                 PROVE  /\ IsValue(<<"long", n>>) /\ ~Unserializable(<<"long", n>>)
                        /\ \E serializer \in Serializers :
                              Written(text, record.flags, <<"long", n>>, serializer)
      BY DEF CounterMeans
    <3>1. meant # Unknown
      BY UnknownIsNone
    <3>2. PICK serializer \in Serializers :
             Written(record.payload, record.flags, meant, serializer)
      BY <1>4, <3>1 DEF ValuesInv, MeaningTrue
    <3>3. GetType(record.flags) = VAL_IS_LONG /\ GetFlags(record.flags) = 0
      BY <3>2, LongPayload
    <3>4. Written(text, record.flags, <<"long", n>>, serializer)
      BY <2>2, <3>3, LongPayload
    <3>5. IsValue(<<"long", n>>) /\ ~Unserializable(<<"long", n>>)
      BY <1>1, <2>5 DEF IsValue, Unserializable
    <3> QED BY <3>4, <3>5
  <2>9. text[1] \notin {"packed", "garbled"} => GetFlags(record.flags) = 0
    BY <2>6
  <2> QED BY <2>3, <2>6, <2>7, <2>8, <2>9, PutKeeps
<1> QED BY <1>3, <1>4

\* Every step keeps the invariant.
LEMMA ValuesStep ==
    ASSUME TypeOK, ValuesInv, [Next]_vars
    PROVE  TypeOK' /\ ValuesInv'
<1>1. ASSUME NEW c \in Clients, NEW op \in {"set", "add", "replace"}, NEW v \in PhpValues,
             Store(c, op, v)
      PROVE  TypeOK' /\ ValuesInv'
  BY <1>1, StoreKeeps DEF Store
<1>2. ASSUME NEW c \in Clients, NEW v \in PhpValues, Cas(c, v)
      PROVE  TypeOK' /\ ValuesInv'
  BY <1>2, StoreKeeps DEF Cas
<1>3. ASSUME NEW c \in Clients, GetExtended(c)
      PROVE  TypeOK' /\ ValuesInv'
  <2>1. UNCHANGED <<record, next_cas, settings, counted, changes, meant, user>>
    BY <1>3 DEF GetExtended
  <2>2. \A d \in Clients :
           \/ token'[d] = token[d]
           \/ /\ token'[d].of = record.cas
              /\ token'[d].cas = s_uint64_to_zval(record.cas)
    BY <1>3 DEF GetExtended
  <2>3. record.cas \in 1 .. UintMax /\ UintMax \in Int
    BY <1>3, CodecAssumption
       DEF GetExtended, TypeOK, ValuesInv, TokensTrue, CodecAssumption, UintMax
  <2>4. TypeOK'
    BY <2>1, <2>2, <2>3 DEF TypeOK
  <2>5. TokensTrue'
    BY <2>1, <2>2, <2>3 DEF ValuesInv, TokensTrue
  <2>6. SettingsFit' /\ PayloadTrue' /\ MeaningTrue' /\ CountTrue' /\ UserFlagsKept'
    BY <2>1 DEF ValuesInv, SettingsFit, PayloadTrue, MeaningTrue, CountTrue, UserFlagsKept
  <2> QED BY <2>4, <2>5, <2>6 DEF ValuesInv
<1>4. ASSUME NEW c \in Clients, NEW call \in OptionCalls, ChangeOption(c, call[1], call[2])
      PROVE  TypeOK' /\ ValuesInv'
  <2>1. UNCHANGED <<record, next_cas, token, counted, meant, user>>
    BY <1>4 DEF ChangeOption
  <2>2. PICK have \in SUBSET Features : have = Have[c]
    BY ValuesAssumption DEF ValuesAssumption
  <2>3. PICK o : o = SetOption(settings[c], have, call[1], call[2])
    OBVIOUS
  <2>4. /\ o \in Settings
        /\ o.serializer \in Available(have)
        /\ o.compression_type \in AvailableCompression(have)
    BY <2>2, <2>3, OptionFits, ValuesAssumption
       DEF ValuesAssumption, TypeOK, ValuesInv, SettingsFit
  <2>5. settings' = [settings EXCEPT ![c] = o]
    BY <1>4, <2>2, <2>3 DEF ChangeOption
  <2>6. TypeOK'
    BY <1>4, <2>1, <2>4, <2>5, ValuesAssumption DEF ValuesAssumption, TypeOK, ChangeOption
  <2>7. SettingsFit'
    BY <2>2, <2>4, <2>5 DEF ValuesInv, SettingsFit, TypeOK
  <2>8. TokensTrue' /\ PayloadTrue' /\ MeaningTrue' /\ CountTrue' /\ UserFlagsKept'
    BY <2>1 DEF ValuesInv, TokensTrue, PayloadTrue, MeaningTrue, CountTrue, UserFlagsKept
  <2> QED BY <2>6, <2>7, <2>8 DEF ValuesInv
<1>5. CASE Vanish
  <2>1. /\ record' = NoRecord /\ meant' = Unknown /\ user' = 0 /\ counted' = Nothing
        /\ UNCHANGED <<next_cas, settings, token, changes>>
    BY <1>5 DEF Vanish
  <2>2. NoRecord.flags = 0 /\ NoRecord.cas = 0 /\ UintMax \in Nat
    BY CodecAssumption DEF CodecAssumption, UintMax, NoRecord
  <2>3. TypeOK'
    BY <2>1, <2>2 DEF TypeOK
  <2> QED BY <2>1, <2>3 DEF ValuesInv, SettingsFit, TokensTrue, PayloadTrue, MeaningTrue,
                           CountTrue, UserFlagsKept
<1>6. CASE UNCHANGED vars
  BY <1>6 DEF vars, TypeOK, ValuesInv, SettingsFit, TokensTrue, PayloadTrue, MeaningTrue,
              CountTrue, UserFlagsKept
<1> QED
  BY <1>1, <1>2, <1>3, <1>4, <1>5, <1>6, ExtendKeeps, IncDecKeeps DEF Next

\* What a record means is known of every state that can be reached.
THEOREM RecordsAreTrue == Spec => [](TypeOK /\ ValuesInv)
<1>1. ASSUME Init PROVE TypeOK /\ ValuesInv
  <2>1. /\ record = NoRecord /\ next_cas = FirstCas /\ token = [c \in Clients |-> NoToken]
        /\ counted = Nothing /\ changes = 0 /\ meant = Unknown
    BY <1>1 DEF Init
  <2>2. PICK ini \in [Clients -> IniFiles] : settings = [c \in Clients |-> FromIni(c, ini[c])]
    BY <1>1 DEF Init
  <2>3. settings \in [Clients -> Settings] /\ SettingsFit
    <3>1. \A c \in Clients :
             /\ settings[c] \in Settings
             /\ settings[c].serializer \in Available(Have[c])
             /\ settings[c].compression_type \in AvailableCompression(Have[c])
      BY <2>2, IniFits
    <3> QED BY <2>2, <3>1 DEF SettingsFit
  <2>4. NoRecord.flags = 0 /\ NoRecord.cas = 0 /\ NoToken.of = 0 /\ UintMax \in Nat
    BY CodecAssumption DEF CodecAssumption, UintMax, NoRecord, NoToken
  <2>5. TypeOK
    BY <2>1, <2>3, <2>4, ValuesAssumption DEF ValuesAssumption, TypeOK
  <2> QED BY <2>1, <2>3, <2>5 DEF ValuesInv, TokensTrue, PayloadTrue, MeaningTrue, CountTrue,
                                 UserFlagsKept
<1> QED BY <1>1, ValuesStep, PTL DEF Spec

\* The types of the record, of the settings and of the tokens.
THEOREM TypeCorrect == Spec => []TypeOK
BY RecordsAreTrue, PTL

\* Neither compression nor appending nor counting touches the bits of the flags that are
\* the user's: an extended get returns those the record was stored with.
THEOREM UserFlagsAreKept == Spec => []UserFlagsKept
<1>1. ValuesInv => UserFlagsKept
  BY DEF ValuesInv
<1> QED BY <1>1, RecordsAreTrue, PTL

\* A cas is carried out on the record its token was got with and on no other, for tokens
\* that go through PHP as integers, as strings or as doubles that have room for them, in
\* both protocols.
THEOREM CasFindsItsRecord == Spec => []CasIsExact
<1>1. ASSUME TypeOK, ValuesInv, record # NoRecord, NEW c \in Clients, token[c] # NoToken,
             NEW z \in Passed(c)
      PROVE  Matches(c, s_zval_to_uint64(z)) <=> record.cas = token[c].of
  <2>1. PICK n \in 0 .. UintMax : n = token[c].of
    BY <1>1 DEF TypeOK
  <2>2. n >= 1 /\ token[c].cas = s_uint64_to_zval(n) /\ UintMax \in Nat
    BY <1>1, <2>1, CodecAssumption DEF ValuesInv, TokensTrue, CodecAssumption, UintMax
  <2>3. s_zval_to_uint64(z) = n
    <3>1. CASE z = token[c].cas
      BY <2>2, <3>1, TokenSurvives
    <3>2. CASE z = <<"double", n>>
      <4>1. n % (UintMax + 1) = n
        BY <2>2
      <4> QED BY <2>2, <3>2, <4>1 DEF s_zval_to_uint64
    <3> QED BY <1>1, <2>1, <3>1, <3>2 DEF Passed
  <2> QED BY <1>1, <2>1, <2>2, <2>3 DEF Matches
<1>2. TypeOK /\ ValuesInv => CasIsExact
  BY <1>1 DEF CasIsExact
<1> QED BY <1>2, RecordsAreTrue, PTL

\* What increment or decrement returned is what is stored and what every client reads.
THEOREM CountersAgree == Spec => []CounterAgrees
<1>1. ASSUME ValuesInv, counted # Nothing, record.payload[2] <= LongMax,
             GetType(record.flags) = VAL_IS_LONG, NEW c \in Clients
      PROVE  Read(c) = <<"long", record.payload[2]>>
  <2>1. /\ record.payload[1] = "decimal" /\ record.payload[2] \in Nat
        /\ GetFlags(record.flags) = 0
    BY <1>1 DEF ValuesInv, CountTrue, PayloadTrue
  <2>2. ~HasFlag(record.flags, VAL_COMPRESSED)
    BY <2>1 DEF HasFlag, VAL_COMPRESSED
  <2>3. record.payload # Failure
    <3>1. Failure[1] = "failure"
      BY DEF Failure
    <3> QED BY <2>1, <3>1
  <2>4. StrToL(record.payload) = record.payload[2]
    BY <1>1, <2>1, CodecAssumption DEF CodecAssumption, StrToL
  <2>5. Read(c) = <<"long", StrToL(record.payload)>>
    BY <1>1, <2>2, <2>3
       DEF Read, Decode, VAL_IS_STRING, VAL_IS_LONG, VAL_IS_DOUBLE, VAL_IS_BOOL
  <2> QED BY <2>4, <2>5
<1>2. ASSUME ValuesInv, counted # Nothing, ~(record.payload[2] > LongMax)
      PROVE  /\ counted = <<"long", record.payload[2]>>
             /\ record.payload[2] <= LongMax
  BY <1>2, CodecAssumption DEF ValuesInv, CountTrue, CodecAssumption
<1>3. ValuesInv => CounterAgrees
  BY <1>1, <1>2 DEF CounterAgrees
<1> QED BY <1>3, RecordsAreTrue, PTL

\* The form of a text that was written, as the bytes show it.
LEMMA FormShows ==
    ASSUME NEW v, IsValue(v), ~Unserializable(v), NEW serializer \in Serializers
    PROVE  \/ Plain(v, serializer).text[1] = FormWritten(v, serializer)
           \/ /\ Plain(v, serializer).text[1] \in {"chunk", "decimal", "garbled", "float"}
              /\ FormWritten(v, serializer) = "plain"
<1>1. CASE v[1] = "string"
  BY <1>1 DEF Plain, IsValue, IsText, FormWritten
<1>2. CASE v[1] \in {"long", "double", "bool"}
  BY <1>2 DEF Plain, Empty, FormWritten
<1>3. CASE v[1] \in {"null", "array", "object"}
  BY <1>3 DEF Plain, Serialize, FormWritten
<1> QED BY <1>1, <1>2, <1>3 DEF IsValue, Unserializable

\* Whatever the settings of the writer were and those of the reader are, the reader gets the
\* value that was stored, appended to or counted, or fails because its build lacks what the
\* writer used.
THEOREM ValuesComeBack == Spec => []ReadsBack
<1>1. ASSUME ValuesInv, record # NoRecord, meant # Unknown, NEW c \in Clients
      PROVE  Read(c) = IF Needs \subseteq Have[c] THEN ReadAs(meant, Form, c) ELSE Failure
  <2>1. IsValue(meant) /\ ~Unserializable(meant)
    BY <1>1 DEF ValuesInv, MeaningTrue
  <2>2. PICK serializer \in Serializers :
           Written(record.payload, record.flags, meant, serializer)
    BY <1>1 DEF ValuesInv, MeaningTrue
  <2>3. PICK text : text = Plain(meant, serializer).text
    OBVIOUS
  <2>4. PICK form : form = FormWritten(meant, serializer)
    OBVIOUS
  <2>5. Form = text[1]
    <3>1. text[1] # "packed"
      BY <2>1, <2>3, TextIsPlain
    <3> QED BY <2>2, <2>3, <3>1 DEF Written, Form, Packed
  <2>6. \/ text[1] = form
        \/ text[1] \in {"chunk", "decimal", "garbled", "float"} /\ form = "plain"
    BY <2>1, <2>3, <2>4, FormShows
  <2>7. Needs = Wants(record.payload, meant, serializer)
    BY <2>4, <2>5, <2>6 DEF Needs, Wants, Packed
  <2>8. ReadAs(meant, Form, c) = Understood(meant, form, settings[c].serializer)
    BY <2>5, <2>6 DEF ReadAs, Understood
  <2>9. Decode(record.payload, record.flags, settings[c], Have[c])
          = IF Wants(record.payload, meant, serializer) \subseteq Have[c]
            THEN Understood(meant, FormWritten(meant, serializer), settings[c].serializer)
            ELSE Failure
    BY <2>1, <2>2, RoundTrip
  <2> QED BY <2>4, <2>7, <2>8, <2>9 DEF Read
<1>2. ValuesInv => ReadsBack
  BY <1>1 DEF ReadsBack
<1> QED BY <1>2, RecordsAreTrue, PTL

\* No setOption call, refused or not, leaves a handle that writes what its own build cannot
\* read.
THEOREM OwnValuesAreReadable == Spec => []ReadsOwnValues
<1>1. ASSUME TypeOK, ValuesInv, NEW c \in Clients, NEW v \in PhpValues, ~Unserializable(v)
      PROVE  Decode(Encode(v, settings[c]).payload, Encode(v, settings[c]).flags,
                    settings[c], Have[c]) # Failure
  <2>1. PICK s \in Serializers : s = settings[c].serializer
    BY <1>1, FitToEncode
  <2>2. PICK payload, flags :
           payload = Encode(v, settings[c]).payload /\ flags = Encode(v, settings[c]).flags
    OBVIOUS
  <2>3. IsValue(v)
    BY ValuesAssumption DEF ValuesAssumption
  <2>4. /\ Written(payload, flags, v, s)
        /\ \/ payload = Plain(v, s).text
           \/ payload = <<"packed", settings[c].compression_type, Plain(v, s).text>>
    BY <1>1, <2>1, <2>2, FitToEncode, EncodeWrites
  <2>5. Wants(payload, v, s) \subseteq Have[c]
    <3>1. FormWritten(v, s) \in {"igbinary", "json", "msgpack"} => FormWritten(v, s) \in Have[c]
      <4>1. s \in Available(Have[c])
        BY <1>1, <2>1 DEF ValuesInv, SettingsFit
      <4> QED BY <4>1 DEF Available, FormWritten, FormOf
    <3>2. payload[1] = "packed" /\ payload[2] = "zstd" => "zstd" \in Have[c]
      <4>1. settings[c].compression_type \in AvailableCompression(Have[c])
        BY <1>1 DEF ValuesInv, SettingsFit
      <4>2. Plain(v, s).text[1] # "packed"
        BY <1>1, <2>3, TextIsPlain
      <4> QED BY <2>4, <4>1, <4>2 DEF AvailableCompression
    <3> QED BY <3>1, <3>2 DEF Wants
  <2>6. Decode(payload, flags, settings[c], Have[c])
          = Understood(v, FormWritten(v, s), settings[c].serializer)
    BY <1>1, <2>3, <2>4, <2>5, RoundTrip
  <2>7. Understood(v, FormWritten(v, s), settings[c].serializer)[1] # "failure"
    BY <2>3 DEF Understood, IsValue
  <2>8. Failure[1] = "failure"
    BY DEF Failure
  <2> QED BY <2>2, <2>6, <2>7, <2>8
<1>2. TypeOK /\ ValuesInv => ReadsOwnValues
  BY <1>1 DEF ReadsOwnValues
<1> QED BY <1>2, RecordsAreTrue, PTL
=============================================================================

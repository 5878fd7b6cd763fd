------------------------------ MODULE MCValues ------------------------------
(***************************************************************************)
(* Values with two clients of different builds, and a value of each kind.  *)
(***************************************************************************)
EXTENDS Values

CONSTANTS c1, c2

\* The second client has neither igbinary nor zstd.
MCHave == [c \in Clients |-> IF c = c1 THEN {"igbinary", "json", "zstd"} ELSE {"json"}]

Text(piece) == <<"chunk", <<piece>> >>

\* Only big texts reach the threshold, and only noise is not worth compressing.
MCSize(text) ==
    CASE text = Empty           -> 0
      [] text = Text("big")     -> 20
      [] text = Text("noise")   -> 20
      [] text[1] \in Forms      -> 20
      [] OTHER                  -> 1

MCPackedSize(text, algorithm) == IF text = Text("noise") THEN 18 ELSE 5

MCPhpValues ==
    {<<"string", Text("a")>>, <<"string", Text("big")>>, <<"string", Text("noise")>>,
     <<"string", <<"decimal", LongMax + 1>> >>, <<"long", LongMax>>, <<"long", 1>>, <<"long", -1>>,
     <<"double", "1.5">>, <<"bool", TRUE>>, <<"bool", FALSE>>, <<"null", "">>,
     <<"array", "map">>, <<"array", "not_utf8">>, <<"throws", "">>}

MCOffsets  == {-1, 1, LongMax}
MCInitials == {-1, 5}

MCPieces == {Text("b")}

Ini(serializer, limit, binary) ==
    [serializer |-> serializer, compression_type |-> "zstd", item_size_limit |-> limit,
     binary_protocol |-> binary]

MCIniFiles == {Ini("igbinary", 10, FALSE), Ini("json", 0, TRUE)}

MCOptionCalls ==
    {<<"COMPRESSION", 0>>, <<"COMPRESSION_TYPE", "fastlz">>, <<"COMPRESSION_TYPE", "zlib">>, <<"COMPRESSION_TYPE", "zstd">>,
     <<"SERIALIZER", "php">>, <<"SERIALIZER", "igbinary">>, <<"SERIALIZER", "json">>,
     <<"SERIALIZER", "json_array">>,
     <<"USER_FLAGS", -1>>, <<"USER_FLAGS", UserFlagsMax>>, <<"USER_FLAGS", UserFlagsMax + 1>>,
     <<"ITEM_SIZE_LIMIT", 10>>, <<"ITEM_SIZE_LIMIT", -1>>,
     <<"BINARY_PROTOCOL", 1>>, <<"UNKNOWN", 0>>}
=============================================================================

----------------------------- MODULE RowParsers -----------------------------
(* How a row becomes JavaScript values: the generated and the static row     *)
(* parsers of both protocols (parsers/text_parser.js, binary_parser.js,      *)
(* static_text_parser.js, static_binary_parser.js), the cache of generated   *)
(* parsers that all connections share (parsers/parser_cache.js) and the      *)
(* cache of time zone offsets behind local dates (parsers/local_date.js).    *)
(*                                                                           *)
(* A generated parser is its program: one step a column, with the place of   *)
(* the value, the kind of typeCast and the reader its code calls.  A static  *)
(* parser is the program that its next() follows.  The server's encoding of  *)
(* a row is external.                                                        *)
EXTENDS Values

CONSTANTS
    Conns,           \* connections, of one process
    Config,          \* connection -> connection.config, see Options
    Tables,          \* name -> [cols, rows], what the server may send
    Queries,         \* [conn, proto, static, over, table]: what may be asked
    LaterQueries,    \* bound: those asked after the first result set
    MaxResults,      \* bound on the result sets of a behaviour
    MaxParsers,      \* parserCache's max, 15000
    MaxCachedHours,  \* MAX_CACHED_HOURS, 4096
    Zones,           \* process.env.TZ -> [at, before, after], its one transition
    FirstZone        \* the time zone at the start

VARIABLES
    parserCache,     \* <<[hash, entries]>>, the least recently used first
    parserMax,
    TZ,              \* process.env.TZ
    lastTimezone,
    hourOffsets,     \* hour -> offset, or Transition
    open,            \* connection -> <<>> or <<the result set being read>>
    row,             \* connection -> <<>> or <<its last row>>
    results

dateVars == <<lastTimezone, hourOffsets>>
rowVars == <<parserCache, parserMax, TZ, lastTimezone, hourOffsets, open, row, results>>

(* Options: those of the query over those of the connection.  dateStrings is *)
(* a set of types (all of them for true); nestTables is "no", "true" or a    *)
(* separator; a typeCast function calls next, field.string or field.buffer.  *)
queryOptions(config, overrides) == overrides @@ config

Functions == {"next", "string", "buffer"}
IsFunction(typeCast) == typeCast \in Functions

IntTypes == {"TINY", "SHORT", "INT24", "LONG", "YEAR"}
DateTypes == {"DATE", "DATETIME", "TIMESTAMP"}

supportBigNumbers(options, config) == options.supportBigNumbers \/ config.supportBigNumbers
bigNumberStrings(options, config) == options.bigNumberStrings \/ config.bigNumberStrings
dateStrings(options, config) ==
    IF options.dateStrings # {} THEN options.dateStrings ELSE config.dateStrings

typeMatch(type, list) == type \in list

-----------------------------------------------------------------------------
(* Readers: the call on the packet and its arguments.                        *)

Call(name) == [name |-> name, big |-> FALSE, zone |-> "", decimals |-> 0, type |-> ""]

JsonReader(config) ==
    Call(IF config.jsonStrings THEN "readLengthCodedString" ELSE "parseJson")

StringReader(field) ==
    Call(IF field.charset = "binary" THEN "readLengthCodedBuffer" ELSE "readLengthCodedString")

TextReader(field, options, config) ==
    LET big == supportBigNumbers(options, config)
        float == Call("parseLengthCodedFloat")
        string == Call("readLengthCodedString")
    IN CASE field.format = "json" \/ field.type = "JSON" -> JsonReader(config)
         [] field.type \in IntTypes -> Call("parseLengthCodedIntNoBigCheck")
         [] field.type = "LONGLONG" ->
                IF big /\ bigNumberStrings(options, config) THEN Call("parseLengthCodedIntString")
                ELSE [Call("parseLengthCodedInt") EXCEPT !.big = big]
         [] field.type \in {"FLOAT", "DOUBLE"} -> float
         [] field.type = "NULL" -> Call("readLengthCodedNumber")
         [] field.type \in {"DECIMAL", "NEWDECIMAL"} ->
                IF config.decimalNumbers THEN float ELSE string
         [] field.type \in DateTypes ->
                IF typeMatch(field.type, dateStrings(options, config)) THEN string
                ELSE [Call(IF field.type = "DATE" THEN "parseDate" ELSE "parseDateTime")
                        EXCEPT !.zone = options.timezone]
         [] field.type = "TIME" -> string
         [] field.type = "VECTOR" -> Call("parseVector")
         [] OTHER -> StringReader(field)

(* The same switch, in which NULL falls through to the decimals.             *)
StaticTextReader(field, options, config) ==
    TextReader(IF field.type = "NULL" /\ field.format # "json"
               THEN [field EXCEPT !.type = "DECIMAL"] ELSE field, options, config)

IntReader(field) ==
    Call(CASE field.type = "TINY" -> IF field.unsigned THEN "readInt8" ELSE "readSInt8"
           [] field.type = "SHORT" -> IF field.unsigned THEN "readInt16" ELSE "readSInt16"
           [] field.type = "YEAR" -> "readInt16"
           [] OTHER -> IF field.unsigned THEN "readInt32" ELSE "readSInt32")

BigIntReader(field, big, strings) ==
    Call(CASE ~big -> IF field.unsigned THEN "readInt64JSNumber" ELSE "readSInt64JSNumber"
           [] big /\ strings -> IF field.unsigned THEN "readInt64String" ELSE "readSInt64String"
           [] OTHER -> IF field.unsigned THEN "readInt64" ELSE "readSInt64")

BinaryReader(field, options, config) ==
    CASE field.format = "json" \/ field.type = "JSON" -> JsonReader(config)
      [] field.type \in IntTypes -> IntReader(field)
      [] field.type = "LONGLONG" ->
            BigIntReader(field, supportBigNumbers(options, config),
                         bigNumberStrings(options, config))
      [] field.type = "FLOAT" -> Call("readFloat")
      [] field.type = "DOUBLE" -> Call("readDouble")
      [] field.type = "NULL" -> Call("null")
      [] field.type \in DateTypes ->
            IF typeMatch(field.type, dateStrings(options, config))
            THEN [Call("readDateTimeString")
                    EXCEPT !.decimals = field.decimals, !.type = field.type]
            ELSE [Call("readDateTime") EXCEPT !.zone = options.timezone]
      [] field.type = "TIME" -> Call("readTimeString")
      [] field.type \in {"DECIMAL", "NEWDECIMAL"} ->
            Call(IF config.decimalNumbers THEN "parseLengthCodedFloat"
                 ELSE "readLengthCodedString")
      [] field.type = "VECTOR" -> Call("parseVector")
      [] OTHER -> StringReader(field)

StaticBinaryReader(field, options, config) == BinaryReader(field, options, config)

(* What a call returns.                                                      *)
Read(call, b, o) ==
    CASE call.name = "null" -> At(Null, o)
      [] call.name = "readInt8" -> readInt8(b, o)
      [] call.name = "readSInt8" -> readSInt8(b, o)
      [] call.name = "readInt16" -> readInt16(b, o)
      [] call.name = "readSInt16" -> readSInt16(b, o)
      [] call.name = "readInt32" -> readInt32(b, o)
      [] call.name = "readSInt32" -> readSInt32(b, o)
      [] call.name = "readInt64" -> readInt64(b, o)
      [] call.name = "readSInt64" -> readSInt64(b, o)
      [] call.name = "readInt64String" -> readInt64String(b, o)
      [] call.name = "readSInt64String" -> readSInt64String(b, o)
      [] call.name = "readInt64JSNumber" -> readInt64JSNumber(b, o)
      [] call.name = "readSInt64JSNumber" -> readSInt64JSNumber(b, o)
      [] call.name = "readFloat" -> readFloat(b, o)
      [] call.name = "readDouble" -> readDouble(b, o)
      [] call.name = "readDateTime" -> readDateTime(b, o, call.zone)
      [] call.name = "readDateTimeString" -> readDateTimeString(b, o, call.decimals, call.type)
      [] call.name = "readTimeString" -> readTimeString(b, o)
      [] call.name = "readLengthCodedNumber" -> readLengthCodedNumber(b, o)
      [] call.name = "readLengthCodedString" -> readLengthCodedString(b, o)
      [] call.name = "readLengthCodedBuffer" -> readLengthCodedBuffer(b, o)
      [] call.name = "parseLengthCodedIntNoBigCheck" -> parseLengthCodedIntNoBigCheck(b, o)
      [] call.name = "parseLengthCodedIntString" -> parseLengthCodedIntString(b, o)
      [] call.name = "parseLengthCodedInt" -> parseLengthCodedInt(b, o, call.big)
      [] call.name = "parseLengthCodedFloat" -> parseLengthCodedFloat(b, o)
      [] call.name = "parseDate" -> parseDate(b, o, call.zone)
      [] call.name = "parseDateTime" -> parseDateTime(b, o, call.zone)
      [] call.name = "parseVector" -> parseVector(b, o)
      [] call.name = "parseJson" -> parseJson(b, o)

-----------------------------------------------------------------------------
(* Programs.                                                                 *)

Slot(index, table, separator, name) ==
    [index |-> index, table |-> table, separator |-> separator, name |-> name]

NestedSlot(options, field) ==
    IF options.nestTables = "no" THEN Slot(0, "", "", field.name)
    ELSE Slot(0, field.table, options.nestTables, field.name)

TextPlace(options, field, i) ==
    IF options.nestTables = "no" /\ options.rowsAsArray THEN Slot(i, "", "", "")
    ELSE NestedSlot(options, field)

BinaryPlace(options, field, i) == TextPlace(options, field, i)

StaticTextPlace(options, field, i) ==
    IF options.rowsAsArray THEN Slot(i, "", "", "") ELSE NestedSlot(options, field)

StaticBinaryPlace(options, field, i) == StaticTextPlace(options, field, i)

typeCastKind(typeCast) ==
    CASE typeCast = "false" -> "false" [] IsFunction(typeCast) -> "function" [] OTHER -> "default"

(* Whether the values of a column are made by localDate().                   *)
usesLocalDate(field, options, config) ==
    /\ options.timezone = "local"
    /\ field.type \in DateTypes
    /\ ~typeMatch(field.type, dateStrings(options, config))

Program(proto, fields, options, config, Place(_, _, _), Reader(_, _, _)) ==
    [proto |-> proto,
     checksTimezone |-> \E i \in DOMAIN fields : usesLocalDate(fields[i], options, config),
     steps |-> [i \in DOMAIN fields |->
                   [place |-> Place(options, fields[i], i),
                    kind |-> typeCastKind(options.typeCast),
                    read |-> IF options.typeCast = "false" THEN Call("readLengthCodedBuffer")
                             ELSE Reader(fields[i], options, config)]]]

(* compile() puts the typeCast of the connection into the query's options.   *)
globalTypeCast(options, config) ==
    IF IsFunction(config.typeCast) /\ ~IsFunction(options.typeCast)
    THEN [options EXCEPT !.typeCast = config.typeCast] ELSE options

compileText(fields, options, config) ==
    Program("text", fields, options, config, TextPlace, TextReader)
compileBinary(fields, options, config) ==
    Program("binary", fields, options, config, BinaryPlace, BinaryReader)
compile(proto, fields, options, config) ==
    IF proto = "text" THEN compileText(fields, options, config)
    ELSE compileBinary(fields, options, config)

staticTextParser(fields, options, config) ==
    Program("text", fields, options, config, StaticTextPlace, StaticTextReader)
staticBinaryParser(fields, options, config) ==
    Program("binary", fields, options, config, StaticBinaryPlace, StaticBinaryReader)
staticParser(proto, fields, options, config) ==
    IF proto = "text" THEN staticTextParser(fields, options, config)
    ELSE staticBinaryParser(fields, options, config)

-----------------------------------------------------------------------------
(* The cache of generated parsers.                                           *)

optionBits(proto, options, config) ==
    [proto |-> proto,
     rowsAsArray |-> options.rowsAsArray,
     supportBigNumbers |-> supportBigNumbers(options, config),
     bigNumberStrings |-> bigNumberStrings(options, config),
     typeCast |-> typeCastKind(options.typeCast),
     decimalNumbers |-> options.decimalNumbers,
     jsonStrings |-> config.jsonStrings,
     nestTables |-> options.nestTables,
     dateStrings |-> dateStrings(options, config)]

(* What an entry remembers and matches() compares.                           *)
Entry(proto, fields, options, config) ==
    [bits |-> optionBits(proto, options, config),
     timezone |-> options.timezone,
     fields |-> [i \in DOMAIN fields |->
                    IF options.nestTables = "no" THEN [fields[i] EXCEPT !.table = ""]
                    ELSE fields[i]]]

(* The hash keeps the kind of typeCast and collides in everything else, so   *)
(* that matches() has to tell the parsers apart.                             *)
hashKey(proto, fields, options, config) == typeCastKind(options.typeCast)

(* LRU: a bucket that is used becomes the last; the first is dropped.        *)
Keep(buckets, max) ==
    IF Len(buckets) > max THEN SubSeq(buckets, Len(buckets) - max + 1, Len(buckets)) ELSE buckets

Bucket(hash) == SelectInSeq(parserCache, LAMBDA b : b.hash = hash)

Used(hash, entries) ==
    LET others == IF Bucket(hash) = 0 THEN parserCache ELSE RemoveAt(parserCache, Bucket(hash))
    IN Keep(Append(others, [hash |-> hash, entries |-> entries]), parserMax)

Hit(entries, key) == SelectInSeq(entries, LAMBDA e : e.key = key)

getParser(proto, fields, options, config) ==
    LET hash == hashKey(proto, fields, options, config)
        entries == IF Bucket(hash) = 0 THEN <<>> ELSE parserCache[Bucket(hash)].entries
        hit == Hit(entries, Entry(proto, fields, options, config))
        final == globalTypeCast(options, config)
        parser == compile(proto, fields, final, config)
        entry == [key |-> Entry(proto, fields, final, config), parser |-> parser]
    IN IF hit # 0
       THEN [parser |-> entries[hit].parser, options |-> options, cache |-> Used(hash, entries)]
       ELSE [parser |-> parser, options |-> final, cache |-> Used(hash, Append(entries, entry))]

(* Both change nothing for the result sets whose parser is already chosen:   *)
(* they are called while none is open, which bounds the interleavings.       *)
Idle == \A c \in Conns : open[c] = <<>>

setMaxParserCache(max) ==
    /\ Idle /\ max # parserMax
    /\ parserMax' = max
    /\ parserCache' = Keep(parserCache, max)
    /\ UNCHANGED <<TZ, dateVars, open, row, results>>

clearParserCache ==
    /\ Idle
    /\ parserCache' = <<>>
    /\ UNCHANGED <<parserMax, TZ, dateVars, open, row, results>>

-----------------------------------------------------------------------------
(* Local dates.                                                              *)

Transition == 1000                   \* null: the offset changes in this hour

(* new Date(y, m, ...), of the JavaScript engine: a time that the clocks     *)
(* skip is read with the offset before, one they repeat is the first.        *)
LocalTime(zone, minute) ==
    LET early == minute - Zones[zone].before
        late == minute - Zones[zone].after
    IN IF early < Zones[zone].at \/ late < Zones[zone].at THEN early ELSE late

proveHourOffset(zone, hour) ==
    LET Offset(minute) == minute - LocalTime(zone, minute)
        start == hour * MinutesPerHour
    IN IF /\ Offset(start) = Offset(start + (MinutesPerHour \div 2))
          /\ Offset(start) = Offset(start + MinutesPerHour - 1)
       THEN Offset(start) ELSE Transition

(* Faulty: the offsets of the time zone before are kept.                     *)
checkTimezoneKeeps == lastTimezone' = TZ /\ UNCHANGED hourOffsets

checkTimezone ==
    /\ lastTimezone' = TZ
    /\ hourOffsets' = IF TZ # lastTimezone THEN << >> ELSE hourOffsets

(* Map.set()                                                                 *)
With(f, x, y) == [z \in DOMAIN f \union {x} |-> IF z = x THEN y ELSE f[z]]

(* What is left of the cache when another hour comes in.                     *)
Room(hours) == IF Cardinality(DOMAIN hours) >= MaxCachedHours THEN << >> ELSE hours

localDate(hours, zone, w) ==
    LET hour == w[1] \div MinutesPerHour
        known == hour \in DOMAIN hours
        offset == IF known THEN hours[hour] ELSE proveHourOffset(zone, hour)
    IN [hours |-> IF known THEN hours ELSE With(Room(hours), hour, offset),
        value |-> Instant(<<IF offset = Transition THEN LocalTime(zone, w[1]) ELSE w[1] - offset,
                            w[2], w[3]>>)]

-----------------------------------------------------------------------------
(* next(): a row is read.                                                    *)

(* field.string() of the binary parsers knows the types that are not length  *)
(* coded, except the numbers.                                                *)
FieldString(field, b, o) ==
    CASE field.type \in DateTypes -> readDateTimeString(b, o, field.decimals, field.type)
      [] field.type = "TINY" ->
            LET n == IF field.unsigned THEN readInt8(b, o) ELSE readSInt8(b, o)
            IN At(Str(Text(n.v.num)), n.o)
      [] field.type = "TIME" -> readTimeString(b, o)
      [] OTHER -> readLengthCodedString(b, o)

Cast(typeCast, proto, step, field, b, o) ==
    CASE step.kind # "function" \/ typeCast = "next" -> Read(step.read, b, o)
      [] typeCast = "buffer" -> readLengthCodedBuffer(b, o)
      [] OTHER -> IF proto = "binary" THEN FieldString(field, b, o) ELSE readLengthCodedString(b, o)

(* Faulty: every column looks at the first byte of the bitmap.               *)
IsNullFirstByte(proto, b, i) == proto = "binary" /\ BitSet(b[2], (i + 1) % Bits)

(* The bits of the columns start at the third; byte and bit advance together. *)
IsNull(proto, b, i) == proto = "binary" /\ BitSet(b[2 + ((i + 1) \div Bits)], (i + 1) % Bits)

FirstValue(proto, count) == IF proto = "binary" THEN 2 + BitmapLength(count + 2) ELSE 1

(* A value is put in its place; a local date goes through the cache.         *)
Dated(read, hours) ==
    IF "local" \in DOMAIN read.v THEN localDate(hours, TZ, read.v.local)
    ELSE [hours |-> hours, value |-> read.v]

Placed(place, date, o, values) ==
    [o |-> o, hours |-> date.hours, values |-> With(values, place, date.value)]

Put(r, place, read) == Placed(place, Dated(read, r.hours), read.o, r.values)

next(parser, fields, typeCast, b) ==
    LET after[i \in 0..Len(fields)] ==
            IF i = 0
            THEN [o |-> FirstValue(parser.proto, Len(fields)), hours |-> hourOffsets, values |-> << >>]
            ELSE LET r == after[i - 1]
                 IN Put(r, parser.steps[i].place,
                        IF IsNull(parser.proto, b, i) THEN At(Null, r.o)
                        ELSE Cast(typeCast, parser.proto, parser.steps[i], fields[i], b, r.o))
    IN after[Len(fields)]

-----------------------------------------------------------------------------
(* What the server sends for a row, in either protocol.  A cell is <<>> for  *)
(* NULL and <<v>> for a value v.                                             *)

ServerFraction(us, decimals) ==
    IF decimals = 0 THEN <<>> ELSE <<Dot>> \o SubSeq(Digits(us, 2), 1, decimals)

ServerText(field, v) ==
    CASE field.type \in IntTypes \union {"LONGLONG"} -> Text(v)
      [] field.type \in {"FLOAT", "DOUBLE", "DECIMAL"} ->
            IF v[2] = 0 THEN Text(v[1])
            ELSE Text(v[1] \div (10 ^ v[2])) \o <<Dot>> \o Digits(v[1] % (10 ^ v[2]), v[2])
      [] field.type = "DATE" -> DateText(v)
      [] field.type \in DateTypes ->
            DateText(v) \o <<Space>> \o ClockText(v) \o ServerFraction(v.us, field.decimals)
      [] field.type = "TIME" -> TimeText(v)
      [] OTHER -> v

ServerDate(v) ==
    CASE v = ZeroDate -> <<0>>
      [] v.us # 0 -> <<11>> \o ToLe(v.y, 2) \o <<v.mo, v.d, v.h, v.mi, v.s>> \o ToLe(v.us, 4)
      [] v.us = 0 /\ v.h + v.mi + v.s # 0 -> <<7>> \o ToLe(v.y, 2) \o <<v.mo, v.d, v.h, v.mi, v.s>>
      [] OTHER -> <<4>> \o ToLe(v.y, 2) \o <<v.mo, v.d>>

ServerTime(t) ==
    LET clock == <<IF t.neg THEN 1 ELSE 0>> \o ToLe(t.days, 4) \o <<t.h, t.mi, t.s>>
    IN CASE t.us # 0 -> <<12>> \o clock \o ToLe(t.us, 4)
         [] t.us = 0 /\ t.days + t.h + t.mi + t.s # 0 -> <<8>> \o clock
         [] OTHER -> <<0>>

ServerBinary(field, v) ==
    CASE field.type = "TINY" -> ToLe(v, 1)
      [] field.type \in {"SHORT", "YEAR"} -> ToLe(v, 2)
      [] field.type \in {"INT24", "LONG"} -> ToLe(v, 4)
      [] field.type = "LONGLONG" -> ToLe(v % Word, 4) \o ToLe(v \div Word, 4)
      [] field.type = "FLOAT" -> ToLe(v[1], 3) \o <<v[2]>>
      [] field.type = "DOUBLE" -> ToLe(v[1], 6) \o <<v[2], 0>>
      [] field.type \in DateTypes -> ServerDate(v)
      [] field.type = "TIME" -> ServerTime(v)
      [] OTHER -> writeLengthCodedBuffer(ServerText(field, v))

ServerRow(proto, fields, cells) ==
    LET Cell(i) == IF proto = "text"
                   THEN IF cells[i] = <<>> THEN <<NullTag>>
                        ELSE writeLengthCodedBuffer(ServerText(fields[i], cells[i][1]))
                   ELSE IF cells[i] = <<>> THEN <<>> ELSE ServerBinary(fields[i], cells[i][1])
        values == FlattenSeq([i \in DOMAIN fields |-> Cell(i)])
    IN IF proto = "text" THEN values
       ELSE <<0>> \o Bitmap([i \in DOMAIN fields |-> cells[i] = <<>>], 2) \o values

-----------------------------------------------------------------------------
(* Columns and queries are well formed, a time zone has one transition, and  *)
(* what the server sends for a row is a sequence of bytes.                   *)
Columns ==
    [name : STRING, table : STRING, type : STRING, charset : STRING, unsigned : BOOLEAN,
     decimals : Nat, format : STRING]

ASSUME RowsAssumption ==
    /\ {MaxParsers, MaxResults} \subseteq Nat /\ MaxCachedHours \in Nat \ {0}
    /\ FirstZone \in DOMAIN Zones
    /\ \A zone \in DOMAIN Zones : Zones[zone] \in [at : Int, before : Int, after : Int]
    /\ \A q \in Queries : q.conn \in Conns /\ q.table \in DOMAIN Tables /\ q.proto \in {"text", "binary"}
    /\ \A name \in DOMAIN Tables :
          /\ Tables[name].cols \in Seq(Columns)
          /\ \A k \in DOMAIN Tables[name].rows, proto \in {"text", "binary"} :
                ServerRow(proto, Tables[name].cols, Tables[name].rows[k]) \in Seq(Nat)

InitRows ==
    /\ parserCache = <<>>
    /\ parserMax = MaxParsers
    /\ TZ = FirstZone
    /\ lastTimezone = FirstZone
    /\ hourOffsets = << >>
    /\ open = [c \in Conns |-> <<>>]
    /\ row = [c \in Conns |-> <<>>]
    /\ results = 0

(* The columns have arrived: the parser of the result set is chosen.         *)
StartResult(q) ==
    LET config == Config[q.conn]
        options == queryOptions(config, q.over)
        fields == Tables[q.table].cols
        got == IF q.static
               THEN [parser |-> staticParser(q.proto, fields, options, config),
                     options |-> options, cache |-> parserCache]
               ELSE getParser(q.proto, fields, options, config)
    IN /\ open[q.conn] = <<>>
       /\ results < MaxResults /\ (results = 0 \/ q \in LaterQueries)
       /\ results' = results + 1
       /\ parserCache' = got.cache
       /\ IF got.parser.checksTimezone THEN checkTimezone ELSE UNCHANGED dateVars
       /\ open' = [open EXCEPT ![q.conn] =
                      <<[query |-> q, parser |-> got.parser, options |-> got.options]>>]
       /\ UNCHANGED <<parserMax, TZ, row>>

(* The rows come in the order of Tables.  b is a row that has come, read     *)
(* what next() makes of it.                                                  *)
RowIs(c, k, b, read) ==
    /\ hourOffsets' = read.hours
    /\ row' = [row EXCEPT ![c] = <<[cells |-> k, values |-> read.values,
                                   left |-> Len(b) + 1 - read.o]>>]

RowComes(c, k, b) ==
    LET result == open[c][1]
    IN  /\ ~isEOF(b)
        /\ RowIs(c, k, b, next(result.parser, Tables[result.query.table].cols,
                               result.options.typeCast, b))

ReadRow(c) ==
    /\ open[c] # <<>>
    /\ LET result == open[c][1]
           table == Tables[result.query.table]
           k == IF row[c] = <<>> THEN 1 ELSE row[c][1].cells + 1
       IN /\ k \in DOMAIN table.rows
          /\ RowComes(c, k, ServerRow(result.query.proto, table.cols, table.rows[k]))
    /\ UNCHANGED <<parserCache, parserMax, TZ, lastTimezone, open, results>>

(* The EOF packet after the rows.                                            *)
EndResult(c) ==
    /\ open[c] # <<>>
    /\ open' = [open EXCEPT ![c] = <<>>]
    /\ row' = [row EXCEPT ![c] = <<>>]
    /\ UNCHANGED <<parserCache, parserMax, TZ, dateVars, results>>

(* The application assigns process.env.TZ, while no rows are being read.     *)
SetTimezone(zone) ==
    /\ Idle /\ zone # TZ
    /\ TZ' = zone
    /\ UNCHANGED <<parserCache, parserMax, dateVars, open, row, results>>

NextRows ==
    \/ \E q \in Queries : StartResult(q)
    \/ \E c \in Conns : ReadRow(c) \/ EndResult(c)
    \/ \E zone \in DOMAIN Zones : SetTimezone(zone)
    \/ \E max \in 1..MaxParsers : setMaxParserCache(max)
    \/ clearParserCache

-----------------------------------------------------------------------------
(* The caches stay within their limits, no hash has two buckets, and a row   *)
(* belongs to a result set that is being read.                               *)
RowsTypeOK ==
    /\ results \in 0..MaxResults
    /\ {TZ, lastTimezone} \subseteq DOMAIN Zones
    /\ Len(parserCache) <= parserMax
    /\ \A i, j \in DOMAIN parserCache : parserCache[i].hash = parserCache[j].hash => i = j
    /\ Cardinality(DOMAIN hourOffsets) <= MaxCachedHours
    /\ \A c \in Conns : row[c] # <<>> => open[c] # <<>>

(* The value a caller is promised for a cell, whatever carried it.           *)
Wanted(field, v, options, config) ==
    LET text == Str(ServerText(field, v))
        w == Wall(v)
        big == supportBigNumbers(options, config)
        zone == options.timezone
        AsText == field.type \in dateStrings(options, config)
    IN CASE options.typeCast \in {"false", "buffer"} -> Buf(text.str)
         [] options.typeCast = "string" -> text
         [] field.type \in IntTypes -> Num(v)
         [] field.type = "LONGLONG" ->
                IF ~big THEN AsNumber(v)
                ELSE IF bigNumberStrings(options, config) THEN Decimal(v \div Word, v % Word)
                ELSE AsExact(v)
         [] field.type \in {"FLOAT", "DOUBLE"} -> Dbl(v)
         [] field.type = "DECIMAL" -> IF config.decimalNumbers THEN Dbl(v) ELSE text
         [] field.type \in DateTypes /\ ~AsText ->
                CASE v = ZeroDate -> Invalid
                  [] zone = "local" -> Instant(<<LocalTime(TZ, w[1]), w[2], w[3]>>)
                  [] OTHER -> Instant(<<w[1] - (IF zone = "Z" THEN 0 ELSE ZoneMinutes[zone]),
                                        w[2], w[3]>>)
         [] field.type = "JSON" \/ field.format = "json" ->
                IF config.jsonStrings THEN text ELSE Json(v)
         [] field.type = "VECTOR" -> [vector |-> [i \in 1..(Len(v) \div 4) |->
                Dbl(<<Complement(Le(SubSeq(v, 4 * i - 3, 4 * i - 1)), 3), v[4 * i]>>)]]
         [] field.type \notin DateTypes \union {"TIME"} /\ field.charset = "binary" -> Buf(v)
         [] OTHER -> text

WantedSlot(options, field, i) ==
    CASE options.rowsAsArray -> Slot(i, "", "", "")
      [] options.nestTables = "no" -> Slot(0, "", "", field.name)
      [] OTHER -> Slot(0, field.table, options.nestTables, field.name)

(* A row holds, at the place of each column, the value that the server has   *)
(* there, converted as the options say; the row is read to its last byte.    *)
(* The same for the four parsers, found in the cache or not: query.js:265    *)
(* hands the row out as it is.                                               *)
RowIsExact ==
    RowsTypeOK /\ \A c \in Conns : row[c] # <<>> =>
        LET q == open[c][1].query
            options == queryOptions(Config[c], q.over)
            fields == Tables[q.table].cols
            cells == Tables[q.table].rows[row[c][1].cells]
        IN /\ row[c][1].left = 0
           /\ row[c][1].values =
                FoldLeft(LAMBDA r, i :
                    (WantedSlot(options, fields[i], i) :>
                        IF cells[i] = <<>> THEN Null
                        ELSE Wanted(fields[i], cells[i][1], options, Config[c])) @@ r,
                    << >>, [i \in DOMAIN fields |-> i])

(* "a hash collision can never hand out a parser compiled for different      *)
(* columns or options" (parser_cache.js:14): what a result set got from the  *)
(* cache is what its own columns and options would have been compiled to.    *)
ParserFits ==
    \A c \in Conns : open[c] # <<>> =>
        LET q == open[c][1].query
            options == queryOptions(Config[c], q.over)
            fields == Tables[q.table].cols
        IN q.static \/ open[c][1].parser =
                compile(q.proto, fields, globalTypeCast(options, Config[c]), Config[c])

(* What the caches hand out is what would be made without them: a parser of *)
(* the columns and options, and for every cached hour the offset that        *)
(* new Date() applies to each of its minutes, in the time zone the cache was *)
(* last checked for (local_date.js:32, 71).                                  *)
CachesFit ==
    /\ ParserFits
    /\ \A hour \in DOMAIN hourOffsets : hourOffsets[hour] # Transition =>
          \A minute \in (hour * MinutesPerHour)..((hour + 1) * MinutesPerHour - 1) :
              LocalTime(lastTimezone, minute) = minute - hourOffsets[hour]

=============================================================================

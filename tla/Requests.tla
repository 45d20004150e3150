------------------------------ MODULE Requests ------------------------------
(* How parameters reach the server: COM_QUERY and COM_STMT_EXECUTE with      *)
(* their NULL bitmaps, types and values (packets/query.js, execute.js,       *)
(* encode_parameter.js, typed_parameter.js).  Each request counts the bytes  *)
(* it is going to write before it writes them.                               *)
(*                                                                           *)
(* JavaScript values have one field, as in Packet: num (an integer), dbl (a  *)
(* number that is not one), bigint, bool, str, buf, json (an object, by its  *)
(* text), date (an instant), null, undefined, or typed, value and unsigned   *)
(* for a TypedParameter.  The server's reading of a request is external.     *)
EXTENDS Values

CONSTANTS
    Requests,        \* [command, id, sql, params, hints, attributes, useAttributes,
                     \*  timezone, jsonAsString]: what connections may send
    LocalMinutes     \* the offset of the local time zone

VARIABLE sent        \* <<>>, or <<the last request: [request, packet]>>

TypeCode ==
    [type \in {"DECIMAL", "TINY", "SHORT", "LONG", "FLOAT", "DOUBLE", "NULL", "TIMESTAMP", "LONGLONG",
               "DATE", "TIME", "DATETIME", "JSON", "VAR_STRING", "STRING", "BLOB"} |->
        CASE type = "DECIMAL" -> 0 [] type = "TINY" -> 1 [] type = "SHORT" -> 2 [] type = "LONG" -> 3
          [] type = "FLOAT" -> 4 [] type = "DOUBLE" -> 5 [] type = "NULL" -> 6
          [] type = "TIMESTAMP" -> 7 [] type = "LONGLONG" -> 8 [] type = "DATE" -> 10
          [] type = "TIME" -> 11 [] type = "DATETIME" -> 12 [] type = "JSON" -> 14
          [] type = "VAR_STRING" -> 15 [] type = "STRING" -> 16 [] type = "BLOB" -> 17]

STMT_EXECUTE == 13
QUERY == 3

Is(v, kind) == kind \in DOMAIN v

-----------------------------------------------------------------------------
(* Parameters.  An encoder returns <<>> for an exception.                    *)

Parameter(type, unsigned, isNull, length, bytes) ==
    <<[type |-> type, unsigned |-> unsigned, isNull |-> isNull, length |-> length,
       bytes |-> bytes]>>

Encoded(type, unsigned, length, bytes) == Parameter(type, unsigned, FALSE, length, bytes)

LengthCodedParameter(type, s) ==
    Encoded(type, FALSE, lengthCodedNumberLength(Len(s)) + Len(s), writeLengthCodedBuffer(s))

INTEGER_BYTES ==
    [type \in {"TINY", "SHORT", "YEAR", "INT24", "LONG", "LONGLONG"} |->
        CASE type = "TINY" -> 1 [] type \in {"SHORT", "YEAR"} -> 2
          [] type \in {"INT24", "LONG"} -> 4 [] type = "LONGLONG" -> 8]

TEMPORAL_TYPES == {"DATE", "DATETIME", "TIMESTAMP"}

WIRE_TYPE ==
    [type \in {"INT24", "YEAR", "ENUM", "SET", "VECTOR"} |->
        CASE type = "INT24" -> "LONG" [] type = "YEAR" -> "SHORT" [] type \in {"ENUM", "SET"} -> "STRING"
          [] type = "VECTOR" -> "BLOB"]

HINT_UPGRADABLE == {"TINY", "SHORT", "LONG", "LONGLONG"}

LENGTH_CODED == {"DECIMAL", "VAR_STRING", "STRING", "ENUM", "SET", "VECTOR", "BLOB"}

wireType(type, jsonAsString) ==
    CASE type = "JSON" /\ jsonAsString -> "VAR_STRING"
      [] type \in DOMAIN WIRE_TYPE -> WIRE_TYPE[type]
      [] OTHER -> type

Safe(n) == IsSafe(n \div Word, n % Word)

(* BigInt(): digits with a sign; an empty string is zero.                    *)
IsDigits(s) == \A i \in DOMAIN s : s[i] < 10 \/ (i = 1 /\ Len(s) > 1 /\ s[1] \in {Minus, Plus})

toInteger(v) ==
    CASE Is(v, "bigint") -> <<v.bigint>>
      [] Is(v, "bool") -> <<IF v.bool THEN 1 ELSE 0>>
      [] Is(v, "num") -> IF Safe(v.num) THEN <<v.num>> ELSE <<>>
      [] Is(v, "str") -> IF v.str = <<>> THEN <<0>>
                         ELSE IF IsDigits(v.str) THEN <<SignOf(v.str) * Natural(Body(v.str))>>
                         ELSE <<>>
      [] OTHER -> <<>>

(* No integer of the model needs more than eight bytes.                      *)
Fits(n, bytes, unsigned) ==
    /\ unsigned => n >= 0
    /\ bytes < 8 => IF unsigned THEN n < Byte ^ bytes
                    ELSE 2 * n >= -(Byte ^ bytes) /\ 2 * n < Byte ^ bytes

(* An encoder goes on with what a conversion returned, unless it threw.      *)
Unless(threw, Encoder(_)) == IF threw = <<>> THEN <<>> ELSE Encoder(threw[1])

checkedInteger(v, type, unsigned) ==
    Unless(toInteger(v), LAMBDA n : IF Fits(n, INTEGER_BYTES[type], unsigned) THEN <<n>> ELSE <<>>)

Typed(type, v, unsigned) == [typed |-> type, value |-> v, unsigned |-> unsigned]

(* Faulty: the type of the placeholder is taken for any integer.             *)
integerHintAny(v, type, unsigned) ==
    LET n == IF Is(v, "bigint") \/ Is(v, "bool") \/ Is(v, "num") THEN toInteger(v) ELSE <<>>
    IN IF type \in HINT_UPGRADABLE /\ n # <<>>
       THEN <<Typed(type, [bigint |-> n[1]], unsigned)>> ELSE <<>>

(* The type of the placeholder is taken only for an integer that fits it.    *)
integerHint(v, type, unsigned) ==
    LET n == IF Is(v, "bigint") \/ Is(v, "bool") \/ Is(v, "num") THEN toInteger(v) ELSE <<>>
    IN IF type \in HINT_UPGRADABLE /\ n # <<>> /\ Fits(n[1], INTEGER_BYTES[type], unsigned)
       THEN <<Typed(type, [bigint |-> n[1]], unsigned)>> ELSE <<>>

IntegerBytes(n, bytes) ==
    IF bytes = 8 THEN ToLe(n % Word, 4) \o ToLe(n \div Word, 4) ELSE ToLe(n, bytes)

integerEncoder(v, type, unsigned) ==
    Unless(checkedInteger(v, type, unsigned), LAMBDA n :
        Encoded(type, unsigned, INTEGER_BYTES[type], IntegerBytes(n, INTEGER_BYTES[type])))

(* Mantissa and decimals of a number; a float has fewer bytes of mantissa.   *)
Mantissa(v) == IF Is(v, "dbl") THEN v.dbl ELSE <<v.num, 0>>
writeDouble(v) == ToLe(Mantissa(v)[1], 6) \o <<Mantissa(v)[2], 0>>
writeFloat(v) == ToLe(Mantissa(v)[1], 3) \o <<Mantissa(v)[2]>>

(* A value that is no Date here is one that does not parse as a date.        *)
temporalEncoder(v, type, timezone) ==
    IF ~Is(v, "date") THEN <<>>
    ELSE Encoded(type, FALSE, 12, writeDate(v.date, timezone, LocalMinutes))

Clock(neg, hours, mi, s, us) ==
    [neg |-> neg, days |-> hours \div HoursPerDay, h |-> hours % HoursPerDay, mi |-> mi, s |-> s,
     us |-> us]

(* Milliseconds, ten to a second, or [-]hh:mm:ss[.f] with two-digit fields.  *)
IsTime(s) ==
    /\ Len(s) \in {8, 10} /\ s[3] = Colon /\ s[6] = Colon /\ (Len(s) = 10 => s[9] = Dot)
    /\ \A i \in DOMAIN s \ {3, 6, 9} : s[i] < 10

toTimeParts(v) ==
    IF Is(v, "num")
    THEN LET ms == IF v.num < 0 THEN -v.num ELSE v.num
             seconds == ms \div 10
         IN <<Clock(v.num < 0, seconds \div (60 * MinutesPerHour), (seconds \div 60) % MinutesPerHour,
                    seconds % 60, (ms % 10) * UsPerMs)>>
    ELSE LET s == IF Is(v, "str") THEN v.str ELSE <<>>
             neg == s # <<>> /\ s[1] = Minus
             body == IF neg THEN Tail(s) ELSE s
             two(i) == Natural(SubSeq(body, i, i + 1))
         IN IF ~IsTime(body) THEN <<>>
            ELSE <<Clock(neg, two(1), two(4), two(7), IF Len(body) = 10 THEN 10 * body[10] ELSE 0)>>

timeEncoder(v) ==
    Unless(toTimeParts(v), LAMBDA t : Encoded("TIME", FALSE, timeLength(t), writeTime(t)))

(* String(value)                                                             *)
TextOf(v) ==
    CASE Is(v, "str") -> v.str [] Is(v, "buf") -> v.buf [] Is(v, "json") -> v.json
      [] Is(v, "num") -> Text(v.num) [] Is(v, "bigint") -> Text(v.bigint)

lengthCodedEncoder(v, type) == LengthCodedParameter(type, TextOf(v))
jsonEncoder(v) == LengthCodedParameter("JSON", TextOf(v))

encoderFor(v, type, unsigned, timezone) ==
    CASE type \in DOMAIN INTEGER_BYTES -> integerEncoder(v, type, unsigned)
      [] type = "DOUBLE" -> Encoded(type, unsigned, 8, writeDouble(v))
      [] type = "FLOAT" -> Encoded(type, unsigned, 4, writeFloat(v))
      [] type \in TEMPORAL_TYPES -> temporalEncoder(v, type, timezone)
      [] type = "TIME" -> timeEncoder(v)
      [] type = "JSON" -> jsonEncoder(v)
      [] type \in LENGTH_CODED -> lengthCodedEncoder(v, type)
      [] OTHER -> <<>>

encodeTypedParameter(p, timezone, jsonAsString) ==
    IF p.value = Null \/ p.typed = "NULL"
    THEN Parameter(wireType(p.typed, jsonAsString), p.unsigned, TRUE, 0, <<>>)
    ELSE Unless(encoderFor(p.value, p.typed, p.unsigned, timezone), LAMBDA encoded :
            <<[encoded EXCEPT !.type = wireType(p.typed, jsonAsString), !.unsigned = p.unsigned]>>)

(* The type of a value that does not come with one is guessed.               *)
Guessed(v, timezone, jsonAsString) ==
    CASE Is(v, "undefined") -> <<>>
      [] Is(v, "null") -> Parameter("NULL", FALSE, TRUE, 0, <<>>)
      [] Is(v, "num") \/ Is(v, "dbl") -> Encoded("DOUBLE", FALSE, 8, writeDouble(v))
      [] Is(v, "bool") -> Encoded("TINY", FALSE, 1, <<IF v.bool THEN 1 ELSE 0>>)
      [] Is(v, "date") -> Encoded("DATETIME", FALSE, 12, writeDate(v.date, timezone, LocalMinutes))
      [] Is(v, "json") -> LengthCodedParameter(IF jsonAsString THEN "VAR_STRING" ELSE "JSON", v.json)
      [] Is(v, "buf") -> LengthCodedParameter("BLOB", v.buf)
      [] OTHER -> LengthCodedParameter("VAR_STRING", TextOf(v))

(* Parameters and attributes; hint is <<>> or <<the placeholder's type>>.    *)
Hinted(v, hint) ==
    CASE Is(v, "typed") -> <<v>>
      [] ~Is(v, "typed") /\ hint # <<>> -> integerHint(v, hint[1].type, hint[1].unsigned)
      [] OTHER -> <<>>

toParameter(v, timezone, jsonAsString, hint) ==
    IF Hinted(v, hint) = <<>> THEN Guessed(v, timezone, jsonAsString)
    ELSE encodeTypedParameter(Hinted(v, hint)[1], timezone, jsonAsString)

-----------------------------------------------------------------------------
(* Packets: without their header of four bytes.  A packet is its bytes and   *)
(* the length computed for it.                                               *)

(* Faulty: the last byte is written even if it has no bit.                   *)
WrittenBitmapRounded(params) ==
    LET n == Len(params)
        Bit(i) == IF i <= n /\ params[i].isNull THEN 2 ^ ((i - 1) % Bits) ELSE 0
    IN [k \in 1..((n \div Bits) + 1) |-> Bit(Bits * k - 2) + Bit(Bits * k - 1) + Bit(Bits * k)]

(* The bits are collected in a byte, which is written when it is full and,   *)
(* when a bit is left over, at the end.                                      *)
WrittenBitmap(params) ==
    LET n == Len(params)
        Bit(i) == IF i <= n /\ params[i].isNull THEN 2 ^ ((i - 1) % Bits) ELSE 0
    IN [k \in 1..((n \div Bits) + (IF n % Bits = 0 THEN 0 ELSE 1)) |->
            Bit(Bits * k - 2) + Bit(Bits * k - 1) + Bit(Bits * k)]

Unsigned0x80(param) == IF param.unsigned THEN 1 ELSE 0

Joined(n, Part(_)) == FlattenSeq([i \in 1..n |-> Part(i)])
Total(sizes) ==
    LET sum[i \in 0..Len(sizes)] == IF i = 0 THEN 0 ELSE sum[i - 1] + sizes[i] IN sum[Len(sizes)]

ValueLength(param) == IF param.isNull THEN 0 ELSE param.length
ValueBytes(param) == IF param.isNull THEN <<>> ELSE param.bytes

(* No packet is made when one of the values threw.                           *)
AllEncoded(encoded, Packet(_)) ==
    IF \E i \in DOMAIN encoded : encoded[i] = <<>> THEN <<>>
    ELSE Packet([i \in DOMAIN encoded |-> encoded[i][1]])

(* COM_QUERY: the attributes are parameters with a name, before the text.    *)
PlainQuery(r) ==
    <<[bytes |-> <<QUERY>> \o (IF r.useAttributes THEN <<0, 1>> ELSE <<>>) \o r.sql,
       length |-> (IF r.useAttributes THEN 3 ELSE 1) + Len(r.sql)]>>

QueryPacket(r, params) ==
    LET n == Len(params)
        Name(i) == r.attributes[i].name
    IN  <<[bytes |-> <<QUERY>> \o writeLengthCodedNumber(n) \o writeLengthCodedNumber(1)
                     \o WrittenBitmap(params) \o <<1>>
                     \o Joined(n, LAMBDA i : <<TypeCode[params[i].type], Unsigned0x80(params[i])>>
                                             \o writeLengthCodedBuffer(Name(i)))
                     \o Joined(n, LAMBDA i : ValueBytes(params[i])) \o r.sql,
           length |-> 1 + lengthCodedNumberLength(n) + 1 + BitmapLength(n) + 1 + n * 2
                      + Total([i \in 1..n |-> lengthCodedStringLength(Name(i)) + ValueLength(params[i])])
                      + Len(r.sql)]>>

queryToPacket(r) ==
    IF ~r.useAttributes \/ r.attributes = <<>> THEN PlainQuery(r)
    ELSE AllEncoded([i \in DOMAIN r.attributes |->
                        toParameter(r.attributes[i].value, "local", FALSE, <<>>)],
                    LAMBDA params : QueryPacket(r, params))

(* COM_STMT_EXECUTE: the parameters, then the attributes.                    *)
PARAMETER_COUNT_AVAILABLE == 8

ExecutePacket(r, params) ==
    LET n == Len(params)
        numParams == Len(r.params)
        Name(i) == r.attributes[i - numParams].name
        NameBytes(i) == IF ~r.useAttributes THEN <<>>
                        ELSE IF i <= numParams THEN <<0>> ELSE writeLengthCodedBuffer(Name(i))
        NameLength(i) == IF ~r.useAttributes THEN 0
                         ELSE IF i <= numParams THEN 1 ELSE lengthCodedStringLength(Name(i))
    IN <<[bytes |-> <<STMT_EXECUTE>> \o ToLe(r.id, 4)
                    \o <<IF r.useAttributes THEN PARAMETER_COUNT_AVAILABLE ELSE 0>> \o ToLe(1, 4)
                    \o (IF r.useAttributes THEN writeLengthCodedNumber(n) ELSE <<>>)
                    \o (IF n = 0 THEN <<>> ELSE WrittenBitmap(params) \o <<1>>)
                    \o Joined(n, LAMBDA i : <<TypeCode[params[i].type], Unsigned0x80(params[i])>>
                                            \o NameBytes(i))
                    \o Joined(n, LAMBDA i : ValueBytes(params[i])),
          length |-> 10 + (IF r.useAttributes THEN lengthCodedNumberLength(n) ELSE 0)
                     + (IF n = 0 THEN 0 ELSE BitmapLength(n) + 1 + n * 2)
                     + Total([i \in 1..n |-> NameLength(i) + ValueLength(params[i])])]>>

executeToPacket(r) ==
    AllEncoded([i \in DOMAIN r.params |->
                   toParameter(r.params[i], r.timezone, r.jsonAsString, r.hints[i])]
               \o (IF ~r.useAttributes THEN <<>>
                   ELSE [i \in DOMAIN r.attributes |->
                            toParameter(r.attributes[i].value, r.timezone, FALSE, <<>>)]),
               LAMBDA params : ExecutePacket(r, params))

toPacket(r) == IF r.command = "query" THEN queryToPacket(r) ELSE executeToPacket(r)

(* What an application may give: values of one of the kinds, and the typed   *)
(* parameters that the factories of typed_parameter.js make.                 *)
Kinds == {"num", "dbl", "bigint", "bool", "str", "buf", "json", "date", "null", "undefined"}

IsValue(v) ==
    /\ \E kind \in Kinds : DOMAIN v = {kind}
    /\ Is(v, "num") => v.num \in Int
    /\ Is(v, "bigint") => v.bigint \in Int
    /\ Is(v, "str") => v.str \in Seq(Nat)

SUPPORTED ==
    DOMAIN INTEGER_BYTES \union TEMPORAL_TYPES \union LENGTH_CODED
    \union {"FLOAT", "DOUBLE", "TIME", "JSON", "NULL"}

IsParameter(v) ==
    IF Is(v, "typed") THEN v.typed \in SUPPORTED /\ v.unsigned \in BOOLEAN /\ IsValue(v.value)
    ELSE IsValue(v)

IsList(s) == Len(s) \in Nat /\ DOMAIN s = 1..Len(s) /\ s = [i \in DOMAIN s |-> s[i]]

ASSUME RequestsAssumption ==
    \A r \in Requests :
        /\ r.command \in {"query", "execute"} /\ r.useAttributes \in BOOLEAN
        /\ IsList(r.params) /\ \A i \in DOMAIN r.params : IsParameter(r.params[i])
        /\ IsList(r.attributes)
        /\ \A i \in DOMAIN r.attributes : IsParameter(r.attributes[i].value)

(* What the scaled widths hold: the mantissas and integers of numbers, texts *)
(* whose length is a number, and the dates that the calendar has in every    *)
(* time zone.                                                                *)
InMantissa(n, bytes) == n \in Int /\ 2 * n >= -(Byte ^ bytes) /\ 2 * n < Byte ^ bytes
InInteger(n) == n \in Int /\ n \div Word \in -(Word \div 4)..((Word \div 4) - 1)
IsText(s) == s \in Seq(Nat) /\ Len(s) < SafeWord * Word

Years == Byte ^ 2

InCalendar(w) ==
    /\ w = <<w[1], w[2], w[3]>> /\ w[1] \in Int /\ w[2] \in Nat /\ w[3] \in 0..(UsPerMs - 1)
    /\ \A minutes \in {0, LocalMinutes} \union {ZoneMinutes[zone] : zone \in DOMAIN ZoneMinutes} :
          w[1] + minutes \in 0..(Years * 4 * HoursPerDay * MinutesPerHour - 1)

IsHeld(v) ==
    /\ Is(v, "num") => InMantissa(v.num, 6)
    /\ Is(v, "dbl") => v.dbl \in Int \X Nat /\ InMantissa(v.dbl[1], 6)
    /\ Is(v, "bigint") => InInteger(v.bigint)
    /\ Is(v, "str") => IsText(v.str)
    /\ Is(v, "buf") => IsText(v.buf)
    /\ Is(v, "json") => IsText(v.json)
    /\ Is(v, "date") => InCalendar(v.date)
    /\ Is(v, "null") => v = Null

(* For a typed value also that it has what the encoder of its type asks for. *)
IsHeldAs(type, v) ==
    /\ type # "NULL"
    /\ type \in DOMAIN INTEGER_BYTES /\ Is(v, "str") /\ IsDigits(v.str) => InInteger(Integer(v.str))
    /\ type \in {"DOUBLE", "FLOAT"} => Is(v, "num") \/ Is(v, "dbl")
    /\ type = "FLOAT" => InMantissa(Mantissa(v)[1], 3)
    /\ type \in LENGTH_CODED \union {"JSON"} =>
          \E kind \in {"str", "buf", "json", "num", "bigint"} : Is(v, kind)

IsHeldParameter(v) ==
    IF Is(v, "typed") THEN IsHeld(v.value) /\ (v.value = Null \/ IsHeldAs(v.typed, v.value))
    ELSE IsHeld(v)

ASSUME ValuesAssumption ==
    /\ LocalMinutes \in Int
    /\ \A r \in Requests :
        /\ r.id \in 0..(Word - 1) /\ r.sql \in Seq(Nat) /\ r.jsonAsString \in BOOLEAN
        /\ r.timezone \in {"local", "Z"} \union DOMAIN ZoneMinutes
        /\ Len(r.params) + Len(r.attributes) < SafeWord * Word
        /\ \A i \in DOMAIN r.params : IsHeldParameter(r.params[i])
        /\ r.command = "execute" => \A i \in DOMAIN r.params :
              r.hints[i] # <<>> => r.hints[i][1].unsigned \in BOOLEAN
        /\ \A i \in DOMAIN r.attributes :
              IsHeldParameter(r.attributes[i].value) /\ IsText(r.attributes[i].name)

InitRequests == sent = <<>>

(* An exception leaves the packet out; Execute calls back with it.           *)
Send(r) == sent = <<>> /\ sent' = <<[request |-> r, packet |-> toPacket(r)]>>

-----------------------------------------------------------------------------
(* The server's reading of a request, from the documented protocol.          *)

ServerDateParts(b, o) == DateParts(b, o + 1, b[o])

TotalTime(neg, hours, mi, s, us) ==
    (IF neg THEN -1 ELSE 1) * (((hours * MinutesPerHour + mi) * 60 + s) * 100 + us)

ServerTimeValue(b, o) ==
    IF b[o] = 0 THEN 0
    ELSE TotalTime(b[o + 1] = 1, Le(Bytes(b, o + 2, 4)) * HoursPerDay + b[o + 6], b[o + 7], b[o + 8],
                   IF b[o] = 12 THEN Le(Bytes(b, o + 9, 4)) ELSE 0)

(* The value of a parameter of a type that starts at b[o].                   *)
ServerValue(type, unsigned, timezone, b, o) ==
    LET Whole(width) == At([number |-> <<IF unsigned THEN Le(Bytes(b, o, width))
                                         ELSE Complement(Le(Bytes(b, o, width)), width), 0>>],
                           o + width)
        string == readLengthCodedString(b, o)
        p == ServerDateParts(b, o)
    IN CASE type = "TINY" -> Whole(1)
         [] type = "SHORT" -> Whole(2)
         [] type = "LONG" -> Whole(4)
         [] type = "LONGLONG" ->
                At([number |-> <<Complement(Le(Bytes(b, o + 4, 4)), 4) * Word + Le(Bytes(b, o, 4)), 0>>],
                   o + 8)
         [] type = "DOUBLE" -> At([number |-> readDouble(b, o).v.dbl], o + 8)
         [] type = "FLOAT" -> At([number |-> readFloat(b, o).v.dbl], o + 4)
         [] type \in TEMPORAL_TYPES ->
                At(IF timezone = "local" THEN Instant(Shift(Wall(p), -LocalMinutes))
                   ELSE InZone(p, timezone), o + 1 + b[o])
         [] type = "TIME" -> At([time |-> ServerTimeValue(b, o)], o + 1 + b[o])
         [] type = "JSON" -> At(Json(string.v.str), string.o)
         [] type = "BLOB" -> At(Buf(string.v.str), string.o)
         [] OTHER -> string

ServerType(code) == CHOOSE type \in DOMAIN TypeCode : TypeCode[type] = code

(* Bitmap, flag, types with names if the request has them, values.           *)
ServerParams(b, o, n, named, timezone) ==
    LET types[i \in 0..n] ==
            IF i = 0 THEN [list |-> <<>>, o |-> o + BitmapLength(n) + 1]
            ELSE LET before == types[i - 1]
                     name == IF named THEN readLengthCodedString(b, before.o + 2)
                             ELSE At(Str(<<>>), before.o + 2)
                 IN [list |-> Append(before.list, [type |-> ServerType(b[before.o]),
                                                   unsigned |-> b[before.o + 1] = 1,
                                                   name |-> name.v.str]),
                     o |-> name.o]
        values[i \in 0..n] ==
            IF i = 0 THEN [list |-> <<>>, o |-> types[n].o]
            ELSE LET before == values[i - 1]
                     t == types[n].list[i]
                     v == IF BitSet(b[o + ((i - 1) \div Bits)], (i - 1) % Bits) THEN At(Null, before.o)
                          ELSE ServerValue(t.type, t.unsigned, timezone, b, before.o)
                 IN [list |-> Append(before.list, [name |-> t.name, value |-> v.v]), o |-> v.o]
    IN values[n]

-----------------------------------------------------------------------------
(* What an application means by a value.                                     *)
TextTime(s) ==
    LET neg == s[1] = Minus
        t == IF neg THEN Tail(s) ELSE s
        two(i) == 10 * t[i] + t[i + 1]
    IN TotalTime(neg, two(1), two(4), two(7), IF Len(t) = 10 THEN 10 * t[10] ELSE 0)

Meant(v, jsonAsString) ==
    LET x == IF Is(v, "typed") THEN v.value ELSE v
        integer == CASE Is(x, "num") -> x.num [] Is(x, "bigint") -> x.bigint
                     [] Is(x, "bool") -> (IF x.bool THEN 1 ELSE 0)
                     [] OTHER -> Integer(x.str)
        type == IF Is(v, "typed") THEN v.typed ELSE
                CASE Is(v, "date") -> "DATETIME"
                  [] Is(v, "num") \/ Is(v, "dbl") \/ Is(v, "bigint") \/ Is(v, "bool") -> "DOUBLE"
                  [] Is(v, "json") -> "JSON" [] Is(v, "buf") -> "BLOB" [] OTHER -> "STRING"
    IN IF x = Null THEN Null ELSE
       CASE type \in DOMAIN INTEGER_BYTES \/ (type \in {"DOUBLE", "FLOAT"} /\ ~Is(x, "dbl")) ->
                [number |-> <<integer, 0>>]
         [] type \in {"DOUBLE", "FLOAT"} /\ Is(x, "dbl") -> [number |-> x.dbl]
         [] type \in TEMPORAL_TYPES -> Instant(x.date)
         [] type = "TIME" -> [time |-> IF Is(x, "num") THEN 10 * x.num ELSE TextTime(x.str)]
         [] type = "JSON" /\ ~jsonAsString -> Json(TextOf(x))
         [] type \in {"BLOB", "VECTOR"} -> Buf(TextOf(x))
         [] OTHER -> Str(TextOf(x))

(* The server gets what was meant; an integer of more than a number may go   *)
(* as its digits.                                                            *)
Conveys(got, v, jsonAsString) ==
    \/ got = Meant(v, jsonAsString)
    \/ Is(v, "bigint") /\ got = Str(Text(v.bigint))

(* The server reads from a request the values and the names the application  *)
(* gave, NULLs where they were, in the types it was told, and nothing is     *)
(* left over: parameters are bound by position only.  The request has the    *)
(* length that was computed before it was written: "Internal error: ...      *)
(* serialized n bytes, expected m" is never thrown (query.js:141).           *)
ServerUnderstands ==
    sent # <<>> /\ sent[1].packet # <<>> =>
        LET r == sent[1].request
            b == sent[1].packet[1].bytes
            query == r.command = "query"
            attributes == IF r.useAttributes THEN r.attributes ELSE <<>>
            params == (IF query THEN <<>>
                       ELSE [i \in DOMAIN r.params |-> [name |-> <<>>, value |-> r.params[i]]])
                      \o attributes
            n == Len(params)
            count == IF query THEN 2 ELSE 11
            start == (IF r.useAttributes THEN readLengthCodedNumber(b, count).o ELSE count)
                     + (IF query /\ r.useAttributes THEN 1 ELSE 0)
            read == IF n = 0 THEN [list |-> <<>>, o |-> start]
                    ELSE ServerParams(b, start, n, r.useAttributes,
                                      IF query THEN "local" ELSE r.timezone)
        IN /\ b[1] = (IF query THEN QUERY ELSE STMT_EXECUTE)
           /\ r.useAttributes => readLengthCodedNumber(b, count).v = Num(n)
           /\ \A i \in 1..n :
                /\ read.list[i].name = params[i].name
                /\ Conveys(read.list[i].value, params[i].value,
                           r.jsonAsString /\ ~query /\ i <= Len(r.params))
           /\ SubSeq(b, read.o, Len(b)) = (IF query THEN r.sql ELSE <<>>)
           /\ ~query => Le(Bytes(b, 2, 4)) = r.id
           /\ Len(b) = sent[1].packet[1].length

(* A value that no byte sequence conveys in the type that was asked for.     *)
Unsendable(v) ==
    IF ~Is(v, "typed") THEN Is(v, "undefined")
    ELSE v.value # Null /\
         CASE v.typed \in DOMAIN INTEGER_BYTES ->
                \/ ~(Is(v.value, "num") \/ Is(v.value, "bigint") \/ Is(v.value, "bool")
                     \/ (Is(v.value, "str") /\ IsDigits(v.value.str)))
                \/ LET n == toInteger(v.value)
                       all == Byte ^ INTEGER_BYTES[v.typed]
                   IN n = <<>> \/ (v.unsigned /\ n[1] < 0)
                      \/ (v.typed # "LONGLONG" /\ v.unsigned /\ n[1] >= all)
                      \/ (v.typed # "LONGLONG" /\ ~v.unsigned /\ n[1] \notin -(all \div 2)..((all \div 2) - 1))
           [] v.typed \in TEMPORAL_TYPES -> ~Is(v.value, "date")
           [] v.typed = "TIME" -> ~Is(v.value, "num") /\ toTimeParts(v.value) = <<>>
           [] OTHER -> FALSE

(* A request is refused, with an exception, just when one of its values      *)
(* cannot be sent: the type a server reports for a placeholder never makes a *)
(* statement fail (typed_parameter.js:29), and nothing is truncated.         *)
RefusedForCause ==
    sent # <<>> =>
        LET r == sent[1].request
        IN sent[1].packet = <<>> <=>
            \/ r.command = "execute" /\ \E i \in DOMAIN r.params : Unsendable(r.params[i])
            \/ r.useAttributes /\ \E i \in DOMAIN r.attributes : Unsendable(r.attributes[i].value)

=============================================================================

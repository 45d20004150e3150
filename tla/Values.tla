------------------------------- MODULE Values -------------------------------
(* How packets/packet.js turns the bytes of a column or a parameter into a   *)
(* JavaScript value: numbers written as text, dates and times of the text    *)
(* and of the binary protocol, and the dates and times it writes itself.     *)
(*                                                                           *)
(* The limits of the number parsers are scaled with Packet (SafeWord * Word  *)
(* has seven digits).  A calendar of two months of two days, days of three   *)
(* hours of four minutes and two-digit fractions keeps the carries of the    *)
(* real one.  A time zone is "local", "Z" or a fixed offset.                *)
EXTENDS Packet

(* Characters of a text: a digit is its value.                               *)
Minus == 10
Plus == 11
Dot == 12
Colon == 13
Space == 14
Exponent == 15

Digits(n, width) == [i \in 1..width |-> (n \div (10 ^ (width - i))) % 10]

Width(n) == CHOOSE w \in 1..10 : n < 10 ^ w /\ (w = 1 \/ n >= 10 ^ (w - 1))

(* The text of an integer, as the server writes it.                          *)
Text(n) == IF n < 0 THEN <<Minus>> \o Digits(-n, Width(-n)) ELSE Digits(n, Width(n))

Natural(s) ==
    LET value[i \in 0..Len(s)] == IF i = 0 THEN 0 ELSE 10 * value[i - 1] + s[i]
    IN value[Len(s)]

(* An integer with or without a sign.                                        *)
Integer(s) ==
    IF s = <<>> THEN 0
    ELSE IF s[1] = Minus THEN -Natural(Tail(s)) ELSE IF s[1] = Plus THEN Natural(Tail(s)) ELSE Natural(s)

-----------------------------------------------------------------------------
(* Numbers of the text protocol.  NumberDigits stands for 14 (from there     *)
(* Number() reads the text); with supportBigNumbers a text of any length is  *)
(* a number just when that number is safe.                                   *)

NumberDigits == 5
FloatDigits == 6                     \* 17

Rational(m, e) == Dbl(<<m, e>>)

(* A JavaScript number for the integer n; and the same for a caller that     *)
(* keeps the digits of what a number does not hold.                          *)
AsNumber(n) == Double(n \div Word, n % Word)
AsExact(n) == Exact(n \div Word, n % Word)

(* The digits after an optional sign; a plus sign is skipped.                *)
Body(s) == IF s # <<>> /\ s[1] \in {Minus, Plus} THEN Tail(s) ELSE s
SignOf(s) == IF s[1] = Minus THEN -1 ELSE 1

ParseInt(s, supportBigNumbers) ==
    IF s = <<>> THEN Num(0)
    ELSE LET n == SignOf(s) * Natural(Body(s))
         IN IF Len(s) >= NumberDigits /\ ~supportBigNumbers THEN AsNumber(n)
            ELSE IF supportBigNumbers THEN AsExact(n) ELSE Num(n)

(* Above the safe integers the digits are summed in floating point.          *)
ParseIntNoBigCheck(s) == IF s = <<>> THEN Num(0) ELSE AsNumber(SignOf(s) * Natural(Body(s)))

(* Mantissa and number of decimals of a text without exponent.               *)
ParseManually(s) ==
    LET body == Body(s)
        point == SelectInSeq(body, LAMBDA c : c = Dot)
        decimals == IF point = 0 THEN 0 ELSE Len(body) - point
    IN Rational(SignOf(s) * Natural(SelectSeq(body, LAMBDA c : c # Dot)), decimals)

(* Number.parseFloat(), of the JavaScript engine.                            *)
BuiltinParseFloat(s) ==
    LET e == SelectInSeq(s, LAMBDA c : c = Exponent)
    IN IF e = 0 THEN ParseManually(s)
       ELSE LET d == ParseManually(SubSeq(s, 1, e - 1)).dbl
                x == Integer(SubSeq(s, e + 1, Len(s)))
            IN IF x >= d[2] THEN Rational(d[1] * 10 ^ (x - d[2]), 0) ELSE Rational(d[1], d[2] - x)

ParseFloat(s) ==
    IF s = <<>> THEN Rational(0, 0)
    ELSE IF Len(s) > FloatDigits \/ Exponent \in ToSet(s) THEN BuiltinParseFloat(s)
    ELSE ParseManually(s)

parseLengthCodedIntNoBigCheck(b, o) == Counted(b, o, ParseIntNoBigCheck)
parseLengthCodedInt(b, o, supportBigNumbers) ==
    Counted(b, o, LAMBDA s : ParseInt(s, supportBigNumbers))
(* The digits as they came.                                                  *)
parseLengthCodedIntString(b, o) ==
    Counted(b, o, LAMBDA s : Decimal(Integer(s) \div Word, Integer(s) % Word))
parseLengthCodedFloat(b, o) == Counted(b, o, ParseFloat)

(* A NULL has no length: no element is read and the vector is empty.         *)
VectorAfter(b, len) ==
    LET size == IF len.v = Null THEN 0 ELSE len.v.num
    IN IF len.v # Null /\ "num" \notin DOMAIN len.v THEN At(Garbage, len.o)
       ELSE At([vector |-> [i \in 1..(size \div 4) |-> readFloat(b, len.o + 4 * (i - 1)).v]],
               len.o + size)

parseVector(b, o) == VectorAfter(b, readLengthCodedNumber(b, o))

-----------------------------------------------------------------------------
(* Dates.  Wall is the instant at which a clock in UTC shows these parts.    *)

MinutesPerHour == 4
HoursPerDay == 3
UsPerMs == 10

Parts(y, mo, d, h, mi, s, us) ==
    [y |-> y, mo |-> mo, d |-> d, h |-> h, mi |-> mi, s |-> s, us |-> us]

ZeroDate == Parts(0, 0, 0, 0, 0, 0, 0)

Wall(p) ==
    <<((((p.y * 2 + p.mo - 1) * 2 + p.d - 1) * HoursPerDay) + p.h) * MinutesPerHour + p.mi,
      p.s, p.us \div UsPerMs>>

(* The inverse: the parts the getters of a Date return.                      *)
PartsOf(w) ==
    LET hours == w[1] \div MinutesPerHour
        days == hours \div HoursPerDay
    IN Parts(days \div 4, ((days \div 2) % 2) + 1, (days % 2) + 1, hours % HoursPerDay,
             w[1] % MinutesPerHour, w[2], w[3] * UsPerMs)

Shift(w, minutes) == <<w[1] + minutes, w[2], w[3]>>

Instant(w) == [instant |-> w]
Local(w) == [local |-> w]            \* left to localDate(), in RowParsers
Invalid == [invalid |-> TRUE]

(* timezoneOffsetMinutes(): the minutes of a time zone that is an offset.    *)
ZoneMinutes ==
    [zone \in {"+00:02", "-01:00"} |-> IF zone = "+00:02" THEN 2 ELSE -MinutesPerHour]

(* What a Date is made of the parts.                                         *)
InZone(p, timezone) ==
    CASE timezone = "local" -> Local(Wall(p))
      [] timezone = "Z" -> Instant(Wall(p))
      [] OTHER -> Instant(Shift(Wall(p), -ZoneMinutes[timezone]))

Number(b, o, n) == Le(Bytes(b, o, n))

(* The parts after a length byte of 0, 4, 7 or 11.                           *)
DateParts(b, o, len) ==
    Parts(IF len > 3 THEN Number(b, o, 2) ELSE 0, IF len > 3 THEN b[o + 2] ELSE 0,
          IF len > 3 THEN b[o + 3] ELSE 0, IF len > 6 THEN b[o + 4] ELSE 0,
          IF len > 6 THEN b[o + 5] ELSE 0, IF len > 6 THEN b[o + 6] ELSE 0,
          IF len > 10 THEN Number(b, o + 7, 4) ELSE 0)

DateBytes(b, o, Value(_, _)) ==
    IF ~Has(b, o, 1) THEN At(Garbage, o + 1)
    ELSE LET len == b[o]
             size == IF len > 10 THEN 11 ELSE IF len > 6 THEN 7 ELSE IF len > 3 THEN 4 ELSE 0
         IN At(IF Has(b, o + 1, size) THEN Value(DateParts(b, o + 1, len), len) ELSE Garbage,
               o + 1 + size)

(* A zero date is invalid; a fixed offset takes the date through a string    *)
(* that JavaScript parses.                                                   *)
readDateTime(b, o, timezone) ==
    DateBytes(b, o, LAMBDA p, len :
        IF p = ZeroDate \/ (timezone \notin {"local", "Z"} /\ p.y + p.mo + p.d = 0)
        THEN Invalid ELSE InZone(p, timezone))

DateText(p) == Digits(p.y, 4) \o <<Minus>> \o Digits(p.mo, 2) \o <<Minus>> \o Digits(p.d, 2)
ClockText(p) == Digits(p.h, 2) \o <<Colon>> \o Digits(p.mi, 2) \o <<Colon>> \o Digits(p.s, 2)

(* The fraction has the decimals of the column, if it was sent.              *)
readDateTimeString(b, o, decimals, type) ==
    DateBytes(b, o, LAMBDA p, len :
        Str(DateText(p)
            \o (IF len > 6 THEN <<Space>> \o ClockText(p)
                ELSE IF type = "DATETIME" THEN <<Space>> \o ClockText(ZeroDate) ELSE <<>>)
            \o (IF len > 10 THEN <<Dot>> \o (IF decimals = 0 THEN Text(p.us)
                                             ELSE SubSeq(Digits(p.us, 2), 1, decimals))
                ELSE <<>>)))

(* Only a text of ten characters is read; its bytes are skipped only then.   *)
DateAfter(b, len, s, timezone) ==
    IF len.v = Null THEN len
    ELSE IF len.v # Num(10) \/ ~Has(b, s, 10) THEN At(Invalid, s)
    ELSE At(InZone(Parts(Natural(Bytes(b, s, 4)), Natural(Bytes(b, s + 5, 2)),
                         Natural(Bytes(b, s + 8, 2)), 0, 0, 0, 0), timezone), s + 10)

parseDate(b, o, timezone) ==
    LET len == readLengthCodedNumber(b, o) IN DateAfter(b, len, len.o, timezone)

(* A text without a time is left to new Date().                              *)
ParseDateTime(s, timezone) ==
    IF Len(s) < 19 THEN Garbage
    ELSE
    LET two(i) == Natural(SubSeq(s, i, i + 1))
        p == Parts(Natural(SubSeq(s, 1, 4)), two(6), two(9), two(12), two(15), two(18),
                   IF Len(s) > 20 THEN s[21] * UsPerMs ELSE 0)
    IN IF p.mo = 0 \/ p.d = 0 THEN Invalid ELSE InZone(p, timezone)

parseDateTime(b, o, timezone) == Counted(b, o, LAMBDA s : ParseDateTime(s, timezone))

(* Twelve bytes, whatever the value.                                         *)
writeDate(w, timezone, LocalOffset) ==
    LET p == PartsOf(CASE timezone = "Z" -> w
                       [] timezone = "local" -> Shift(w, LocalOffset)
                                        [] OTHER -> Shift(w, ZoneMinutes[timezone]))
    IN <<11>> \o ToLe(p.y, 2) \o <<p.mo, p.d, p.h, p.mi, p.s>> \o ToLe(p.us, 4)

-----------------------------------------------------------------------------
(* TIME.  A time is a sign, days, hours, minutes, seconds and microseconds.  *)

IsZeroTime(t) == t.days = 0 /\ t.h = 0 /\ t.mi = 0 /\ t.s = 0 /\ t.us = 0

timeLength(t) == IF IsZeroTime(t) THEN 1 ELSE IF t.us # 0 THEN 13 ELSE 9

writeTime(t) ==
    IF IsZeroTime(t) THEN <<0>>
    ELSE <<IF t.us # 0 THEN 12 ELSE 8, IF t.neg THEN 1 ELSE 0>> \o ToLe(t.days, 4)
         \o <<t.h, t.mi, t.s>> \o (IF t.us # 0 THEN ToLe(t.us, 4) ELSE <<>>)

(* [-]hh:mm:ss[.f]: hours count the days, zeros at the end of the fraction   *)
(* are dropped.                                                              *)
TimeText(t) ==
    LET hours == t.days * HoursPerDay + t.h
        fraction == Digits(t.us, 2)
    IN (IF t.neg THEN <<Minus>> ELSE <<>>)
       \o Digits(hours, IF hours < 100 THEN 2 ELSE Width(hours)) \o <<Colon>> \o Digits(t.mi, 2)
       \o <<Colon>> \o Digits(t.s, 2)
       \o (IF t.us = 0 THEN <<>> ELSE IF fraction[2] = 0 THEN <<Dot, fraction[1]>>
           ELSE <<Dot>> \o fraction)

readTimeString(b, o) ==
    IF ~Has(b, o, 1) \/ ~Has(b, o + 1, IF b[o] > 10 THEN 12 ELSE IF b[o] > 6 THEN 8 ELSE 0)
    THEN At(Garbage, o + 1)
    ELSE LET len == b[o]
             t == [neg |-> len > 0 /\ b[o + 1] # 0,
                   days |-> IF len > 6 THEN Number(b, o + 2, 4) ELSE 0,
                   h |-> IF len > 6 THEN b[o + 6] ELSE 0,
                   mi |-> IF len > 6 THEN b[o + 7] ELSE 0,
                   s |-> IF len > 6 THEN b[o + 8] ELSE 0,
                   us |-> IF len > 10 THEN Number(b, o + 9, 4) ELSE 0]
         IN At(Str(TimeText(t)), o + 1 + (IF len > 10 THEN 12 ELSE IF len > 6 THEN 8 ELSE
                                          IF len > 0 THEN 1 ELSE 0))

=============================================================================

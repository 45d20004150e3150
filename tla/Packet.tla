------------------------------- MODULE Packet -------------------------------
(* The readers and the writers of packets/packet.js, over payloads that are  *)
(* sequences of bytes.  A byte counts to Byte instead of 256, which moves    *)
(* every limit of the encodings (the five tags above the inline lengths, the *)
(* two, three, four and eight byte integers, the integers a JavaScript       *)
(* number holds exactly) into reach; a NULL bitmap has Bits bits a byte.     *)
(*                                                                           *)
(* A reader takes the payload and the offset of its next byte and returns    *)
(* the value and the new offset; a writer returns the bytes it appends.      *)
(* A JavaScript value is a record with one field, named for its type.        *)
EXTENDS Integers, SequencesExt

Byte == 20
Bits == 3
Word == Byte * Byte * Byte * Byte
SafeWord == 8                        \* Number.MAX_SAFE_INTEGER + 1 = SafeWord * Word

NullTag == 15                        \* 0xfb
Tag2 == 16                           \* 0xfc
Tag3 == 17                           \* 0xfd
Tag8 == 18                           \* 0xfe; 0xff, an error, is 19

Num(n) == [num |-> n]
Str(s) == [str |-> s]
Buf(s) == [buf |-> s]
Json(s) == [json |-> s]
Dbl(s) == [dbl |-> s]
Null == [null |-> TRUE]
Garbage == [garbage |-> TRUE]        \* what a read past the end returns
At(v, o) == [v |-> v, o |-> o]

-----------------------------------------------------------------------------
(* Fixed width integers.                                                     *)

Le(s) ==
    LET value[i \in 0..Len(s)] == IF i = 0 THEN 0 ELSE s[Len(s) + 1 - i] + Byte * value[i - 1]
    IN value[Len(s)]

ToLe(n, width) == [i \in 1..width |-> (n \div (Byte ^ (i - 1))) % Byte]

Bytes(b, o, n) == SubSeq(b, o, o + n - 1)

Has(b, o, n) == n >= 0 /\ o + n - 1 <= Len(b)

Unsigned(b, o, n) ==
    At(IF Has(b, o, n) THEN Num(Le(Bytes(b, o, n))) ELSE Garbage, o + n)

readInt8(b, o) == Unsigned(b, o, 1)
readInt16(b, o) == Unsigned(b, o, 2)
readInt24(b, o) == Unsigned(b, o, 3)
readInt32(b, o) == Unsigned(b, o, 4)

Complement(n, width) == IF 2 * n >= Byte ^ width THEN n - Byte ^ width ELSE n

Signed(b, o, n) ==
    At(IF Has(b, o, n) THEN Num(Complement(Le(Bytes(b, o, n)), n)) ELSE Garbage, o + n)

readSInt8(b, o) == Signed(b, o, 1)
readSInt16(b, o) == Signed(b, o, 2)
readSInt32(b, o) == Signed(b, o, 4)

(* The integer hi * Word + lo: a number if a double holds it exactly, its    *)
(* decimal digits otherwise.  hi is negative for a negative integer.         *)
IsSafe(hi, lo) == -SafeWord <= hi /\ hi < SafeWord /\ ~(hi = -SafeWord /\ lo = 0)
Decimal(hi, lo) == [decimal |-> <<hi, lo>>]
Rounded(hi) == [rounded |-> hi]
Double(hi, lo) == IF IsSafe(hi, lo) THEN Num(hi * Word + lo) ELSE Rounded(hi)
Exact(hi, lo) == IF IsSafe(hi, lo) THEN Num(hi * Word + lo) ELSE Decimal(hi, lo)

(* readInt64JSNumber, readInt64String, readInt64 and their signed forms.     *)
Int64(b, o, Value(_, _), signed) ==
    IF ~Has(b, o, 8) THEN At(Garbage, o + 8)
    ELSE LET lo == Le(Bytes(b, o, 4))
             hi == Le(Bytes(b, o + 4, 4))
         IN At(Value(IF signed THEN Complement(hi, 4) ELSE hi, lo), o + 8)

readInt64JSNumber(b, o) == Int64(b, o, Double, FALSE)
readSInt64JSNumber(b, o) == Int64(b, o, Double, TRUE)
readInt64String(b, o) == Int64(b, o, Decimal, FALSE)
readSInt64String(b, o) == Int64(b, o, Decimal, TRUE)
readInt64(b, o) == Int64(b, o, Exact, FALSE)
readSInt64(b, o) == Int64(b, o, Exact, TRUE)

(* A float is a mantissa of three or six bytes and a number of decimals.     *)
readFloat(b, o) ==
    At(IF Has(b, o, 4) THEN Dbl(<<Complement(Le(Bytes(b, o, 3)), 3), b[o + 3]>>) ELSE Garbage,
       o + 4)
readDouble(b, o) ==
    At(IF Has(b, o, 8) THEN Dbl(<<Complement(Le(Bytes(b, o, 6)), 6), b[o + 6]>>) ELSE Garbage,
       o + 8)

-----------------------------------------------------------------------------
(* Length coded integers.                                                    *)

(* Without bigNumberStrings and unsigned, as all lengths are read.  An        *)
(* integer that a number does not hold exactly is read as its digits.        *)
readLengthCodedNumberExt(b, o, tag) ==
    CASE tag = NullTag -> At(Null, o)
      [] tag = Tag2 -> readInt16(b, o)
      [] tag = Tag3 -> readInt24(b, o)
      [] tag = Tag8 -> readInt64(b, o)
      [] OTHER -> At(Garbage, o)     \* throws "Should not reach here"

readLengthCodedNumber(b, o) ==
    IF ~Has(b, o, 1) THEN At(Garbage, o + 1)
    ELSE IF b[o] < NullTag THEN At(Num(b[o]), o + 1)
    ELSE readLengthCodedNumberExt(b, o + 1, b[o])

(* The length is computed before the bytes are written, by another function. *)
lengthCodedNumberLength(n) ==
    IF n < NullTag THEN 1 ELSE IF n < Byte ^ 2 - 1 THEN 3 ELSE IF n < Byte ^ 3 - 1 THEN 4 ELSE 9

writeLengthCodedNumber(n) ==
    IF n < NullTag THEN ToLe(n, 1)
    ELSE IF n < Byte ^ 2 - 1 THEN <<Tag2>> \o ToLe(n, 2)
    ELSE IF n < Byte ^ 3 - 1 THEN <<Tag3>> \o ToLe(n, 3)
    ELSE <<Tag8>> \o ToLe(n % Word, 4) \o ToLe(n \div Word, 4)

-----------------------------------------------------------------------------
(* Strings and buffers.  An encoding does not change the bytes.              *)

(* What follows the length len: nothing for NULL, the bytes otherwise.       *)
Follows(b, len, Value(_)) ==
    IF len.v = Null THEN len
    ELSE IF len.v = Garbage \/ "num" \notin DOMAIN len.v THEN At(Garbage, len.o)
    ELSE IF ~Has(b, len.o, len.v.num) THEN At(Garbage, len.o + len.v.num)
    ELSE At(Value(Bytes(b, len.o, len.v.num)), len.o + len.v.num)

Counted(b, o, Value(_)) == Follows(b, readLengthCodedNumber(b, o), Value)

readLengthCodedString(b, o) == Counted(b, o, Str)
readLengthCodedBuffer(b, o) == Counted(b, o, Buf)

(* JSON.parse of NULL is null.                                               *)
parseJson(b, o) == Counted(b, o, Json)

writeLengthCodedBuffer(s) == writeLengthCodedNumber(Len(s)) \o s
lengthCodedStringLength(s) == lengthCodedNumberLength(Len(s)) + Len(s)

-----------------------------------------------------------------------------
(* What kind of packet this is, from its first byte and its length (with the *)
(* four bytes of the header).                                                *)

isEOF(b) == b[1] = Tag8 /\ Len(b) + 4 < 13

-----------------------------------------------------------------------------
(* NULL bitmaps, as Query, Execute and the row parsers keep them: the bits   *)
(* of a byte are used up, then the next byte starts.  nulls[i] is the bit of *)
(* the i-th value; the first `skip' bits are not used.                       *)

BitmapLength(count) == (count + Bits - 1) \div Bits

Bitmap(nulls, skip) ==
    LET Bit(i) == IF i - skip \in DOMAIN nulls /\ nulls[i - skip] THEN 2 ^ ((i - 1) % Bits) ELSE 0
    IN [k \in 1..BitmapLength(Len(nulls) + skip) |->
            Bit(Bits * k - 2) + Bit(Bits * k - 1) + Bit(Bits * k)]

BitSet(byte, i) == (byte \div (2 ^ i)) % 2 = 1

=============================================================================

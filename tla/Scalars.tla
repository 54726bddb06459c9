------------------------------ MODULE Scalars ------------------------------
(***************************************************************************)
(* decode_scalar_value (src/value.rs).  An encoded value is a tag, the     *)
(* length code of the first byte, and the bytes after it.  The sizes are   *)
(* parameters, so that all values of a small word can be checked.          *)
(***************************************************************************)
EXTENDS Integers, Sequences, SequencesExt

CONSTANTS
    Base,       \* the values of a byte: 256
    Word,       \* bytes of a u64 or i64: 8
    Single,     \* bytes of a REAL or of an object identifier: 4
    Double,     \* bytes of a DOUBLE: 8
    Instances,  \* object instances: 2^22
    Mantissa,   \* up to which a DOUBLE holds every integer: 2^53
    Units,      \* what the integers it holds beyond are multiples of: 1, 2, 4, ...
    Utf8        \* byte sequences that are UTF-8

\* A byte has a first bit, and an object identifier fits into a word.
ASSUME ScalarsAssumption ==
    /\ Base \in Nat \ {0} /\ Base % 2 = 0
    /\ Word \in Nat \ {0} /\ Single \in 0 .. Word
    /\ Instances \in Nat \ {0}

\* TelemetryValue
Number(value) == [kind |-> "number", value |-> value]
Text(value) == [kind |-> "text", value |-> value]

Ok(value) == [ok |-> TRUE, value |-> value]
Error(why) == [ok |-> FALSE, value |-> why]

\* application_payload
Payload(code, rest) ==
    LET taken(offset, length) ==
            IF offset + length > Len(rest) THEN Error("Truncated")
            ELSE Ok(SubSeq(rest, offset + 1, offset + length))
    IN  IF code <= 4 THEN taken(0, code)
        ELSE IF code > 5 THEN Error("UnsupportedTag")
        ELSE IF rest = << >> THEN Error("Truncated")
        ELSE taken(1, rest[1])

\* The powers of the base, up to what a word can tell apart.
Power[n \in 0 .. Word] == IF n = 0 THEN 1 ELSE Base * Power[n - 1]

Span == Power[Word]

\* What a word that begins at low makes of a number: value << 8 drops what does not fit.
Wrapped(n, low) == low + ((n - low) % Span)

Decoded(start, low, bytes) ==
    FoldLeft(LAMBDA value, byte : Wrapped(value * Base + byte, low), start, bytes)

Unsigned(bytes) == Decoded(0, 0, bytes)

Lowest == -(Span \div 2)

SignedFromZero(bytes) == Decoded(0, Lowest, bytes)

\* decode_signed starts from -1 if the first bit is set.
Signed(bytes) ==
    Decoded(IF bytes # << >> /\ bytes[1] >= Base \div 2 THEN -1 ELSE 0, Lowest, bytes)

-----------------------------------------------------------------------------
(* "as f64" *)

\* The units are powers of two, enough for all of a word.
ASSUME FloatsAssumption ==
    /\ Mantissa \in Nat \ {0}
    /\ Units \subseteq Nat \ {0} /\ 1 \in Units
    /\ \A unit \in Units : unit = 1 \/ \E half \in Units : unit = 2 * half
    /\ \E unit \in Units : Span <= Mantissa * unit

Unit(size) == Min({ unit \in Units : size <= Mantissa * unit })

\* The nearest multiple, of two that are as near the even one.
Nearest(size) ==
    LET unit == Unit(size)
        below == size \div unit
        rest == size % unit
        up == 2 * rest > unit \/ (2 * rest = unit /\ below % 2 = 1)
    IN  (IF up THEN below + 1 ELSE below) * unit

AsFloat(number) == IF number < 0 THEN -Nearest(-number) ELSE Nearest(number)

-----------------------------------------------------------------------------
\* Bits that are taken as they are, if there are as many as there must be.
Exactly(size, bytes, value) == IF Len(bytes) = size THEN Ok(value) ELSE Error("Truncated")

\* The first byte names the character set; three of those besides UTF-8 are read as it.
Characters(bytes) ==
    IF bytes = << >> THEN Ok(Text(<< >>))
    ELSE IF bytes[1] \notin {0, 3, 4, 5} THEN Ok(Text(<<"hex", Tail(bytes)>>))
    ELSE IF Tail(bytes) \in Utf8 THEN Ok(Text(Tail(bytes))) ELSE Error("InvalidUtf8")

\* decode_object_id: a type and an instance.
ObjectId(bytes) ==
    LET raw == Unsigned(bytes)
    IN  Exactly(Single, bytes, Text(<< raw \div Instances, raw % Instances >>))

OfBytes(tag, bytes) ==
    CASE tag = 2  -> Ok(Number(AsFloat(Unsigned(bytes))))
      [] tag = 3  -> Ok(Number(AsFloat(Signed(bytes))))
      [] tag = 4  -> Exactly(Single, bytes, Number(bytes))
      [] tag = 5  -> Exactly(Double, bytes, Number(bytes))
      [] tag = 7  -> Characters(bytes)
      [] tag = 9  -> Ok(Text(Unsigned(bytes)))
      [] tag = 12 -> ObjectId(bytes)

\* Null and booleans are decoded without a payload: the length code is the value.
DecodeScalar(tag, code, rest) ==
    CASE tag = 0 -> Ok(Text("null"))
      [] tag = 1 -> Ok(Text(code # 0))
      [] tag \in {2, 3, 4, 5, 7, 9, 12} ->
            LET payload == Payload(code, rest)
            IN  IF payload.ok THEN OfBytes(tag, payload.value) ELSE payload
      [] OTHER -> Error("UnsupportedTag")
=============================================================================

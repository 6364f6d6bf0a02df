----------------------------- MODULE ValueCodec -----------------------------
(***************************************************************************)
(* How a value that is typed becomes the bytes of a variable, and these the *)
(* value that is shown: value_codec.cpp of the GUI, beside the conversions  *)
(* of base_tas.py.  Integers only; the 8 bytes of a machine word are Word   *)
(* bytes here.                                                              *)
(*                                                                         *)
(* A text is a number [kind, neg, mag, zeros] of kind "dec" or "hex" with   *)
(* so many zeros before it, or a run of bytes [kind, bytes] such as 01 02,  *)
(* each below ten.                                                          *)
(***************************************************************************)
EXTENDS Integers, Sequences, FiniteSets

CONSTANTS
    Word,   \* bytes of a uint64_t
    Types,  \* of the variables: [size, signed], signed TRUE or FALSE (or unknown)
    Datas,  \* what the target may hold
    Texts   \* what is typed

\* What a user may type; a text of bytes has at least one.
Numbers == [kind: {"dec", "hex"}, neg: BOOLEAN, mag: Nat, zeros: Nat]
Runs == [kind: {"bytes"}, bytes: Seq(0..9) \ {<<>>}]

CodecAssumption ==
    /\ Word \in Nat \ {0}
    /\ Types \subseteq [size: Nat \ {0}, signed: BOOLEAN]
    /\ Datas \subseteq Seq(0..255)
    /\ Texts \subseteq Numbers \cup Runs

VARIABLES
    type,  \* of the variable
    data,  \* its bytes
    shown, \* {what decode_value made of them}, or {}
    typed, \* {the text last typed}, or {}
    error  \* whether encode_value threw at it

vars == <<type, data, shown, typed, error>>

\* base to the power of n.
Power(base, n) == LET p[i \in 0..n] == IF i = 0 THEN 1 ELSE base * p[i - 1] IN p[n]
Pow(n) == Power(256, n)
IsNumber(t) == t.kind \in {"dec", "hex"}
Negative(t) == IsNumber(t) /\ t.neg

\* bytes_to_uint: no more than a word.
Uint(d) ==
    LET n == IF Len(d) < Word THEN Len(d) ELSE Word
        sum[i \in 0..n] == IF i = 0 THEN 0 ELSE sum[i - 1] + d[i] * Pow(i - 1)
    IN  sum[n]

\* decode_value: the sign bit is that of the variable's own size.
Decode(d, signed) ==
    IF signed /\ Len(d) <= Word /\ Uint(d) >= Pow(Len(d)) \div 2 THEN Uint(d) - Pow(Len(d)) ELSE Uint(d)

BytesOf(value, size) == [i \in 1..size |-> (value \div Pow(i - 1)) % 256]

Base(t) == IF t.kind = "hex" THEN 16 ELSE 10
DigitCount(mag, base) ==
    LET count[m \in 0..mag] == IF m < base THEN 1 ELSE 1 + count[m \div base] IN count[mag]
Digits(t) == t.zeros + DigitCount(t.mag, Base(t))

\* The characters of a text that are left without 0x, blanks and underscores.
Chars(t) ==
    IF ~IsNumber(t) THEN 2 * Len(t.bytes)
    ELSE Digits(t) + (IF ~t.neg THEN 0 ELSE IF t.kind = "hex" THEN 3 ELSE 1)

LooksLikeBlob(t, size) == Chars(t) > 2 * size

Threw == [ok |-> FALSE, data |-> <<>>]
Gives(d) == [ok |-> TRUE, data |-> d]

(* parse_hex_blob: two digits a byte, be they decimal ones; it throws at a  *)
(* sign.                                                                    *)
Digit(t, k) == (t.mag \div Power(Base(t), k)) % Base(t)
DigitPairs(t) == (Digits(t) + 1) \div 2
BlobOf(t) ==
    IF ~IsNumber(t) THEN t.bytes
    ELSE [i \in 1..DigitPairs(t) |->
            16 * Digit(t, 2 * (DigitPairs(t) - i) + 1) + Digit(t, 2 * (DigitPairs(t) - i))]
Blob(t, size) == IF ~Negative(t) /\ Len(BlobOf(t)) = size THEN Gives(BlobOf(t)) ELSE Threw

\* stoull: up to the first character that is not a digit, within a word.
Magnitude(t) == IF IsNumber(t) THEN t.mag ELSE t.bytes[1]

\* Faulty: a negative number loses its sign.
EncodeMagnitude(t, size) ==
    IF size > Word \/ LooksLikeBlob(t, size) THEN Blob(t, size)
    ELSE IF Magnitude(t) >= Pow(Word) THEN Threw
    ELSE Gives(BytesOf(Magnitude(t), size))

\* encode_value, of a text that is not empty.
Encode(t, size) ==
    IF size > Word \/ LooksLikeBlob(t, size) THEN Blob(t, size)
    ELSE IF Magnitude(t) >= Pow(Word) THEN Threw
    ELSE Gives(BytesOf((IF Negative(t) THEN Pow(Word) - Magnitude(t) ELSE Magnitude(t)) % Pow(Word), size))

\* _value_to_bytes of base_tas.py: int(text, 0) takes no zeros before a decimal.
PythonEncode(t, size) ==
    LET value == IF t.neg THEN -t.mag ELSE t.mag
    IN  IF ~IsNumber(t) \/ (t.kind = "dec" /\ t.zeros > 0 /\ t.mag # 0) THEN Threw
        ELSE IF value < -(Pow(size) \div 2) \/ value >= Pow(size) THEN Threw
        ELSE Gives(BytesOf(IF value < 0 THEN value + Pow(size) ELSE value, size))

-----------------------------------------------------------------------------
Show ==
    /\ shown' = {Decode(data, type.signed)}
    /\ UNCHANGED <<type, data, typed, error>>

\* A write from the variables panel: nothing is written when encoding throws.
Type(t) ==
    LET e == Encode(t, type.size)
    IN  /\ typed' = {t} /\ error' = ~e.ok
        /\ data' = IF e.ok THEN e.data ELSE data
        /\ shown' = {}
        /\ UNCHANGED type

Init ==
    /\ type \in Types /\ data \in Datas /\ Len(data) = type.size
    /\ shown = {} /\ typed = {} /\ error = FALSE

Next == Show \/ \E t \in Texts : Type(t)
Spec == Init /\ [][Next]_vars

-----------------------------------------------------------------------------
\* The variable keeps its size, whatever is typed.
TypeOK == data \in [1..type.size -> 0..255] /\ error \in BOOLEAN

Value(t) == IF Negative(t) THEN -t.mag ELSE Magnitude(t)
Fits(t) == Value(t) >= -(Pow(type.size) \div 2) /\ Value(t) < Pow(type.size)

(* What is shown is the number of the variable's size and sign that the     *)
(* bytes stand for: congruent to their sum and in the type's range.         *)
ShownRight ==
    type.size <= Word =>
      \A n \in shown :
        /\ n >= (IF type.signed THEN -(Pow(type.size) \div 2) ELSE 0)
        /\ n < (IF type.signed THEN Pow(type.size) \div 2 ELSE Pow(type.size))
        /\ \A i \in 1..type.size : ((n + Pow(type.size)) \div Pow(i - 1)) % 256 = data[i]

(* A number that fits and is accepted is what is shown afterwards, or the   *)
(* other reading of the same bits.                                          *)
ShownIsTyped ==
    \A t \in typed, n \in shown :
      ~error /\ IsNumber(t) /\ type.size <= Word /\ Fits(t)
      => n \in {Value(t), Value(t) - Pow(type.size), Value(t) + Pow(type.size)}

\* Where the GUI and Python both accept a number they write the same bytes.
SameBytes ==
    \A t \in typed :
      ~error /\ IsNumber(t) /\ PythonEncode(t, type.size).ok => PythonEncode(t, type.size).data = data
PythonSame == type.size <= Word => SameBytes

\* A number that the variable has no room for is refused, not cut down to it.
RefusesOthers ==
    \A t \in typed : IsNumber(t) /\ type.size <= Word /\ ~Fits(t) => error

\* value_codec.hpp: decimal and hex integers are accepted.
AcceptsNumbers ==
    \A t \in typed : IsNumber(t) /\ t.zeros = 0 /\ type.size <= Word /\ Fits(t) => ~error

\* value_codec.hpp: raw hex blobs such as 01 a3 are accepted.
TakesBytes ==
    \A t \in typed : ~IsNumber(t) /\ Len(t.bytes) = type.size => ~error /\ data = t.bytes
=============================================================================

--------------------------- MODULE CanonicalForms ---------------------------
(***************************************************************************)
(* Canonical JSON (RFC 8785) as each SDK writes it: numbers, strings and   *)
(* the order of keys.  The TypeScript SDK leaves all three to ECMAScript   *)
(* (the canonicalize package), the others port ECMAScript's rules.  The    *)
(* texts are what the property is about, so they are modelled: a number's  *)
(* as a sequence of characters, a string's as its UTF-8 bytes.             *)
(*                                                                         *)
(* A receipt's hash is over canonical bytes, so two receipts have one hash *)
(* exactly when their canonical forms are equal.                           *)
(***************************************************************************)
EXTENDS Integers, Sequences, SequencesExt, TLC

CONSTANTS Bits          \* 53: significant bits of a double, scaled down

Zeros(k) == [i \in 1 .. k |-> "0"]
From(s, i) == SubSeq(s, i, Len(s))

(* A positive number: digits s, without leading or trailing zeros, and n,  *)
(* the place of its decimal point from their left.                         *)
-----------------------------------------------------------------------------
(* ECMAScript Number::toString, which JSON.stringify applies.              *)
EcmaText(s, n) ==
    IF Len(s) <= n /\ n <= 21 THEN s \o Zeros(n - Len(s))
    ELSE IF 0 < n /\ n <= 21 THEN SubSeq(s, 1, n) \o <<".">> \o From(s, n + 1)
    ELSE IF -6 < n /\ n <= 0 THEN <<"0", ".">> \o Zeros(-n) \o s
    ELSE SubSeq(s, 1, 1) \o (IF Len(s) = 1 THEN <<>> ELSE <<".">> \o Tail(s))
         \o (IF n > 0 THEN <<"e+", ToString(n - 1)>> ELSE <<"e-", ToString(1 - n)>>)

(* Mutant: the plain form ends one place too early.                        *)
RangeRulesTo20(s, n) ==
    IF n = 21 THEN SubSeq(s, 1, 1) \o (IF Len(s) = 1 THEN <<>> ELSE <<".">> \o Tail(s)) \o <<"e+", "20">>
    ELSE EcmaText(s, n)

(* The range rules as the ports write them, of k digits and exponent n.    *)
RangeRules(s, n) ==
    LET k == Len(s)  e == n - 1
        Exponent == IF e >= 0 THEN <<"e+", ToString(e)>> ELSE <<"e-", ToString(-e)>>
    IN  CASE k <= n /\ n <= 21               -> s \o Zeros(n - k)
          [] 0 < n /\ n <= 21 /\ k > n       -> SubSeq(s, 1, n) \o <<".">> \o From(s, n + 1)
          [] -6 < n /\ n <= 0                -> <<"0", ".">> \o Zeros(-n) \o s
          [] (n > 21 \/ n <= -6) /\ k = 1    -> s \o Exponent
          [] (n > 21 \/ n <= -6) /\ k > 1    -> <<s[1], ".">> \o Tail(s) \o Exponent

(* go numberToString: mantissa and exponent of the scientific form.        *)
GoNumber(s, n) == LET E == n - 1 IN RangeRules(s, E + 1)

(* rust format_f64, of LowerExp's.                                         *)
RustNumber(s, n) == LET bigE == n - 1 IN RangeRules(s, bigE + 1)

StripTrailing(d) == SubSeq(d, 1, CHOOSE i \in DOMAIN d :
                        d[i] # "0" /\ \A j \in i + 1 .. Len(d) : d[j] = "0")

(* java numberToString: the fewest digits, up to 17, that read back as the *)
(* number; then without trailing zeros.                                    *)
JavaNumber(s, n) ==
    LET prec   == CHOOSE p \in 0 .. 16 : p + 1 >= Len(s) /\ \A q \in 0 .. p - 1 : q + 1 < Len(s)
        digits == s \o Zeros(prec + 1 - Len(s))
        sciExp == n - 1
    IN  RangeRules(StripTrailing(digits), sciExp + 1)

(* Python's repr of the number, as integer part, fraction and exponent.    *)
Repr(s, n) ==
    IF n > 16 \/ n < -3
    THEN [int |-> SubSeq(s, 1, 1), frac |-> Tail(s), exp |-> n - 1]
    ELSE IF n >= Len(s) THEN [int |-> s \o Zeros(n - Len(s)), frac |-> <<"0">>, exp |-> 0]
    ELSE IF n > 0 THEN [int |-> SubSeq(s, 1, n), frac |-> From(s, n + 1), exp |-> 0]
    ELSE [int |-> <<"0">>, frac |-> Zeros(-n) \o s, exp |-> 0]

(* Mutant: the leading zeros are dropped without moving the point.         *)
PythonNumberKeepsPoint(s, n) ==
    LET r      == Repr(s, n)
        digits == r.int \o r.frac
        lead   == (CHOOSE i \in DOMAIN digits : digits[i] # "0" /\ \A j \in 1 .. i - 1 : digits[j] = "0") - 1
    IN  RangeRules(StripTrailing(From(digits, lead + 1)), Len(r.int) + r.exp)

(* python _format_number: the digits of repr, the point found again.       *)
PythonNumber(s, n) ==
    LET r      == Repr(s, n)
        digits == r.int \o r.frac
        lead   == (CHOOSE i \in DOMAIN digits : digits[i] # "0" /\ \A j \in 1 .. i - 1 : digits[j] = "0") - 1
    IN  RangeRules(StripTrailing(From(digits, lead + 1)), Len(r.int) + r.exp - lead)
-----------------------------------------------------------------------------
(* The least i with m < 2^i.                                               *)
BitLength(m) == CHOOSE i \in 0 .. 31 : m < 2 ^ i /\ (i = 0 \/ m >= 2 ^ (i - 1))

(* The double nearest to a natural number, ties to even.                   *)
Double(m) ==
    LET ulp  == 2 ^ (IF BitLength(m) > Bits THEN BitLength(m) - Bits ELSE 0)
        down == m - (m % ulp)
    IN  IF 2 * (m % ulp) < ulp \/ (2 * (m % ulp) = ulp /\ (down \div ulp) % 2 = 0)
        THEN down ELSE down + ulp

(* The integer its shortest digits, filled up with zeros, denote.          *)
Shortest(d) ==
    LET Round(i) == {c \in {10 ^ i * (d \div 10 ^ i), 10 ^ i * (d \div 10 ^ i + 1)} : Double(c) = d}
        most     == CHOOSE i \in 0 .. 4 : Round(i) # {} /\ \A h \in i + 1 .. 4 : Round(h) = {}
    IN  CHOOSE c \in Round(most) : \A x \in Round(most) : (c - d) * (c - d) <= (x - d) * (x - d)

Safe(m) == m < 2 ^ Bits

(* assertSafeNumbers: TypeScript refuses to sign an integer it cannot hold.*)
Signs(lang, m) == lang = "ts" => Safe(m)

(* The number as the canonical form has it, by what reads it as a double   *)
(* and what keeps integers.  Go keeps them only in values made in Go.      *)
CanonicalInteger(lang, m) ==
    IF lang \in {"rust", "python", "go int"} THEN m ELSE Shortest(Double(m))

(* The event's number in the envelope's JSON; Java's keeps it.             *)
Wire(lang, m) ==
    IF lang \in {"rust", "python", "go int", "java"} THEN m ELSE Shortest(Double(m))

(* A verifier has only the JSON.                                           *)
Reads(lang) == IF lang = "go int" THEN "go" ELSE lang

(* A receipt of m signed by one SDK has the hash another computes of it    *)
(* when its number reads w.                                                *)
HashMatches(signer, m, verifier, w) ==
    CanonicalInteger(Reads(verifier), w) = CanonicalInteger(signer, m)
-----------------------------------------------------------------------------
(* UTF-16 code units, by ECMAScript, Java, Rust and Python ...             *)
Units(c) == IF c < 65536 THEN <<c>>
            ELSE <<55296 + (c - 65536) \div 1024, 56320 + ((c - 65536) % 1024)>>

(* ... and utf16Encode of go-sdk, which does it itself.                    *)
GoUnits(c) == IF c <= 65535 THEN <<c>>
              ELSE LET r == c - 65536 IN <<55296 + r \div 1024, 56320 + (r % 1024)>>

Flat(f(_), cs) == FlattenSeq([i \in DOMAIN cs |-> f(cs[i])])

(* Lexicographic order: Java compareUtf16, Rust's cmp, JavaScript's sort.  *)
Before(a, b) ==
    \/ IsStrictPrefix(a, b)
    \/ \E i \in DOMAIN a \cap DOMAIN b : a[i] < b[i] /\ \A j \in 1 .. i - 1 : a[j] = b[j]

KeyBefore(a, b) == Before(Flat(Units, a), Flat(Units, b))

(* Mutant: keys in order of their UTF-8 bytes (of their code points).      *)
GoKeyBeforeByRune(a, b) == Before(a, b)

(* compareUTF16 of go-sdk.                                                 *)
GoKeyBefore(a, b) ==
    LET au == Flat(GoUnits, a)  bu == Flat(GoUnits, b)
        differ == {i \in DOMAIN au \cap DOMAIN bu : au[i] # bu[i]}
    IN  IF differ # {}
        THEN LET i == CHOOSE i \in differ : \A j \in differ : i <= j IN au[i] < bu[i]
        ELSE Len(au) < Len(bu)

(* Python's key: the bytes of the units, high byte first.                  *)
PythonKeyBefore(a, b) ==
    LET Bytes(k) == Flat(LAMBDA u : <<u \div 256, u % 256>>, Flat(Units, k))
    IN  Before(Bytes(a), Bytes(b))
-----------------------------------------------------------------------------
Utf8(c) ==
    CASE c < 128                    -> <<c>>
      [] c >= 128 /\ c < 2048       -> <<192 + c \div 64, 128 + (c % 64)>>
      [] c >= 2048 /\ c < 65536     -> <<224 + c \div 4096, 128 + ((c \div 64) % 64), 128 + (c % 64)>>
      [] c >= 65536                 -> <<240 + c \div 262144, 128 + ((c \div 4096) % 64),
                                         128 + ((c \div 64) % 64), 128 + (c % 64)>>

HexDigit(d) == IF d < 10 THEN 48 + d ELSE 87 + d

ShortEscape == 34 :> 34 @@ 92 :> 92 @@ 8 :> 98 @@ 12 :> 102 @@ 10 :> 110 @@ 13 :> 114 @@ 9 :> 116

(* JSON.stringify of a character, in UTF-8; Rust, Java and Python alike.   *)
Escape(c) ==
    IF c \in DOMAIN ShortEscape THEN <<92, ShortEscape[c]>>
    ELSE IF c < 32 THEN <<92, 117, 48, 48, HexDigit(c \div 16), HexDigit(c % 16)>>
    ELSE Utf8(c)

(* Mutant: encoding/json's escaping, which is meant for HTML.              *)
GoEscapeHtml(byte) ==
    IF byte \in DOMAIN ShortEscape THEN <<92, ShortEscape[byte]>>
    ELSE IF byte < 32 \/ byte \in {38, 60, 62}
    THEN <<92, 117, 48, 48, HexDigit(byte \div 16), HexDigit(byte % 16)>>
    ELSE <<byte>>

(* writeJSONString of go-sdk goes byte by byte over the UTF-8 text.        *)
GoEscape(byte) ==
    IF byte \in DOMAIN ShortEscape THEN <<92, ShortEscape[byte]>>
    ELSE IF byte < 32 THEN <<92, 117, 48, 48, HexDigit(byte \div 16), HexDigit(byte % 16)>>
    ELSE <<byte>>

GoString(cs) == Flat(GoEscape, Flat(Utf8, cs))
=============================================================================

------------------------------ MODULE Assurance ------------------------------
(***************************************************************************)
(* What else is said about a receipt: the imprints of its time-stamp tokens*)
(* (src/timestamp.ts), its level on the assurance ladder and the rules its *)
(* decision was checked against (src/assurance.ts); and the time-stamp     *)
(* query the TSA client sends (src/tsa.ts): DER written byte by byte, and, *)
(* as the reference, what a DER reader makes of it.                        *)
(*                                                                         *)
(* A token is "own", "other" (local tokens of this or of other bytes) or   *)
(* "der" (anything else, taken for an RFC 3161 response).                  *)
(***************************************************************************)
EXTENDS PortVerifiers, SequencesExt

CONSTANTS NotANumber,
          Inherited    \* names that every object has: constructor, toString, ...

AssuranceAssumption == NotANumber \notin Int /\ Absent \notin {"own", "der"}

(* The token of the stub is local, that of a TSA is not; a TSA that refuses*)
(* or is too late makes the call throw, without one.                       *)
Token(client) ==
    CASE client = "stub" -> "own" [] client = "tsa" -> "der" [] OTHER -> Absent

(* timestampReceipt; a caller that is thrown at has the receipt it had.    *)
TimestampReceipt(tokens, client) ==
    IF Token(client) = Absent THEN tokens ELSE Append(tokens, Token(client))

(* verifyReceiptTimestamps: whether the imprint matches, or "null"; no     *)
(* verdict is authenticated.                                               *)
Verdict(token) ==
    CASE token = "own" -> "true" [] token = "other" -> "false" [] OTHER -> "null"

VerifyReceiptTimestamps(tokens) == [i \in DOMAIN tokens |-> Verdict(tokens[i])]

(* What the verifier sees of the tokens.                                   *)
Imprint(tokens) ==
    LET verdicts == ToSet(VerifyReceiptTimestamps(tokens))
    IN  IF "false" \in verdicts THEN "mismatch" ELSE IF "true" \in verdicts THEN "match" ELSE "none"
-----------------------------------------------------------------------------
(* Mutant: the version before the fix, which looked for a signature and a  *)
(* token and verified neither.                                             *)
CriteriaByPresence(e, tokens, opts) ==
    LET signed   == ~Broken(e) /\ e.sigs # <<>> /\ e.hash # Absent /\ e.height # Absent
        attested == signed /\ \E i \in DOMAIN e.sigs : e.sigs[i].kid \in opts.attested
    IN  [signed |-> signed, attested |-> attested, anchored |-> tokens # <<>>]

(* What assuranceLevel finds: whether the receipt verifies with the keys,  *)
(* if any are given; whether one of its signatures, which need not be the  *)
(* one that verifies, names an attested key; whether an attached token was *)
(* verified by the caller.                                                 *)
Criteria(e, tokens, opts) ==
    LET signed == /\ opts.keys /\ ~Broken(e) /\ e.sigs # <<>> /\ e.hash # Absent /\ e.height # Absent
                  /\ VerifyTS([e EXCEPT !.imprint = Imprint(tokens)], NoPredecessor) = "valid"
    IN  [signed   |-> signed,
         attested |-> signed /\ \E i \in DOMAIN e.sigs : e.sigs[i].kid \in opts.attested,
         anchored |-> tokens # <<>> /\ opts.anchor]

(* The level: each one requires those below it.                            *)
AssuranceLevel(e, tokens, opts) ==
    LET c == Criteria(e, tokens, opts)
    IN  IF ~c.signed THEN 0 ELSE IF ~c.attested THEN 1 ELSE IF ~c.anchored THEN 2 ELSE 3
-----------------------------------------------------------------------------
(* A rule is [form, expression]: the first that is set is evaluated, though*)
(* it be empty.  An expression is of the kind "unset", "empty", "unparsed",*)
(* or "comparison" with a field, op, and the literal as text and as a      *)
(* number, or NotANumber; so are values: [text, num].                      *)
NoExpression == [kind |-> "unset"]

Compares(op, a, b) ==
    CASE op = ">=" -> a >= b [] op = "<=" -> a <= b [] op = ">" -> a > b
      [] op = "<"  -> a < b  [] op = "==" -> a = b  [] op = "!=" -> a # b

(* Numbers are compared as numbers, everything else as text, and only for  *)
(* equality.                                                               *)
Holds(x, v) ==
    IF v.num # NotANumber /\ x.num # NotANumber THEN Compares(x.op, v.num, x.num)
    ELSE (x.op = "==" /\ v.text = x.text) \/ (x.op = "!=" /\ v.text # x.text)

(* Mutant: a missing value counts as one that differs.                     *)
EvalExprMissingDiffers(x, values) ==
    /\ x.kind = "comparison"
    /\ IF x.field \in DOMAIN values THEN Holds(x, values[x.field]) ELSE x.op = "!="

(* `field in values` is also true of a name the object inherits, and its   *)
(* value is then that of Object.prototype, which is no number.             *)
InheritedValue == [text |-> "[native code]", num |-> NotANumber]

EvalExpr(x, values) ==
    /\ x.kind = "comparison"
    /\ \/ x.field \in DOMAIN values /\ Holds(x, values[x.field])
       \/ x.field \in Inherited \ DOMAIN values /\ Holds(x, InheritedValue)

(* checkRules: the numbers of the rules that fail, and the status.         *)
Expression(rule) == IF rule.form # NoExpression THEN rule.form ELSE rule.expression

CheckRules(rules, values) ==
    LET failed == {i \in DOMAIN rules : Expression(rules[i]) = NoExpression
                                           \/ ~EvalExpr(Expression(rules[i]), values)}
    IN  [failed |-> failed,
         status |-> IF failed = {} /\ rules # <<>> THEN "verified" ELSE "failed"]
-----------------------------------------------------------------------------
Byte == 0 .. 255

(* The bytes of n > 0 to a base, most significant first.                   *)
Base(n, b) ==
    LET digits[m \in Nat] == IF m = 0 THEN <<>> ELSE Append(digits[m \div b], m % b)
    IN  digits[n]

derLen(len) ==
    IF len < 128 THEN <<len>> ELSE <<128 + Len(Base(len, 256))>> \o Base(len, 256)

derWrap(tag, contents) == <<tag>> \o derLen(Len(contents)) \o contents

(* A leading zero keeps a number with its top bit set from being negative. *)
Unsigned(bytes) == IF bytes[1] >= 128 THEN <<0>> \o bytes ELSE bytes

derInteger(n) == derWrap(2, IF n = 0 THEN <<0>> ELSE Unsigned(Base(n, 256)))

(* Mutant: the leading zeros are not taken off.                            *)
derIntegerBytesAsTheyAre(bytes) == derWrap(2, Unsigned(bytes))

(* Leading zeros are taken off, but for the last byte.                     *)
derIntegerBytes(bytes) ==
    LET from == CHOOSE i \in DOMAIN bytes : /\ \A j \in 1 .. i - 1 : bytes[j] = 0
                                            /\ bytes[i] # 0 \/ i = Len(bytes)
    IN  derWrap(2, Unsigned(SubSeq(bytes, from, Len(bytes))))

(* The first two arcs share a byte; the others take 7 bits each, with the  *)
(* top bit set on all bytes but the last.                                  *)
derOid(arcs) ==
    LET Arc(v) == IF v = 0 THEN <<0>>
                  ELSE [i \in DOMAIN Base(v, 128) |->
                          Base(v, 128)[i] + IF i = Len(Base(v, 128)) THEN 0 ELSE 128]
    IN  derWrap(6, <<arcs[1] * 40 + arcs[2]>>
                     \o FlattenSeq([i \in 1 .. Len(arcs) - 2 |-> Arc(arcs[i + 2])]))

derSequence(children) == derWrap(48, FlattenSeq(children))

Sha256 == <<2, 16, 840, 1, 101, 3, 4, 2, 1>>

(* buildTimeStampReq: version 1, the imprint, a nonce, and the certificate *)
(* is asked for.                                                           *)
buildTimeStampReq(imprint, nonce) ==
    derSequence(<<derInteger(1),
                  derSequence(<<derSequence(<<derOid(Sha256), derWrap(5, <<>>)>>),
                                derWrap(4, imprint)>>),
                  derIntegerBytes(nonce),
                  derWrap(1, <<255>>)>>)
-----------------------------------------------------------------------------
(* A reader of DER, by the encoding's rules (X.690): the values of a run   *)
(* of bytes, each a tag with its contents, or Garbled.                     *)
Value(bytes) == FoldLeft(LAMBDA v, b : 256 * v + b, 0, bytes)

Garbled == <<[tag |-> 0, contents |-> <<>>]>>

(* How many octets the length takes, and the length.                       *)
LengthOf(bytes) ==
    IF bytes[2] < 128 THEN [octets |-> 1, length |-> bytes[2]]
    ELSE LET n == bytes[2] - 128
         IN  [octets |-> 1 + n, length |-> Value(SubSeq(bytes, 3, 2 + n))]

Parsed(bytes) ==
    LET size == Len(bytes)
        from[i \in 1 .. size + 1] ==
            IF i = size + 1 THEN <<>>
            ELSE LET rest  == SubSeq(bytes, i, size)
                     long  == Len(rest) > 1 /\ rest[2] >= 128 => Len(rest) >= 2 + rest[2] - 128
                 IN  IF Len(rest) < 2 \/ ~long THEN Garbled
                     ELSE LET l    == LengthOf(rest)
                              next == i + 1 + l.octets + l.length
                          IN  IF next > size + 1 THEN Garbled
                              ELSE <<[tag |-> rest[1],
                                      contents |-> SubSeq(bytes, i + 1 + l.octets, next - 1)]>>
                                   \o from[next]
    IN  from[1]

(* A number in as few bytes as it can have, and not negative.              *)
IsNatural(x) ==
    /\ x.tag = 2 /\ x.contents # <<>> /\ x.contents[1] < 128
    /\ Len(x.contents) > 1 => x.contents[1] # 0 \/ x.contents[2] >= 128
=============================================================================

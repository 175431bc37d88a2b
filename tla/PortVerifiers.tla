---------------------------- MODULE PortVerifiers ----------------------------
(***************************************************************************)
(* The five implementations of verifyReceipt: TypeScript (src/verify.ts),  *)
(* Go, Java, Rust and Python.  A verifier is handed an envelope by anyone  *)
(* and answers "valid" or "invalid"; some throw.                           *)
(*                                                                         *)
(* An envelope is abstracted to what the verifiers look at:                *)
(*   hash    "right" (that of the canonical body), "wrong", or Absent      *)
(*   sigs    its signatures, in order                                      *)
(*   height  integrity.chain_height as JSON has it: <<"int", n>>,          *)
(*           <<"float", n>> for n written as n.0, <<"half", n>> for n.5,   *)
(*           or Absent                                                     *)
(*   prev    integrity.previous_receipt_hash, the empty string or Absent   *)
(*   imprint "none", "match" or "mismatch": its timestamp tokens           *)
(* or it is NoReceipt, NoIntegrity or NoSignatures when that part is       *)
(* missing.  The predecessor supplied with it has a hash and a height of   *)
(* its own, or is NoPredecessor, or Malformed.                             *)
(***************************************************************************)
EXTENDS Integers, Sequences

CONSTANTS Keys,         \* kids the caller has a public key for
          Genesis,      \* GENESIS_HASH
          Empty,        \* the empty string, as a hash
          Absent, NoHeight,
          NoReceipt, NoIntegrity, NoSignatures, NoPredecessor, Malformed

PortAssumption ==
    /\ NoHeight \notin Int /\ Genesis \notin {Empty, Absent}
    /\ Absent # "right" /\ NoPredecessor # Malformed

Languages == {"ts", "go", "java", "rust", "python"}
-----------------------------------------------------------------------------
(* crypto verify: the base64 texts each decoder takes for 64 bytes.  All of*)
(* them answer false, and none throws, for what it does not take.          *)
TsTakes     == {"standard", "newline", "unpadded", "urlsafe"}
GoTakes     == {"standard", "newline"}
JavaTakes   == {"standard", "unpadded"}
RustTakes   == {"standard"}
PythonTakes == {"standard", "newline"}

(* One signature of a known key, of the only algorithm, is enough.         *)
AnySignature(e, takes) ==
    \E i \in DOMAIN e.sigs : /\ e.sigs[i].alg = "EdDSA" /\ e.sigs[i].kid \in Keys
                             /\ e.sigs[i].good /\ e.sigs[i].text \in takes

(* The chain check, of the values each language reads from the envelope:   *)
(* a height of at least 1; behind a predecessor, its hash and the height   *)
(* after its own; without one, height 1 exactly with the genesis hash.     *)
LinkHolds(height, prev, hasPred, predHash, predHeight) ==
    /\ height # NoHeight
    /\ height >= 1
    /\ IF hasPred
       THEN predHash = prev /\ predHeight # NoHeight /\ height = predHeight + 1
       ELSE height = 1 <=> prev = Genesis

Answer(b) == IF b THEN "valid" ELSE "invalid"

Broken(e) == e \in {NoReceipt, NoIntegrity, NoSignatures}

(* Readings of a JSON number as an integer.                                *)
Integral(h) == IF h # Absent /\ h[1] \in {"int", "float"} THEN h[2] ELSE NoHeight
IntOnly(h)  == IF h # Absent /\ h[1] = "int" THEN h[2] ELSE NoHeight
Floored(h)  == IF h # Absent THEN h[2] ELSE 0
OrZero(n)   == IF n = NoHeight THEN 0 ELSE n
Text(s)     == IF s = Absent THEN Empty ELSE s
-----------------------------------------------------------------------------
(* src/verify.ts: a malformed envelope is invalid; a malformed predecessor *)
(* throws; a timestamp token of other bytes makes the receipt invalid.     *)
VerifyTS(e, pred) ==
    IF Broken(e) THEN "invalid"
    ELSE IF pred = Malformed /\ Integral(e.height) # NoHeight /\ Integral(e.height) >= 1
    THEN "throws"
    ELSE Answer(/\ e.hash = "right"
                /\ AnySignature(e, TsTakes)
                /\ IF pred \in {NoPredecessor, Malformed}
                   THEN LinkHolds(Integral(e.height), e.prev, FALSE, Absent, NoHeight)
                   ELSE LinkHolds(Integral(e.height), e.prev, TRUE, pred.hash, Integral(pred.height))
                /\ e.imprint # "mismatch")

(* Mutant: a predecessor is recognised by its hash alone.                 *)
VerifyGoByHash(e, pred) ==
    IF Broken(e) THEN "invalid"
    ELSE Answer(/\ e.hash = "right"
                /\ AnySignature(e, GoTakes)
                /\ IF pred \in {NoPredecessor, Malformed}
                   THEN LinkHolds(Integral(e.height), Text(e.prev), FALSE, Absent, NoHeight)
                   ELSE LinkHolds(Integral(e.height), Text(e.prev), TRUE, Text(pred.hash),
                                  Integral(e.height) - 1))

(* go-sdk: absent texts are the empty string, an absent predecessor height *)
(* is 0, and so are those of a malformed predecessor.                      *)
VerifyGo(e, pred) ==
    IF Broken(e) THEN "invalid"
    ELSE Answer(/\ e.hash = "right"
                /\ AnySignature(e, GoTakes)
                /\ IF pred = NoPredecessor
                   THEN LinkHolds(Integral(e.height), Text(e.prev), FALSE, Absent, NoHeight)
                   ELSE IF pred = Malformed
                   THEN LinkHolds(Integral(e.height), Text(e.prev), TRUE, Empty, 0)
                   ELSE LinkHolds(Integral(e.height), Text(e.prev), TRUE, Text(pred.hash),
                                  OrZero(Integral(pred.height))))

(* java-sdk: heights must be written as integers; that of the predecessor  *)
(* is truncated to one.                                                    *)
VerifyJava(e, pred) ==
    IF Broken(e) THEN "invalid"
    ELSE Answer(/\ e.hash = "right"
                /\ AnySignature(e, JavaTakes)
                /\ IF pred = NoPredecessor
                   THEN LinkHolds(IntOnly(e.height), Text(e.prev), FALSE, Absent, NoHeight)
                   ELSE IF pred = Malformed
                   THEN LinkHolds(IntOnly(e.height), Text(e.prev), TRUE, Empty, 0)
                   ELSE LinkHolds(IntOnly(e.height), Text(e.prev), TRUE, Text(pred.hash),
                                  Floored(pred.height)))

(* rust-sdk: as Java, with a predecessor height of 0 unless an integer.    *)
VerifyRust(e, pred) ==
    IF Broken(e) THEN "invalid"
    ELSE Answer(/\ e.hash = "right"
                /\ AnySignature(e, RustTakes)
                /\ IF pred = NoPredecessor
                   THEN LinkHolds(IntOnly(e.height), Text(e.prev), FALSE, Absent, NoHeight)
                   ELSE IF pred = Malformed
                   THEN LinkHolds(IntOnly(e.height), Text(e.prev), TRUE, Empty, 0)
                   ELSE LinkHolds(IntOnly(e.height), Text(e.prev), TRUE, Text(pred.hash),
                                  OrZero(IntOnly(pred.height))))

(* python-sdk: a KeyError for every part it indexes and does not find.     *)
VerifyPython(e, pred) ==
    IF Broken(e) THEN "throws"
    ELSE IF e.hash = Absent THEN "throws"
    ELSE IF /\ pred # NoPredecessor
            /\ IntOnly(e.height) # NoHeight /\ IntOnly(e.height) >= 1
            /\ IF pred = Malformed THEN TRUE ELSE Absent \in {pred.hash, pred.height}
    THEN "throws"
    ELSE Answer(/\ e.hash = "right"
                /\ AnySignature(e, PythonTakes)
                /\ IF pred \in {NoPredecessor, Malformed}
                   THEN LinkHolds(IntOnly(e.height), e.prev, FALSE, Absent, NoHeight)
                   ELSE LinkHolds(IntOnly(e.height), e.prev, TRUE, pred.hash, Integral(pred.height)))

Verify(lang, e, pred) ==
    CASE lang = "ts"     -> VerifyTS(e, pred)
      [] lang = "go"     -> VerifyGo(e, pred)
      [] lang = "java"   -> VerifyJava(e, pred)
      [] lang = "rust"   -> VerifyRust(e, pred)
      [] lang = "python" -> VerifyPython(e, pred)
=============================================================================

---------------------------- MODULE ReportsProofs ----------------------------
(***************************************************************************)
(* Proofs about what MCReports compares, for inputs of any size: the five  *)
(* verifiers on any envelope, the workflow graph of any ledger, what an    *)
(* auditor is given (rules, the assurance level and the evidence pack),    *)
(* the budget's gate on any calls, the savings proof of any dashboards.    *)
(* The graph's proof goes from what Kept keeps of a sequence, over the     *)
(* invariant of Kahn's loop (what is ready, what it still waits for), to   *)
(* when the loop ends and what is then left out.  The pack's rests on      *)
(* MerkleTreeProofs: no leaf gets to a root but by its own path.           *)
(***************************************************************************)
EXTENDS MCReports, FiniteSetTheorems, WellFoundedInduction, TLAPS

-----------------------------------------------------------------------------
(* Verifiers.  A height as JSON may have it.                               *)
JsonHeight == {Absent} \cup ({"int", "float", "half"} \X Int)

(* An envelope that lacks a part, or one with some height; a predecessor,  *)
(* or what was passed in its place.                                        *)
Envelope(e) == Port!Broken(e) \/ e.height \in JsonHeight
Given(pred) == pred \in {NoPredecessor, Malformed} \/ pred.height \in JsonHeight

(* What the five readings of a height have in common.                      *)
LEMMA Readings ==
    ASSUME NEW h \in JsonHeight
    PROVE  /\ Port!Integral(h) \in Int \cup {NoHeight}
           /\ Port!IntOnly(h) \in {Port!Integral(h), NoHeight}
           /\ h # Absent /\ h[1] = "int" =>
                 /\ Port!Integral(h) \in Int
                 /\ Port!IntOnly(h) = Port!Integral(h)
                 /\ Port!Floored(h) = Port!Integral(h)
BY ReportsAssumption DEF JsonHeight, Port!Integral, Port!IntOnly, Port!Floored, Port!PortAssumption

(* TypeScript's decoder takes what every other takes.                      *)
LEMMA TsTakesMost ==
    ASSUME NEW e, NEW takes \in {Port!GoTakes, Port!JavaTakes, Port!RustTakes, Port!PythonTakes}
    PROVE  /\ Port!AnySignature(e, takes) => Port!AnySignature(e, Port!TsTakes)
           /\ (\A i \in DOMAIN e.sigs : e.sigs[i].text = "standard") =>
                 (Port!AnySignature(e, Port!TsTakes) => Port!AnySignature(e, takes))
BY DEF Port!AnySignature, Port!TsTakes, Port!GoTakes, Port!JavaTakes, Port!RustTakes, Port!PythonTakes

(* The chain check without a predecessor, and behind one.                  *)
Alone(height, prev) == height # NoHeight /\ height >= 1 /\ (height = 1 <=> prev = Genesis)

Behind(height, prev, predHash, predHeight) ==
    /\ height # NoHeight /\ height >= 1
    /\ predHash = prev /\ predHeight # NoHeight /\ height = predHeight + 1

LEMMA Links ==
    /\ \A h, prev, x, y : Port!LinkHolds(h, prev, FALSE, x, y) <=> Alone(h, prev)
    /\ \A h, prev, x, y : Port!LinkHolds(h, prev, TRUE, x, y) <=> Behind(h, prev, x, y)
BY DEF Port!LinkHolds, Alone, Behind

(* When each language says "valid".                                        *)
LEMMA TsAccepts ==
    ASSUME NEW e, NEW pred
    PROVE  /\ Port!VerifyTS(e, pred) = "valid" <=>
                 /\ ~Port!Broken(e) /\ pred # Malformed
                 /\ e.hash = "right" /\ Port!AnySignature(e, Port!TsTakes) /\ e.imprint # "mismatch"
                 /\ IF pred = NoPredecessor
                    THEN Alone(Port!Integral(e.height), e.prev)
                    ELSE Behind(Port!Integral(e.height), e.prev, pred.hash, Port!Integral(pred.height))
           /\ pred # Malformed => Port!VerifyTS(e, pred) \in {"valid", "invalid"}
<1>1. CASE Port!Broken(e)
  BY <1>1 DEF Port!VerifyTS
<1>2. CASE ~Port!Broken(e) /\ pred = Malformed
  <2>1. CASE Port!Integral(e.height) # NoHeight /\ Port!Integral(e.height) >= 1
    BY <1>2, <2>1 DEF Port!VerifyTS
  <2>2. CASE ~(Port!Integral(e.height) # NoHeight /\ Port!Integral(e.height) >= 1)
    <3>1. ~Alone(Port!Integral(e.height), e.prev)
      BY <2>2 DEF Alone
    <3> QED
      BY <1>2, <2>2, <3>1, Links DEF Port!VerifyTS, Port!Answer
  <2> QED
    BY <2>1, <2>2
<1>3. CASE ~Port!Broken(e) /\ pred = NoPredecessor
  BY <1>3, Links, ReportsAssumption DEF Port!VerifyTS, Port!Answer, Port!PortAssumption
<1>4. CASE ~Port!Broken(e) /\ pred \notin {Malformed, NoPredecessor}
  BY <1>4, Links DEF Port!VerifyTS, Port!Answer
<1> QED
  BY <1>1, <1>2, <1>3, <1>4

(* Go, Java and Rust read absent texts as the empty string.                *)
Accepts(e, pred, takes, height, predHeight) ==
    /\ ~Port!Broken(e) /\ e.hash = "right" /\ Port!AnySignature(e, takes)
    /\ pred = NoPredecessor => Alone(height, Port!Text(e.prev))
    /\ pred = Malformed => Behind(height, Port!Text(e.prev), Empty, 0)
    /\ pred \notin {NoPredecessor, Malformed} =>
          Behind(height, Port!Text(e.prev), Port!Text(pred.hash), predHeight)

LEMMA PortsAccept ==
    ASSUME NEW e, NEW pred
    PROVE  /\ Port!VerifyGo(e, pred) = "valid" <=>
                 Accepts(e, pred, Port!GoTakes, Port!Integral(e.height), Port!OrZero(Port!Integral(pred.height)))
           /\ Port!VerifyJava(e, pred) = "valid" <=>
                 Accepts(e, pred, Port!JavaTakes, Port!IntOnly(e.height), Port!Floored(pred.height))
           /\ Port!VerifyRust(e, pred) = "valid" <=>
                 Accepts(e, pred, Port!RustTakes, Port!IntOnly(e.height), Port!OrZero(Port!IntOnly(pred.height)))
           /\ {Port!VerifyGo(e, pred), Port!VerifyJava(e, pred), Port!VerifyRust(e, pred)}
                 \subseteq {"valid", "invalid"}
<1>0. NoPredecessor # Malformed
  BY ReportsAssumption DEF Port!PortAssumption
<1>1. CASE Port!Broken(e)
  BY <1>1 DEF Accepts, Port!VerifyGo, Port!VerifyJava, Port!VerifyRust
<1>2. CASE ~Port!Broken(e) /\ pred = NoPredecessor
  BY <1>0, <1>2, Links DEF Accepts, Port!VerifyGo, Port!VerifyJava, Port!VerifyRust, Port!Answer
<1>3. CASE ~Port!Broken(e) /\ pred = Malformed
  BY <1>0, <1>3, Links DEF Accepts, Port!VerifyGo, Port!VerifyJava, Port!VerifyRust, Port!Answer
<1>4. CASE ~Port!Broken(e) /\ pred \notin {NoPredecessor, Malformed}
  BY <1>4, Links DEF Accepts, Port!VerifyGo, Port!VerifyJava, Port!VerifyRust, Port!Answer
<1> QED
  BY <1>1, <1>2, <1>3, <1>4

(* Python throws for a missing part, and otherwise reads texts as they are.*)
LEMMA PythonAccepts ==
    ASSUME NEW e, NEW pred
    PROVE  /\ Port!VerifyPython(e, pred) = "valid" =>
                 /\ ~Port!Broken(e) /\ pred # Malformed
                 /\ e.hash = "right" /\ Port!AnySignature(e, Port!PythonTakes)
                 /\ IF pred = NoPredecessor
                    THEN Alone(Port!IntOnly(e.height), e.prev)
                    ELSE Behind(Port!IntOnly(e.height), e.prev, pred.hash, Port!Integral(pred.height))
           /\ Port!VerifyPython(e, pred) = "throws" =>
                 \/ Port!Broken(e) \/ e.hash = Absent \/ pred = Malformed
                 \/ pred # NoPredecessor /\ Absent \in {pred.hash, pred.height}
           /\ /\ ~Port!Broken(e) /\ e.hash # Absent /\ pred # Malformed
              /\ pred # NoPredecessor => Absent \notin {pred.hash, pred.height}
              /\ e.hash = "right" /\ Port!AnySignature(e, Port!PythonTakes)
              /\ IF pred = NoPredecessor
                 THEN Alone(Port!IntOnly(e.height), e.prev)
                 ELSE Behind(Port!IntOnly(e.height), e.prev, pred.hash, Port!Integral(pred.height))
              => Port!VerifyPython(e, pred) = "valid"
           /\ Port!VerifyPython(e, pred) \in {"valid", "invalid", "throws"}
<1>0. NoPredecessor # Malformed
  BY ReportsAssumption DEF Port!PortAssumption
<1>1. CASE Port!Broken(e) \/ e.hash = Absent
  BY <1>1 DEF Port!VerifyPython
<1>2. CASE ~Port!Broken(e) /\ e.hash # Absent /\ pred = NoPredecessor
  BY <1>0, <1>2, Links DEF Port!VerifyPython, Port!Answer
<1>3. CASE ~Port!Broken(e) /\ e.hash # Absent /\ pred = Malformed
  <2>1. CASE Port!IntOnly(e.height) # NoHeight /\ Port!IntOnly(e.height) >= 1
    BY <1>0, <1>3, <2>1 DEF Port!VerifyPython
  <2>2. CASE ~(Port!IntOnly(e.height) # NoHeight /\ Port!IntOnly(e.height) >= 1)
    <3>1. ~Alone(Port!IntOnly(e.height), e.prev)
      BY <2>2 DEF Alone
    <3> QED
      BY <1>0, <1>3, <2>2, <3>1, Links DEF Port!VerifyPython, Port!Answer
  <2> QED
    BY <2>1, <2>2
<1>4. CASE ~Port!Broken(e) /\ e.hash # Absent /\ pred \notin {NoPredecessor, Malformed}
  <2>1. CASE /\ Port!IntOnly(e.height) # NoHeight /\ Port!IntOnly(e.height) >= 1
             /\ Absent \in {pred.hash, pred.height}
    BY <1>4, <2>1 DEF Port!VerifyPython
  <2>2. CASE ~(/\ Port!IntOnly(e.height) # NoHeight /\ Port!IntOnly(e.height) >= 1
               /\ Absent \in {pred.hash, pred.height})
    BY <1>4, <2>2, Links DEF Port!VerifyPython, Port!Answer
  <2> QED
    BY <2>1, <2>2
<1> QED
  BY <1>1, <1>2, <1>3, <1>4
(* Whatever the envelope, its signatures, heights and hashes, and whatever *)
(* predecessor comes with it, the five verifiers agree as far as they do:  *)
(* src/verify.ts, go-sdk, java-sdk, rust-sdk and python-sdk.               *)
THEOREM VerifiersAlwaysAgree ==
    ASSUME NEW e, NEW pred, Envelope(e), Given(pred)
    PROVE  VerifiersAgreeOn(e, pred)
<1> DEFINE Says(l)   == Port!Verify(l, e, pred)
           standard  == \A i \in DOMAIN e.sigs : e.sigs[i].text = "standard"
           named     == pred \notin {NoPredecessor, Malformed}
           h         == Port!Integral(e.height)
           p         == Port!Integral(pred.height)
<1>1. /\ Says("ts") = Port!VerifyTS(e, pred)
      /\ Says("go") = Port!VerifyGo(e, pred)
      /\ Says("java") = Port!VerifyJava(e, pred)
      /\ Says("rust") = Port!VerifyRust(e, pred)
      /\ Says("python") = Port!VerifyPython(e, pred)
  BY DEF Port!Verify
<1>2. \A l \in Port!Languages : l \in {"ts", "go", "java", "rust", "python"}
  BY DEF Port!Languages
<1>3. NoHeight \notin Int /\ Genesis \notin {Empty, Absent}
      /\ Absent # "right" /\ NoPredecessor # Malformed
  BY ReportsAssumption DEF Port!PortAssumption
<1>4. ~Port!Broken(e) => /\ h \in Int \cup {NoHeight} /\ Port!IntOnly(e.height) \in {h, NoHeight}
                         /\ e.height # Absent /\ e.height[1] = "int" =>
                               h \in Int /\ Port!IntOnly(e.height) = h
  BY Readings DEF Envelope
<1>5. named => /\ p \in Int \cup {NoHeight} /\ Port!IntOnly(pred.height) \in {p, NoHeight}
               /\ pred.height # Absent /\ pred.height[1] = "int" =>
                     p \in Int /\ Port!IntOnly(pred.height) = p /\ Port!Floored(pred.height) = p
  BY Readings DEF Given
<1> HIDE DEF Says, standard, named, h, p
<1>6. ASSUME ~Vague(pred) \/ Written(e, pred), named
      PROVE  /\ Port!OrZero(p) = p /\ Port!OrZero(Port!IntOnly(pred.height)) = p
             /\ Port!Floored(pred.height) = p /\ p \in Int
             /\ Port!Text(pred.hash) = pred.hash
             /\ Port!Text(e.prev) = pred.hash => e.prev = pred.hash
  BY <1>3, <1>5, <1>6 DEF Vague, Written, named, Port!OrZero, Port!Text
(* What another language accepts, TypeScript does.                         *)
<1>7. ASSUME NEW l \in Port!Languages, Says(l) = "valid", ~Vague(pred) \/ Written(e, pred),
             Port!Broken(e) \/ e.imprint # "mismatch"
      PROVE  Says("ts") = "valid"
  <2>0. pred # Malformed
    BY <1>3, <1>7 DEF Vague, Written
  <2>1. ASSUME NEW takes \in {Port!GoTakes, Port!JavaTakes, Port!RustTakes}, NEW hh \in {h, NoHeight},
               NEW ph, named => ph = p, Accepts(e, pred, takes, hh, ph)
        PROVE  Says("ts") = "valid"
    <3>1. ~Port!Broken(e) /\ e.hash = "right" /\ Port!AnySignature(e, Port!TsTakes)
      BY <2>1, TsTakesMost DEF Accepts
    <3>2. CASE pred = NoPredecessor
      <4>1. Alone(h, e.prev)
        BY <2>1, <3>2, <1>3 DEF Accepts, Alone, Port!Text
      <4> QED
        BY <1>1, <1>7, <2>0, <3>1, <3>2, <4>1, TsAccepts DEF h
    <3>3. CASE named
      <4>1. Behind(h, e.prev, pred.hash, p)
        BY <2>1, <3>3, <1>6, <1>7 DEF Accepts, Behind, named
      <4> QED
        BY <1>1, <1>7, <2>0, <3>1, <3>3, <4>1, TsAccepts DEF h, p, named
    <3> QED
      BY <2>0, <3>2, <3>3 DEF named
  <2>2. CASE l = "go"
    <3>1. Port!VerifyGo(e, pred) = "valid"
      BY <1>1, <1>7, <2>2
    <3>2. Accepts(e, pred, Port!GoTakes, h, Port!OrZero(p))
      BY <3>1, PortsAccept DEF h, p
    <3>3. named => Port!OrZero(p) = p
      BY <1>6, <1>7
    <3> QED
      BY <2>1, <3>2, <3>3
  <2>3. CASE l = "java"
    BY <1>1, <1>4, <1>6, <1>7, <2>1, <2>3, PortsAccept DEF Accepts
  <2>4. CASE l = "rust"
    BY <1>1, <1>4, <1>6, <1>7, <2>1, <2>4, PortsAccept DEF Accepts
  <2>5. CASE l = "python"
    <3>1. /\ ~Port!Broken(e) /\ e.hash = "right" /\ Port!AnySignature(e, Port!TsTakes)
          /\ IF pred = NoPredecessor THEN Alone(Port!IntOnly(e.height), e.prev)
             ELSE Behind(Port!IntOnly(e.height), e.prev, pred.hash, p)
      BY <1>1, <1>7, <2>5, PythonAccepts, TsTakesMost DEF p
    <3>2. IF pred = NoPredecessor THEN Alone(h, e.prev) ELSE Behind(h, e.prev, pred.hash, p)
      BY <1>4, <3>1 DEF Alone, Behind
    <3> QED
      BY <1>1, <1>7, <2>0, <3>1, <3>2, TsAccepts DEF h, p
  <2> QED
    BY <1>2, <1>7, <2>2, <2>3, <2>4, <2>5
(* What TypeScript accepts of an SDK's receipt, every other does.          *)
<1>8. ASSUME Written(e, pred), Says("ts") = "valid", NEW l \in Port!Languages
      PROVE  Says(l) = "valid"
  <2>1. /\ ~Port!Broken(e) /\ e.hash = "right" /\ e.hash # Absent /\ pred # Malformed
        /\ standard /\ e.prev # Absent
        /\ h \in Int /\ Port!IntOnly(e.height) = h
        /\ pred # NoPredecessor => named /\ Absent \notin {pred.hash, pred.height}
    BY <1>1, <1>4, <1>8, TsAccepts DEF Written, standard, named
  <2>2. named => p \in Int /\ Port!IntOnly(pred.height) = p /\ Port!Floored(pred.height) = p
    BY <1>5, <1>8 DEF Written, named
  <2>3. /\ Port!AnySignature(e, Port!TsTakes)
        /\ IF pred = NoPredecessor THEN Alone(h, e.prev) ELSE Behind(h, e.prev, pred.hash, p)
    BY <1>1, <1>8, TsAccepts DEF h, p
  <2>4. /\ Port!Text(e.prev) = e.prev
        /\ named => Port!Text(pred.hash) = pred.hash
                    /\ Port!OrZero(p) = p /\ Port!OrZero(Port!IntOnly(pred.height)) = p
    BY <1>3, <2>1, <2>2 DEF Port!Text, Port!OrZero, named
  <2>5. \A takes \in {Port!GoTakes, Port!JavaTakes, Port!RustTakes, Port!PythonTakes} :
           Port!AnySignature(e, takes)
    BY <2>1, <2>3, TsTakesMost DEF standard
  <2>6. ASSUME NEW takes \in {Port!GoTakes, Port!JavaTakes, Port!RustTakes}, NEW ph, named => ph = p
        PROVE  Accepts(e, pred, takes, h, ph)
    BY <1>3, <2>1, <2>3, <2>4, <2>5, <2>6 DEF Accepts, named
  <2>7. Says("go") = "valid"
    BY <1>1, <2>4, <2>6, PortsAccept DEF h, p
  <2>8. Says("java") = "valid" /\ Says("rust") = "valid"
    BY <1>1, <2>1, <2>2, <2>4, <2>6, PortsAccept
  <2>9. Says("python") = "valid"
    BY <1>1, <2>1, <2>3, <2>5, PythonAccepts DEF p
  <2> QED
    BY <1>2, <1>8, <2>7, <2>8, <2>9
(* On an SDK's receipt no language throws.                                 *)
<1>9. ASSUME Written(e, pred), NEW l \in Port!Languages PROVE Says(l) \in {"valid", "invalid"}
  <2>1. /\ ~Port!Broken(e) /\ e.hash # Absent /\ pred # Malformed
        /\ pred # NoPredecessor => Absent \notin {pred.hash, pred.height}
    BY <1>3, <1>9 DEF Written
  <2>2. Says("python") \in {"valid", "invalid"}
    BY <1>1, <2>1, PythonAccepts
  <2>3. Says("ts") \in {"valid", "invalid"}
    BY <1>1, <2>1, TsAccepts
  <2>4. {Says("go"), Says("java"), Says("rust")} \subseteq {"valid", "invalid"}
    BY <1>1, PortsAccept
  <2> QED
    BY <1>2, <1>9, <2>2, <2>3, <2>4
<1>10. ASSUME NEW l \in Port!Languages, Says(l) = "throws", Says("ts") = "valid"
       PROVE  Vague(pred)
  <2>1. ~Port!Broken(e) /\ e.hash = "right" /\ pred # Malformed
    BY <1>1, <1>10, TsAccepts
  <2>2. l # "ts" /\ l \notin {"go", "java", "rust"}
    <3>1. Says(l) \notin {"valid", "invalid"}
      BY <1>10
    <3>2. {Says("ts"), Says("go"), Says("java"), Says("rust")} \subseteq {"valid", "invalid"}
      BY <1>1, <1>10, PortsAccept
    <3> QED
      BY <3>1, <3>2
  <2>3. Port!VerifyPython(e, pred) = "throws"
    BY <1>1, <1>2, <1>10, <2>2
  <2>4. pred # NoPredecessor /\ Absent \in {pred.hash, pred.height}
    BY <1>3, <2>1, <2>3, PythonAccepts
  <2> QED
    BY <2>4 DEF Vague
<1>11. ASSUME Says("ts") = "valid", standard PROVE Says("go") = "valid"
  <2>1. /\ ~Port!Broken(e) /\ e.hash = "right" /\ pred # Malformed
        /\ Port!AnySignature(e, Port!TsTakes)
        /\ IF pred = NoPredecessor THEN Alone(h, e.prev) ELSE Behind(h, e.prev, pred.hash, p)
    BY <1>1, <1>11, TsAccepts DEF h, p
  <2>2. Port!AnySignature(e, Port!GoTakes)
    BY <1>11, <2>1, TsTakesMost DEF standard
  <2>3. CASE pred = NoPredecessor
    <3>1. Alone(h, Port!Text(e.prev))
      BY <1>3, <2>1, <2>3 DEF Alone, Port!Text
    <3>2. Accepts(e, pred, Port!GoTakes, h, Port!OrZero(p))
      BY <1>3, <2>1, <2>2, <2>3, <3>1 DEF Accepts
    <3> QED
      BY <1>1, <3>2, PortsAccept DEF h, p
  <2>4. CASE named
    <3>1. Behind(h, Port!Text(e.prev), Port!Text(pred.hash), Port!OrZero(p))
      BY <2>1, <2>4 DEF Behind, Port!Text, Port!OrZero, named
    <3>2. Accepts(e, pred, Port!GoTakes, h, Port!OrZero(p))
      BY <2>1, <2>2, <2>4, <3>1 DEF Accepts, named
    <3> QED
      BY <1>1, <3>2, PortsAccept DEF h, p
  <2> QED
    BY <2>1, <2>3, <2>4 DEF named
<1> DEFINE stale == ~Port!Broken(e) /\ e.imprint = "mismatch"
<1>12. Written(e, pred) /\ ~stale => \A l \in Port!Languages : Says(l) = Says("ts")
  <2>1. "ts" \in Port!Languages
    BY DEF Port!Languages
  <2>2. ASSUME Written(e, pred), ~stale, NEW l \in Port!Languages PROVE Says(l) = Says("ts")
    <3>1. Says(l) = "valid" <=> Says("ts") = "valid"
      BY <1>7, <1>8, <2>2
    <3>2. {Says(l), Says("ts")} \subseteq {"valid", "invalid"}
      BY <1>9, <2>1, <2>2
    <3> QED
      BY <3>1, <3>2
  <2> QED
    BY <2>2
<1>13. Says("ts") # "valid" /\ ~stale /\ ~Vague(pred) => \A l \in Port!Languages : Says(l) # "valid"
  BY <1>7
<1>14. Says("ts") = "valid" => \A l \in Port!Languages : Says(l) = "throws" => Vague(pred)
  BY <1>10
<1> QED
  BY <1>11, <1>12, <1>13, <1>14 DEF VerifiersAgreeOn, Says, standard

EnvelopeInv ==
    topic = "envelope" =>
        \/ input = <<>>
        \/ \E e : Envelope(e) /\ input = <<e>>
        \/ \E e, pred : Envelope(e) /\ Given(pred) /\ input = <<e, pred>>

(* What may be added is an envelope, and then a predecessor.               *)
LEMMA ItemsAreEnvelopes ==
    ASSUME NEW x \in EnvelopeItems
    PROVE  IF input = <<>> THEN Envelope(x) ELSE Given(x)
<1>1. Heights \subseteq JsonHeight
  BY DEF Heights, JsonHeight
<1> QED
  BY <1>1 DEF EnvelopeItems, Envelope, Given, Port!Broken

(* A second item makes a pair.                                              *)
LEMMA Appended ==
    ASSUME NEW S, NEW seq \in Seq(S), NEW e \in S
    PROVE  /\ Append(seq, e) \in Seq(S) /\ Len(Append(seq, e)) = Len(seq) + 1
           /\ \A i \in 1..Len(seq) : Append(seq, e)[i] = seq[i]
           /\ Append(seq, e)[Len(seq) + 1] = e
  OBVIOUS

LEMMA SameItems ==
    ASSUME NEW S, NEW s \in Seq(S), NEW t \in Seq(S), Len(s) = 2, Len(t) = 2,
           s[1] = t[1], s[2] = t[2]
    PROVE  s = t
<1>1. \A i \in 1..2 : s[i] = t[i]
  OBVIOUS
<1> QED
  BY <1>1

LEMMA AppendingToOne == ASSUME NEW e, NEW x PROVE Append(<<e>>, x) = <<e, x>>
<1> DEFINE S == {e, x}
           s == <<e>>
           t == <<e, x>>
           r == Append(s, x)
<1>1. /\ s \in Seq(S) /\ Len(s) = 1 /\ s[1] = e
      /\ t \in Seq(S) /\ Len(t) = 2 /\ t[1] = e /\ t[2] = x /\ x \in S
  OBVIOUS
<1>2. r = Append(s, x)
  OBVIOUS
<1> HIDE DEF S, s, t, r
<1>3. r \in Seq(S) /\ Len(r) = 1 + 1 /\ r[1] = s[1] /\ r[1 + 1] = x
  <2>1. s \in Seq(S) /\ x \in S
    BY <1>1
  <2>2. /\ Append(s, x) \in Seq(S) /\ Len(Append(s, x)) = Len(s) + 1
        /\ \A i \in 1..Len(s) : Append(s, x)[i] = s[i]
        /\ Append(s, x)[Len(s) + 1] = x
    BY <2>1, Appended
  <2>3. /\ r \in Seq(S) /\ Len(r) = Len(s) + 1
        /\ \A i \in 1..Len(s) : r[i] = s[i]
        /\ r[Len(s) + 1] = x
    BY <1>2, <2>2, Zenon
  <2> QED
    BY <1>1, <2>3
<1>4. r = t
  BY <1>1, <1>3, SameItems
<1> QED
  BY <1>4 DEF r, s, t

LEMMA NextKeepsEnvelopes == EnvelopeInv /\ [Next]_vars => EnvelopeInv'
<1> SUFFICES ASSUME EnvelopeInv, [Next]_vars, topic' = "envelope" PROVE EnvelopeInv'
  BY DEF EnvelopeInv
<1>1. CASE UNCHANGED vars
  BY <1>1 DEF vars, EnvelopeInv
<1>2. CASE Next
  <2>1. topic = "envelope" /\ Adds(EnvelopeItems, 2)
    BY <1>2 DEF Next
  <2>2. PICK x \in EnvelopeItems : input' = Append(input, x) /\ Len(input) < 2
    BY <2>1 DEF Adds
  <2>3. IF input = <<>> THEN Envelope(x) ELSE Given(x)
    BY ItemsAreEnvelopes
  <2>4. CASE input = <<>>
    <3>1. input' = <<x>>
      BY <2>2, <2>4
    <3> QED
      BY <2>3, <2>4, <3>1 DEF EnvelopeInv
  <2>5. CASE input # <<>>
    <3>1. ASSUME NEW e, NEW pred PROVE input # <<e, pred>>
      BY <2>2
    <3>2. PICK e : Envelope(e) /\ input = <<e>>
      BY <2>1, <2>5, <3>1 DEF EnvelopeInv
    <3>3. Append(<<e>>, x) = <<e, x>>
      BY AppendingToOne
    <3>4. input' = <<e, x>>
      BY <2>2, <3>2, <3>3
    <3> QED
      BY <2>3, <2>5, <3>2, <3>4 DEF EnvelopeInv
  <2> QED
    BY <2>4, <2>5
<1> QED
  BY <1>1, <1>2

(* In the run's envelopes they agree: the theorem above, of what a         *)
(* behaviour grows.                                                        *)
THEOREM ReportsVerifiersAgree == Spec => []VerifiersAgree
<1>1. Init => EnvelopeInv
  BY DEF Init, EnvelopeInv
<1>2. EnvelopeInv => VerifiersAgree
  <2> SUFFICES ASSUME EnvelopeInv, topic = "envelope", input # <<>>
               PROVE  VerifiersAgreeOn(input[1], IF Len(input) = 2 THEN input[2] ELSE NoPredecessor)
    BY DEF VerifiersAgree
  <2>1. ASSUME NEW e, Envelope(e), input = <<e>>
        PROVE  VerifiersAgreeOn(input[1], IF Len(input) = 2 THEN input[2] ELSE NoPredecessor)
    <3>1. VerifiersAgreeOn(e, NoPredecessor)
      BY <2>1, VerifiersAlwaysAgree DEF Given
    <3>2. input[1] = e /\ Len(input) = 1
      BY <2>1
    <3> QED
      BY <3>1, <3>2
  <2>2. ASSUME NEW e, NEW pred, Envelope(e), Given(pred), input = <<e, pred>>
        PROVE  VerifiersAgreeOn(input[1], IF Len(input) = 2 THEN input[2] ELSE NoPredecessor)
    <3>1. VerifiersAgreeOn(e, pred)
      BY <2>2, VerifiersAlwaysAgree
    <3>2. input[1] = e /\ input[2] = pred /\ Len(input) = 2
      BY <2>2
    <3> QED
      BY <3>1, <3>2
  <2> QED
    BY <2>1, <2>2 DEF EnvelopeInv
<1> QED
  BY <1>1, <1>2, NextKeepsEnvelopes, PTL DEF Spec
-----------------------------------------------------------------------------
(* Workflow graphs.  A set of naturals with zero and every successor.      *)
LEMMA AllNaturals ==
    ASSUME NEW S \in SUBSET Nat, 0 \in S, \A n \in S : n + 1 \in S
    PROVE  S = Nat
<1> DEFINE R == OpToRel(<, Nat)
           T == Nat \ S
<1>1. IsWellFoundedOn(R, Nat) /\ T \in SUBSET Nat
  BY NatLessThanWellFounded
<1>2. \A n, m \in Nat : n < m => <<n, m>> \in R
  BY DEF OpToRel
<1> HIDE DEF R
<1>3. SUFFICES ASSUME T # {} PROVE FALSE
  OBVIOUS
<1>4. PICK m \in T : \A n \in T : ~(<<n, m>> \in R)
  BY <1>1, <1>3, WFMin
<1>5. m \in Nat /\ m # 0 /\ m - 1 \in Nat /\ m - 1 < m
  BY <1>4
<1>6. m - 1 \in S
  BY <1>2, <1>4, <1>5
<1>7. (m - 1) + 1 \in S
  BY <1>6
<1> QED
  BY <1>4, <1>5, <1>7

(* A step of a recursive function of the model, from x at i.               *)
StepOf(kind, a, b, x, i) ==
    CASE kind = "kept"    -> IF i \in b THEN Append(x, a[i]) ELSE x
      [] kind = "settled" -> Flow!Settle(a, x, b, i)
      [] kind = "turned"  -> Flow!KahnTurn(a, x)
      [] kind = "spent"   -> IF Decide(a, x, b[i]) = "deny" THEN x ELSE x + b[i]

Iterates(kind, a, b, start, n, f) ==
    f = [i \in 0 .. n |-> IF i = 0 THEN start ELSE StepOf(kind, a, b, f[i - 1], i)]

(* There are such functions.                                               *)
LEMMA Iteration ==
    ASSUME NEW kind, NEW a, NEW b, NEW start, NEW n \in Nat
    PROVE  \E f : Iterates(kind, a, b, start, n, f)
<1> DEFINE Step(x, i) == StepOf(kind, a, b, x, i)
           Has(m, f) == f = [i \in 0 .. m |-> IF i = 0 THEN start ELSE Step(f[i - 1], i)]
           T == {m \in Nat : \E f : Has(m, f)}
<1> HIDE DEF Step
<1>1. 0 \in T
  <2> DEFINE f == [i \in 0 .. 0 |-> start]
  <2>1. Has(0, f)
    OBVIOUS
  <2> QED
    BY <2>1
<1>2. ASSUME NEW m \in T PROVE m + 1 \in T
  <2>1. PICK f : Has(m, f)
    OBVIOUS
  <2> DEFINE g == [i \in 0 .. m + 1 |-> IF i = m + 1 THEN Step(f[m], m + 1) ELSE f[i]]
  <2>2. m \in Nat /\ m + 1 \in Nat
    OBVIOUS
  <2>3. \A i \in 0 .. m : g[i] = f[i] /\ f[i] = IF i = 0 THEN start ELSE Step(f[i - 1], i)
    BY <2>1, <2>2
  <2>4. g[m + 1] = Step(f[m], m + 1)
    BY <2>2
  <2>5. \A i \in 0 .. m + 1 : g[i] = IF i = 0 THEN start ELSE Step(g[i - 1], i)
    <3> HIDE DEF g, Has
    <3>1. \A i \in 0 .. m + 1 : i = m + 1 \/ (i \in 0 .. m /\ (i = 0 \/ i - 1 \in 0 .. m))
      BY <2>2
    <3>2. m \in 0 .. m /\ (m + 1) - 1 = m /\ m + 1 # 0
      BY <2>2
    <3> QED
      BY <2>3, <2>4, <3>1, <3>2
  <2>6. Has(m + 1, g)
    <3>1. g = [i \in 0 .. m + 1 |-> g[i]]
      OBVIOUS
    <3> HIDE DEF g
    <3> QED
      BY <2>5, <3>1
  <2> HIDE DEF Has
  <2> QED
    BY <2>2, <2>6
<1> HIDE DEF Has
<1>3. T \in SUBSET Nat
  OBVIOUS
<1> HIDE DEF T
<1>4. T = Nat
  BY <1>1, <1>2, <1>3, AllNaturals
<1>5. PICK f : Has(n, f)
  BY <1>4 DEF T
<1> QED
  BY <1>5 DEF Has, Step, Iterates

(* A sequence as what is kept of it, place by place.                       *)
LEMMA KeptTable ==
    ASSUME NEW s, Len(s) \in Nat, NEW P
    PROVE  \E k : /\ Flow!Kept(s, P) = k[Len(s)] /\ k[0] = <<>>
                  /\ \A i \in 1 .. Len(s) :
                        k[i] = IF i \in P THEN Append(k[i - 1], s[i]) ELSE k[i - 1]
<1> DEFINE n == Len(s)
           Is(k) == k = [i \in 0 .. n |-> IF i = 0 THEN <<>>
                                          ELSE IF i \in P THEN Append(k[i - 1], s[i]) ELSE k[i - 1]]
<1>1. PICK f : Iterates("kept", s, P, <<>>, n, f)
  BY Iteration
<1>2. Is(f)
  BY <1>1, Zenon DEF Iterates, StepOf
<1> DEFINE k == CHOOSE f_1 : Is(f_1)
<1>3. Is(k)
  BY <1>2, Zenon
<1>4. Flow!Kept(s, P) = k[n]
  BY DEF Flow!Kept
<1> HIDE DEF k
<1>5. k[0] = <<>> /\ \A i \in 1 .. n : k[i] = IF i \in P THEN Append(k[i - 1], s[i]) ELSE k[i - 1]
  <2>1. 0 \in 0 .. n /\ \A i \in 1 .. n : i \in 0 .. n /\ i # 0
    OBVIOUS
  <2> HIDE DEF n
  <2> QED
    BY <1>3, <2>1
<1> QED
  BY <1>4, <1>5

(* The tables of a turn's settling and of the loop's turns.                *)
LEMMA TurnTable ==
    ASSUME NEW rs, Len(rs) \in Nat, NEW st, st.ready # <<>>
    PROVE  \E k : /\ Flow!KahnTurn(rs, st) = k[Len(rs)] /\ k[0] = Flow!Shift(rs, st)
                  /\ \A i \in 1 .. Len(rs) :
                        k[i] = Flow!Settle(rs, k[i - 1], Flow!FirstReady(rs, st.ready), i)
<1> DEFINE n == Len(rs)
           id == Flow!FirstReady(rs, st.ready)
           Is(k) == k = [i \in 0 .. n |-> IF i = 0 THEN Flow!Shift(rs, st)
                                          ELSE Flow!Settle(rs, k[i - 1], id, i)]
<1>1. PICK f : Iterates("settled", rs, id, Flow!Shift(rs, st), n, f)
  <2> HIDE DEF id
  <2> QED
    BY Iteration
<1>2. Is(f)
  <2> HIDE DEF id
  <2> QED
    BY <1>1 DEF Iterates, StepOf
<1> DEFINE k == CHOOSE f_1 : Is(f_1)
<1>3. Is(k)
  <2> HIDE DEF id
  <2> QED
    BY <1>2
<1>4. Flow!KahnTurn(rs, st) = k[n]
  BY DEF Flow!KahnTurn
<1> HIDE DEF k
<1>5. k[0] = Flow!Shift(rs, st) /\ \A i \in 1 .. n : k[i] = Flow!Settle(rs, k[i - 1], id, i)
  <2>1. 0 \in 0 .. n /\ \A i \in 1 .. n : i \in 0 .. n /\ i # 0
    OBVIOUS
  <2> HIDE DEF n, id
  <2> QED
    BY <1>3, <2>1
<1> QED
  BY <1>4, <1>5

Turns(rs, start, k) ==
    /\ Flow!Kahn(rs, start) = k[2 * Len(rs)] /\ k[0] = start
    /\ \A i \in 1 .. 2 * Len(rs) : k[i] = Flow!KahnTurn(rs, k[i - 1])

LEMMA LoopTable == ASSUME NEW rs, Len(rs) \in Nat, NEW start PROVE \E k : Turns(rs, start, k)
<1> DEFINE n == 2 * Len(rs)
           Is(k) == k = [i \in 0 .. n |-> IF i = 0 THEN start ELSE Flow!KahnTurn(rs, k[i - 1])]
<1>0. n \in Nat
  OBVIOUS
<1>1. PICK f : Iterates("turned", rs, 0, start, n, f)
  <2> HIDE DEF n
  <2> QED
    BY <1>0, Iteration
<1>2. Is(f)
  <2> HIDE DEF n
  <2> QED
    BY <1>1 DEF Iterates, StepOf
<1> DEFINE k == CHOOSE f_1 : Is(f_1)
<1>3. Is(k)
  BY <1>2
<1>4. Flow!Kahn(rs, start) = k[n]
  BY DEF Flow!Kahn
<1> HIDE DEF k
<1>5. k[0] = start /\ \A i \in 1 .. n : k[i] = Flow!KahnTurn(rs, k[i - 1])
  <2>1. 0 \in 0 .. n /\ \A i \in 1 .. n : i \in 0 .. n /\ i # 0
    BY <1>0
  <2> HIDE DEF n
  <2> QED
    BY <1>3, <2>1
<1> QED
  BY <1>4, <1>5 DEF Turns

(* k has what s has at the places P, each of them once.                    *)
Picks(k, s, P, at) ==
    /\ at \in [DOMAIN k -> P]
    /\ \A j \in DOMAIN k : k[j] = s[at[j]]
    /\ \A i, j \in DOMAIN k : at[i] = at[j] => i = j
    /\ \A p \in P : \E j \in DOMAIN k : at[j] = p

LEMMA PicksAppended ==
    ASSUME NEW S, NEW s, NEW P, NEW k \in Seq(S), NEW at, Picks(k, s, P, at), NEW p, p \notin P, s[p] \in S
    PROVE  Append(k, s[p]) \in Seq(S) /\ \E to : Picks(Append(k, s[p]), s, P \cup {p}, to)
<1> DEFINE n == Len(k)
           g == Append(k, s[p])
           to == [j \in 1 .. n + 1 |-> IF j = n + 1 THEN p ELSE at[j]]
<1>1. n \in Nat /\ DOMAIN k = 1 .. n /\ g \in Seq(S) /\ DOMAIN g = 1 .. n + 1
  OBVIOUS
<1>2. g[n + 1] = s[p] /\ \A j \in 1 .. n : g[j] = k[j]
  OBVIOUS
<1>3. to[n + 1] = p /\ DOMAIN to = 1 .. n + 1 /\ to = [j \in 1 .. n + 1 |-> to[j]]
  BY <1>1
<1>4. \A j \in 1 .. n : to[j] = at[j] /\ at[j] \in P
  BY <1>1 DEF Picks
<1>5. \A j \in 1 .. n + 1 : j \in 1 .. n \/ j = n + 1
  BY <1>1
<1>6. n + 1 \in 1 .. n + 1 /\ \A j \in 1 .. n : j \in 1 .. n + 1
  BY <1>1
<1> HIDE DEF n, g, to
<1>7. to \in [DOMAIN g -> P \cup {p}]
  BY <1>1, <1>3, <1>4, <1>5
<1>8. \A j \in DOMAIN g : g[j] = s[to[j]]
  BY <1>1, <1>2, <1>3, <1>4, <1>5 DEF Picks
<1>9. \A i, j \in DOMAIN g : to[i] = to[j] => i = j
  BY <1>1, <1>3, <1>4, <1>5 DEF Picks
<1>10. \A q \in P \cup {p} : \E j \in DOMAIN g : to[j] = q
  BY <1>1, <1>3, <1>4, <1>6 DEF Picks
<1> QED
  BY <1>1, <1>7, <1>8, <1>9, <1>10 DEF Picks, g

LEMMA KeptPicks ==
    ASSUME NEW S, NEW s \in Seq(S), NEW P \in SUBSET DOMAIN s
    PROVE  Flow!Kept(s, P) \in Seq(S) /\ \E at : Picks(Flow!Kept(s, P), s, P, at)
<1> DEFINE n == Len(s)
<1>1. n \in Nat /\ DOMAIN s = 1 .. n /\ \A i \in 1 .. n : s[i] \in S
  OBVIOUS
<1>2. PICK k : /\ Flow!Kept(s, P) = k[n] /\ k[0] = <<>>
               /\ \A i \in 1 .. n : k[i] = IF i \in P THEN Append(k[i - 1], s[i]) ELSE k[i - 1]
  BY <1>1, KeptTable, ZenonT(40)
<1> HIDE DEF n
<1> DEFINE Q(i) == P \cap 1 .. i
           Done(i) == k[i] \in Seq(S) /\ \E at : Picks(k[i], s, Q(i), at)
           T == {i \in Nat : i <= n => Done(i)}
<1>3. 0 \in T
  <2>1. k[0] \in Seq(S) /\ DOMAIN k[0] = {} /\ Q(0) = {}
    BY <1>2
  <2>2. Picks(k[0], s, Q(0), <<>>)
    BY <2>1 DEF Picks
  <2> QED
    BY <2>1, <2>2
<1>4. ASSUME NEW i \in T PROVE i + 1 \in T
  <2>0. i \in Nat /\ i + 1 \in Nat
    OBVIOUS
  <2>1. SUFFICES ASSUME i + 1 <= n PROVE Done(i + 1)
    BY <2>0
  <2>2. i <= n /\ i + 1 \in 1 .. n /\ (i + 1) - 1 = i
    BY <1>1, <2>0, <2>1
  <2>5. Done(i)
    <3> HIDE DEF Done
    <3> QED
      BY <2>2
  <2>3. k[i + 1] = IF i + 1 \in P THEN Append(k[i], s[i + 1]) ELSE k[i]
    BY <1>2, <2>2
  <2>4. i + 1 \notin Q(i) /\ Q(i + 1) = IF i + 1 \in P THEN Q(i) \cup {i + 1} ELSE Q(i)
    BY <1>1, <2>0
  <2> HIDE DEF Q
  <2>6. CASE i + 1 \in P
    <3>1. PICK at : Picks(k[i], s, Q(i), at)
      BY <2>5
    <3>2. k[i] \in Seq(S) /\ s[i + 1] \in S
      BY <1>1, <2>2, <2>5
    <3>3. Append(k[i], s[i + 1]) \in Seq(S) /\ \E to : Picks(Append(k[i], s[i + 1]), s, Q(i) \cup {i + 1}, to)
      BY <2>4, <3>1, <3>2, PicksAppended
    <3> QED
      BY <2>3, <2>4, <2>6, <3>3
  <2>7. CASE i + 1 \notin P
    BY <2>3, <2>4, <2>5, <2>7
  <2> QED
    BY <2>6, <2>7
<1> HIDE DEF Done
<1>5. T \in SUBSET Nat
  OBVIOUS
<1> HIDE DEF T
<1>6. T = Nat
  BY <1>3, <1>4, <1>5, AllNaturals
<1>7. Done(n)
  BY <1>1, <1>6 DEF T
<1>8. Q(n) = P
  BY <1>1
<1> QED
  BY <1>2, <1>7, <1>8 DEF Done

(* What is left of a sequence without doubles when an entry is taken out.  *)
Once(s) == \A i, j \in DOMAIN s : s[i] = s[j] => i = j

LEMMA Concatenated ==
    ASSUME NEW S, NEW u \in Seq(S), NEW v \in Seq(S)
    PROVE  /\ u \o v \in Seq(S) /\ Len(u \o v) = Len(u) + Len(v) /\ Len(u) \in Nat /\ Len(v) \in Nat
           /\ \A i \in 1 .. Len(u) + Len(v) : (u \o v)[i] = IF i <= Len(u) THEN u[i] ELSE v[i - Len(u)]
OBVIOUS

LEMMA Removed ==
    ASSUME NEW S, NEW s \in Seq(S), Once(s), NEW a \in DOMAIN s
    PROVE  LET r == Flow!RemoveAt(s, a)
           IN  r \in Seq(S) /\ Once(r) /\ Range(r) = Range(s) \ {s[a]}
<1> DEFINE r == Flow!RemoveAt(s, a)
           n == Len(s)
<1>1. n \in Nat /\ DOMAIN s = 1 .. n /\ a \in 1 .. n /\ \A i \in 1 .. n : s[i] \in S
  OBVIOUS
<1>2. r \in Seq(S) /\ Len(r) = n - 1 /\ \A i \in 1 .. n - 1 : r[i] = IF i < a THEN s[i] ELSE s[i + 1]
  <2> DEFINE u == SubSeq(s, 1, a - 1)
             v == SubSeq(s, a + 1, n)
  <2>1. u \in Seq(S) /\ Len(u) = a - 1 /\ \A i \in 1 .. a - 1 : u[i] = s[i]
    BY <1>1
  <2>2. v \in Seq(S) /\ Len(v) = n - a /\ \A i \in 1 .. n - a : v[i] = s[a + i]
    <3>1. CASE a + 1 <= n
      BY <1>1, <3>1
    <3>2. CASE a = n
      BY <1>1, <3>2
    <3> QED
      BY <1>1, <3>1, <3>2
  <2>3. r = u \o v
    BY DEF Flow!RemoveAt
  <2> HIDE DEF u, v, r, n
  <2>6. /\ r \in Seq(S) /\ Len(r) = Len(u) + Len(v)
        /\ \A i \in 1 .. Len(u) + Len(v) : r[i] = IF i <= Len(u) THEN u[i] ELSE v[i - Len(u)]
    BY <2>1, <2>2, <2>3, Concatenated
  <2>4. r \in Seq(S) /\ Len(r) = n - 1
    BY <1>1, <2>1, <2>2, <2>6
  <2>5. ASSUME NEW i \in 1 .. n - 1 PROVE r[i] = IF i < a THEN s[i] ELSE s[i + 1]
    <3>1. CASE i < a
      <4>1. i \in 1 .. a - 1
        BY <1>1, <3>1
      <4> QED
        BY <1>1, <2>1, <2>2, <2>6, <3>1, <4>1
    <3>2. CASE ~(i < a)
      <4>1. i - (a - 1) \in 1 .. n - a /\ a + (i - (a - 1)) = i + 1
        BY <1>1, <3>2
      <4>2. r[i] = v[i - (a - 1)]
        BY <1>1, <2>1, <2>2, <2>6, <3>2
      <4> QED
        BY <2>2, <3>2, <4>1, <4>2
    <3> QED
      BY <3>1, <3>2
  <2> QED
    BY <2>4, <2>5
<1> HIDE DEF r, n
<1>3. DOMAIN r = 1 .. n - 1
  BY <1>2
<1>4. Once(r)
  <2> SUFFICES ASSUME NEW i \in 1 .. n - 1, NEW j \in 1 .. n - 1, r[i] = r[j] PROVE i = j
    BY <1>3 DEF Once
  <2> DEFINE To(x) == IF x < a THEN x ELSE x + 1
  <2>1. To(i) \in 1 .. n /\ To(j) \in 1 .. n
    BY <1>1
  <2>2. s[To(i)] = s[To(j)]
    BY <1>2
  <2>3. To(i) = To(j)
    <3> HIDE DEF To
    <3> QED
      BY <1>1, <2>1, <2>2 DEF Once
  <2> QED
    BY <1>1, <2>3
<1>5. \A x \in Range(r) : x \in Range(s) \ {s[a]}
  <2> SUFFICES ASSUME NEW i \in 1 .. n - 1 PROVE r[i] \in Range(s) \ {s[a]}
    BY <1>3 DEF Range
  <2> DEFINE l == IF i < a THEN i ELSE i + 1
  <2>1. l \in 1 .. n /\ l # a /\ r[i] = s[l]
    BY <1>1, <1>2
  <2> QED
    BY <1>1, <2>1 DEF Once, Range
<1>6. \A l \in 1 .. n : l # a => s[l] \in Range(r)
  <2> SUFFICES ASSUME NEW l \in 1 .. n, l # a PROVE s[l] \in Range(r)
    OBVIOUS
  <2> DEFINE i == IF l < a THEN l ELSE l - 1
  <2>1. i \in 1 .. n - 1 /\ r[i] = s[l]
    BY <1>1, <1>2
  <2> QED
    BY <1>3, <2>1 DEF Range
<1> QED
  BY <1>1, <1>2, <1>4, <1>5, <1>6 DEF Range, r

(* The receipts of a run: ids and heights are integers, and no id is used  *)
(* twice.                                                                  *)
Traced(rs) ==
    /\ Len(rs) \in Nat /\ DOMAIN rs = 1 .. Len(rs)
    /\ \A i \in DOMAIN rs : rs[i].id \in Int /\ rs[i].height \in Int /\ rs[i].parents \in Seq(Int)
    /\ \A i, j \in DOMAIN rs : rs[i].id = rs[j].id => i = j

LEMMA ByIdIs ==
    ASSUME NEW rs, Traced(rs), NEW i \in DOMAIN rs
    PROVE  Flow!ById(rs, rs[i].id) = rs[i]
<1> DEFINE P == {j \in DOMAIN rs : rs[j].id = rs[i].id}
<1>1. P = {i} /\ i \in Int
  BY DEF Traced
<1> HIDE DEF P
<1>2. Flow!Max(P) = i
  BY <1>1 DEF Flow!Max
<1>3. Flow!ById(rs, rs[i].id) = rs[Flow!Max(P)]
  BY DEF Flow!ById, P
<1> QED
  BY <1>2, <1>3

(* The parents of c in the run, and whether it lists one of them twice.    *)
Listed(rs, c) == Flow!ById(rs, c).parents

ParentsIn(rs, c) == ToSet(Listed(rs, c)) \cap Flow!Ids(rs)

Twice(rs, c) ==
    \E i, j \in Flow!PresentParents(rs, c) : i # j /\ Listed(rs, c)[i] = Listed(rs, c)[j]

LEMMA ReceiptOf ==
    ASSUME NEW rs, Traced(rs), NEW c \in Flow!Ids(rs)
    PROVE  /\ \E i \in DOMAIN rs : rs[i].id = c /\ Flow!ById(rs, c) = rs[i]
           /\ c \in Int /\ Flow!ById(rs, c).height \in Int /\ Listed(rs, c) \in Seq(Int)
<1>1. PICK i \in DOMAIN rs : rs[i].id = c
  BY DEF Flow!Ids
<1>2. Flow!ById(rs, c) = rs[i]
  BY <1>1, ByIdIs
<1> QED
  BY <1>1, <1>2 DEF Traced, Listed

(* The entries of c in the list of parents outnumber those of its parents  *)
(* that are in D, unless all are and none is listed twice.                 *)
LEMMA EntriesCounted ==
    ASSUME NEW rs, Traced(rs), NEW c \in Flow!Ids(rs), NEW D
    PROVE  /\ Cardinality(Flow!PresentParents(rs, c)) \in Nat
           /\ Cardinality(ParentsIn(rs, c) \cap D) \in Nat
           /\ IsFiniteSet(ParentsIn(rs, c) \cap D)
           /\ Cardinality(Flow!PresentParents(rs, c)) = Cardinality(ParentsIn(rs, c) \cap D)
                 <=> ParentsIn(rs, c) \subseteq D /\ ~Twice(rs, c)
<1> DEFINE l == Listed(rs, c)
           E == Flow!PresentParents(rs, c)
           P == ParentsIn(rs, c)
           n == Len(l)
           f == [j \in E |-> l[j]]
<1>1. n \in Nat /\ DOMAIN l = 1 .. n
  BY ReceiptOf
<1>2. E = {j \in 1 .. n : l[j] \in Flow!Ids(rs)}
  BY <1>1 DEF Flow!PresentParents, Listed
<1>3. P = {l[j] : j \in E}
  BY <1>1, <1>2 DEF ParentsIn, ToSet
<1>4. IsFiniteSet(E)
  <2>1. IsFiniteSet(1 .. n) /\ E \in SUBSET 1 .. n
    BY <1>1, <1>2, FS_Interval
  <2> HIDE DEF E, n
  <2> QED
    BY <2>1, FS_Subset
<1>5. f \in Surjection(E, P)
  BY <1>3 DEF Surjection
<1>6. f \in Injection(E, P) <=> ~Twice(rs, c)
  <2>1. f \in [E -> P]
    BY <1>3
  <2>2. f \in Injection(E, P) <=> \A i, j \in E : f[i] = f[j] => i = j
    BY <2>1 DEF Injection, IsInjective
  <2>3. \A j \in E : f[j] = l[j]
    OBVIOUS
  <2> QED
    BY <2>2, <2>3 DEF Twice
<1> HIDE DEF E, P, f
<1>7. /\ IsFiniteSet(P) /\ Cardinality(P) <= Cardinality(E)
      /\ Cardinality(P) = Cardinality(E) <=> f \in Injection(E, P)
  BY <1>4, <1>5, FS_Surjection
<1>8. P \cap D \in SUBSET P
  OBVIOUS
<1>9. IsFiniteSet(P \cap D) /\ Cardinality(P \cap D) <= Cardinality(P) /\ (Cardinality(P) = Cardinality(P \cap D) => P = P \cap D)
  BY <1>7, <1>8, FS_Subset
<1>10. Cardinality(E) \in Nat /\ Cardinality(P) \in Nat /\ Cardinality(P \cap D) \in Nat
  BY <1>4, <1>7, <1>9, FS_CardinalityType
<1>11. P \subseteq D <=> P = P \cap D
  OBVIOUS
<1>12. Cardinality(E) = Cardinality(P \cap D) <=> P \subseteq D /\ ~Twice(rs, c)
  BY <1>6, <1>7, <1>9, <1>10, <1>11
<1> QED
  BY <1>9, <1>10, <1>12 DEF E, P

(* Of two ids that are ready, the one that goes first.                     *)
Before(rs, a, b) ==
    \/ Flow!ById(rs, a).height < Flow!ById(rs, b).height
    \/ Flow!ById(rs, a).height = Flow!ById(rs, b).height /\ a <= b

LEMMA FirstReadyIs ==
    ASSUME NEW rs, Traced(rs), NEW ready \in Seq(Flow!Ids(rs)), ready # <<>>
    PROVE  /\ Flow!FirstReady(rs, ready) \in Range(ready)
           /\ \A b \in Range(ready) : Before(rs, Flow!FirstReady(rs, ready), b)
<1> DEFINE n == Len(ready)
           Some(m) == \E a \in 1 .. m : \A b \in 1 .. m : Before(rs, ready[a], ready[b])
           T == {m \in Nat : m + 1 <= n => Some(m + 1)}
<1>1. n \in Nat /\ n # 0 /\ DOMAIN ready = 1 .. n /\ \A i \in 1 .. n : ready[i] \in Flow!Ids(rs)
  OBVIOUS
<1>2. \A a, b, c \in Flow!Ids(rs) :
         /\ Before(rs, a, a) /\ (Before(rs, a, b) \/ Before(rs, b, a))
         /\ Before(rs, a, b) /\ Before(rs, b, c) => Before(rs, a, c)
  <2>1. \A a \in Flow!Ids(rs) : a \in Int /\ Flow!ById(rs, a).height \in Int
    BY ReceiptOf
  <2> QED
    BY <2>1 DEF Before
<1> HIDE DEF n
<1>3. 0 \in T
  <2>1. 1 \in 1 .. n /\ 1 .. 0 + 1 = {1}
    BY <1>1
  <2> QED
    BY <1>1, <1>2, <2>1
<1>4. ASSUME NEW m \in T PROVE m + 1 \in T
  <2>0. m \in Nat /\ m + 1 \in Nat
    OBVIOUS
  <2> SUFFICES ASSUME (m + 1) + 1 <= n PROVE Some((m + 1) + 1)
    BY <2>0
  <2>1. m + 1 <= n /\ (m + 1) + 1 \in 1 .. n
    BY <1>1, <2>0
  <2>2. PICK a \in 1 .. m + 1 : \A b \in 1 .. m + 1 : Before(rs, ready[a], ready[b])
    BY <2>1
  <2> DEFINE z == (m + 1) + 1
  <2>3. a \in 1 .. z /\ z \in 1 .. z /\ \A b \in 1 .. z : b \in 1 .. n /\ (b \in 1 .. m + 1 \/ b = z)
    BY <1>1, <2>0, <2>1
  <2> HIDE DEF z
  <2>4. CASE Before(rs, ready[a], ready[z])
    BY <2>2, <2>3, <2>4 DEF z
  <2>5. CASE Before(rs, ready[z], ready[a])
    <3>1. \A b \in 1 .. z : Before(rs, ready[z], ready[b])
      BY <1>1, <1>2, <2>2, <2>3, <2>5
    <3> QED
      BY <2>3, <3>1 DEF z
  <2> QED
    BY <1>1, <1>2, <2>3, <2>4, <2>5
<1> HIDE DEF Some
<1>5. T \in SUBSET Nat
  OBVIOUS
<1> HIDE DEF T
<1>6. T = Nat
  BY <1>3, <1>4, <1>5, AllNaturals
<1>7. n - 1 \in Nat /\ (n - 1) + 1 = n
  BY <1>1
<1>8. Some(n)
  BY <1>6, <1>7 DEF T
<1>9. PICK i \in 1 .. n : \A j \in 1 .. n : Before(rs, ready[i], ready[j])
  BY <1>8 DEF Some
<1>10. ready[i] \in ToSet(ready) /\ \A b \in ToSet(ready) : Before(rs, ready[i], b)
  BY <1>1, <1>9 DEF ToSet
<1>11. Flow!FirstReady(rs, ready) = CHOOSE x \in ToSet(ready) : \A b \in ToSet(ready) : Before(rs, x, b)
  BY DEF Flow!FirstReady, Before, Flow!ToSet, ToSet
<1>12. Flow!FirstReady(rs, ready) \in ToSet(ready) /\ \A b \in ToSet(ready) : Before(rs, Flow!FirstReady(rs, ready), b)
  BY <1>10, <1>11
<1> QED
  BY <1>12 DEF ToSet, Range

(* The receipts that may come next when D is placed.                       *)
Readied(rs, D) == {c \in Flow!Ids(rs) \ D : ParentsIn(rs, c) \subseteq D /\ ~Twice(rs, c)}

(* The ids placed before the k-th.                                         *)
PlacedBy(order, k) == {order[i] : i \in 1 .. k - 1}

(* An order as it should be, from its beginning to some receipt.           *)
InOrder(rs, order) ==
    /\ order \in Seq(Flow!Ids(rs)) /\ Once(order)
    /\ \A k \in DOMAIN order :
          /\ order[k] \in Readied(rs, PlacedBy(order, k))
          /\ \A b \in Readied(rs, PlacedBy(order, k)) : Before(rs, order[k], b)

Counted(rs, indeg, D) ==
    /\ indeg \in [Flow!Ids(rs) -> Int]
    /\ \A c \in Flow!Ids(rs) :
          indeg[c] = Cardinality(Flow!PresentParents(rs, c)) - Cardinality(ParentsIn(rs, c) \cap D)

IsState(st) == st = [ready |-> st.ready, order |-> st.order, indeg |-> st.indeg]

(* Between two turns of the loop.                                          *)
KahnInv(rs, st) ==
    /\ IsState(st)
    /\ InOrder(rs, st.order)
    /\ Counted(rs, st.indeg, Range(st.order))
    /\ st.ready \in Seq(Flow!Ids(rs)) /\ Once(st.ready)
    /\ Range(st.ready) = Readied(rs, Range(st.order))

LEMMA CountedZero ==
    ASSUME NEW rs, Traced(rs), NEW indeg, NEW D, Counted(rs, indeg, D), NEW c \in Flow!Ids(rs)
    PROVE  indeg[c] = 0 <=> ParentsIn(rs, c) \subseteq D /\ ~Twice(rs, c)
<1>1. /\ Cardinality(Flow!PresentParents(rs, c)) \in Nat
      /\ Cardinality(ParentsIn(rs, c) \cap D) \in Nat
      /\ Cardinality(Flow!PresentParents(rs, c)) = Cardinality(ParentsIn(rs, c) \cap D)
            <=> ParentsIn(rs, c) \subseteq D /\ ~Twice(rs, c)
  BY EntriesCounted
<1>2. indeg[c] = Cardinality(Flow!PresentParents(rs, c)) - Cardinality(ParentsIn(rs, c) \cap D)
  BY DEF Counted
<1> QED
  BY <1>1, <1>2

(* Of the first i entries, the children of id.                             *)
Children(rs, id, i) == {rs[j].id : j \in {l \in 1 .. i : id \in ParentsIn(rs, rs[l].id)}}

(* After i entries of the run were settled, from the state st in which id  *)
(* was taken.                                                              *)
Settled(rs, st, id, x, i) ==
    /\ IsState(x)
    /\ x.order = Append(st.order, id)
    /\ x.indeg \in [Flow!Ids(rs) -> Int]
    /\ \A c \in Flow!Ids(rs) :
          x.indeg[c] = IF c \in Children(rs, id, i) THEN st.indeg[c] - 1 ELSE st.indeg[c]
    /\ x.ready \in Seq(Flow!Ids(rs)) /\ Once(x.ready)
    /\ Range(x.ready) = (Range(st.ready) \ {id})
                          \cup {c \in Children(rs, id, i) : x.indeg[c] = 0}

LEMMA AppendedOnce ==
    ASSUME NEW S, NEW s \in Seq(S), NEW x \in S
    PROVE  /\ Append(s, x) \in Seq(S) /\ Range(Append(s, x)) = Range(s) \cup {x}
           /\ Len(Append(s, x)) = Len(s) + 1 /\ Len(s) \in Nat /\ DOMAIN s = 1 .. Len(s)
           /\ \A i \in DOMAIN s : Append(s, x)[i] = s[i]
           /\ Append(s, x)[Len(s) + 1] = x
           /\ Once(s) /\ x \notin Range(s) => Once(Append(s, x))
<1> DEFINE t == Append(s, x)
           n == Len(s)
<1>1. n \in Nat /\ DOMAIN s = 1 .. n /\ t \in Seq(S) /\ Len(t) = n + 1 /\ DOMAIN t = 1 .. n + 1
  OBVIOUS
<1>2. t[n + 1] = x /\ \A i \in 1 .. n : t[i] = s[i]
  OBVIOUS
<1>3. \A i \in 1 .. n + 1 : i \in 1 .. n \/ i = n + 1
  BY <1>1
<1>4. n + 1 \in 1 .. n + 1 /\ \A i \in 1 .. n : i \in 1 .. n + 1
  BY <1>1
<1> HIDE DEF t, n
<1>5. Range(t) = Range(s) \cup {x}
  BY <1>1, <1>2, <1>3, <1>4 DEF Range
<1>6. ASSUME Once(s), x \notin Range(s) PROVE Once(t)
  BY <1>1, <1>2, <1>3, <1>6 DEF Range, Once
<1> QED
  BY <1>1, <1>2, <1>5, <1>6 DEF t, n

LEMMA SettleKeeps ==
    ASSUME NEW rs, Traced(rs), NEW st, NEW id \in Flow!Ids(rs),
           NEW i \in Nat, i + 1 <= Len(rs), NEW x, Settled(rs, st, id, x, i),
           id \in ParentsIn(rs, rs[i + 1].id) => rs[i + 1].id \notin Range(st.ready)
    PROVE  Settled(rs, st, id, Flow!Settle(rs, x, id, i + 1), i + 1)
<1> DEFINE c == rs[i + 1].id
           y == Flow!Settle(rs, x, id, i + 1)
           C == Children(rs, id, i)
           Ids == Flow!Ids(rs)
<1>1. i + 1 \in 1 .. Len(rs) /\ DOMAIN rs = 1 .. Len(rs) /\ c \in Ids
  BY DEF Traced, Flow!Ids
<1>2. c \notin C
  <2>1. \A j \in 1 .. i : j \in DOMAIN rs /\ i + 1 \in DOMAIN rs /\ j # i + 1
    BY DEF Traced
  <2> QED
    BY <2>1 DEF Traced, Children
<1>3. Children(rs, id, i + 1) = IF id \in ParentsIn(rs, c) THEN C \cup {c} ELSE C
  <2>1. \A j : j \in 1 .. i + 1 <=> j \in 1 .. i \/ j = i + 1
    OBVIOUS
  <2> QED
    BY <2>1 DEF Children
<1>4. id \in ToSet(Listed(rs, c)) <=> id \in ParentsIn(rs, c)
  BY DEF ParentsIn
<1>5. CASE id \notin ParentsIn(rs, c)
  <2>1. y = x
    BY <1>4, <1>5 DEF Flow!Settle, Listed, Flow!ToSet, ToSet
  <2> HIDE DEF c, y, C, Ids
  <2> QED
    BY <1>3, <1>5, <2>1 DEF Settled, y, C
<1>6. CASE id \in ParentsIn(rs, c)
  <2> DEFINE left == x.indeg[c] - 1
  <2>1. y = [x EXCEPT !.indeg[c] = left, !.ready = IF left = 0 THEN Append(x.ready, c) ELSE x.ready]
    BY <1>4, <1>6 DEF Flow!Settle, Listed, Flow!ToSet, ToSet
  <2> HIDE DEF c, y
  <2>2. y = [ready |-> IF left = 0 THEN Append(x.ready, c) ELSE x.ready, order |-> x.order,
             indeg |-> [x.indeg EXCEPT ![c] = left]]
    BY <2>1 DEF Settled, IsState
  <2>3. /\ IsState(y) /\ y.order = x.order /\ y.indeg = [x.indeg EXCEPT ![c] = left]
        /\ y.ready = IF left = 0 THEN Append(x.ready, c) ELSE x.ready
    BY <2>2 DEF IsState
  <2> HIDE DEF left
  <2>4. x.indeg \in [Ids -> Int] /\ left \in Int
    BY <1>1 DEF Settled, left
  <2>5. y.indeg \in [Ids -> Int] /\ \A d \in Ids : y.indeg[d] = IF d = c THEN left ELSE x.indeg[d]
    BY <2>3, <2>4
  <2>6. left = st.indeg[c] - 1 /\ \A d \in Ids : x.indeg[d] = IF d \in C THEN st.indeg[d] - 1 ELSE st.indeg[d]
    BY <1>1, <1>2 DEF Settled, left
  <2>7. \A d \in Ids : y.indeg[d] = IF d \in C \cup {c} THEN st.indeg[d] - 1 ELSE st.indeg[d]
    BY <1>1, <2>5, <2>6
  <2>8. /\ x.ready \in Seq(Ids) /\ Once(x.ready)
        /\ Range(x.ready) = (Range(st.ready) \ {id}) \cup {d \in C : x.indeg[d] = 0}
    BY DEF Settled
  <2>9. C \subseteq Ids
    <3>1. \A j \in 1 .. i : j \in DOMAIN rs
      BY <1>1
    <3> QED
      BY <3>1 DEF C, Children, Ids, Flow!Ids
  <2>10. {d \in C \cup {c} : y.indeg[d] = 0} = {d \in C : x.indeg[d] = 0} \cup (IF left = 0 THEN {c} ELSE {})
    BY <1>1, <1>2, <2>5, <2>9
  <2>11. c \notin Range(x.ready)
    BY <1>2, <1>6, <2>8 DEF c
  <2>12. y.ready \in Seq(Ids) /\ Once(y.ready) /\ Range(y.ready) = Range(x.ready) \cup (IF left = 0 THEN {c} ELSE {})
    <3>1. CASE left = 0
      <4>1. y.ready = Append(x.ready, c)
        BY <2>3, <3>1
      <4> QED
        BY <1>1, <2>8, <2>11, <3>1, <4>1, AppendedOnce
    <3>2. CASE left # 0
      BY <2>3, <2>8, <3>2
    <3> QED
      BY <3>1, <3>2
  <2>13. Range(y.ready) = (Range(st.ready) \ {id}) \cup {d \in C \cup {c} : y.indeg[d] = 0}
    BY <2>8, <2>10, <2>12
  <2>14. x.order = Append(st.order, id) /\ Children(rs, id, i + 1) = C \cup {c}
    BY <1>3, <1>6 DEF Settled
  <2> HIDE DEF C, Ids
  <2> QED
    BY <2>3, <2>5, <2>7, <2>12, <2>13, <2>14 DEF Settled, y, Ids
<1> QED
  BY <1>5, <1>6

LEMMA TurnSettles ==
    ASSUME NEW rs, Traced(rs), NEW st, KahnInv(rs, st), st.ready # <<>>
    PROVE  LET id == Flow!FirstReady(rs, st.ready)
           IN  /\ id \in Readied(rs, Range(st.order))
               /\ \A b \in Readied(rs, Range(st.order)) : Before(rs, id, b)
               /\ Settled(rs, st, id, Flow!KahnTurn(rs, st), Len(rs))
<1> DEFINE id == Flow!FirstReady(rs, st.ready)
           D == Range(st.order)
           Ids == Flow!Ids(rs)
           n == Len(rs)
           at == CHOOSE i \in DOMAIN st.ready : st.ready[i] = id
<1>1. /\ st.ready \in Seq(Ids) /\ Once(st.ready) /\ Range(st.ready) = Readied(rs, D)
      /\ st.order \in Seq(Ids) /\ Counted(rs, st.indeg, D)
  BY DEF KahnInv, InOrder
<1>2. n \in Nat /\ DOMAIN rs = 1 .. n
  BY DEF Traced
<1>3. id \in Readied(rs, D) /\ \A b \in Readied(rs, D) : Before(rs, id, b)
  BY <1>1, FirstReadyIs
<1>4. id \in Ids /\ id \notin D /\ \A c \in Readied(rs, D) : ParentsIn(rs, c) \subseteq D
  BY <1>3 DEF Readied
<1>5. PICK k : /\ Flow!KahnTurn(rs, st) = k[n] /\ k[0] = Flow!Shift(rs, st)
               /\ \A i \in 1 .. n : k[i] = Flow!Settle(rs, k[i - 1], id, i)
  BY <1>2, TurnTable
<1>6. at \in DOMAIN st.ready /\ st.ready[at] = id
  BY <1>1, <1>3 DEF Range
<1>7. k[0] = [ready |-> Flow!RemoveAt(st.ready, at), order |-> Append(st.order, id), indeg |-> st.indeg]
  BY <1>5 DEF Flow!Shift
<1> HIDE DEF id, D, Ids, n, at
<1>8. Settled(rs, st, id, k[0], 0)
  <2> DEFINE r == Flow!RemoveAt(st.ready, at)
  <2>1. r \in Seq(Ids) /\ Once(r) /\ Range(r) = Range(st.ready) \ {id}
    BY <1>1, <1>6, Removed
  <2>2. Children(rs, id, 0) = {}
    BY DEF Children
  <2>3. IsState(k[0]) /\ k[0].ready = r /\ k[0].order = Append(st.order, id) /\ k[0].indeg = st.indeg
    BY <1>7 DEF IsState
  <2>4. st.indeg \in [Ids -> Int]
    BY <1>1 DEF Counted, Ids
  <2> HIDE DEF r
  <2> QED
    BY <2>1, <2>2, <2>3, <2>4 DEF Settled, Ids
<1> DEFINE Done(i) == Settled(rs, st, id, k[i], i)
           T == {i \in Nat : i <= n => Done(i)}
<1> HIDE DEF Done
<1>9. 0 \in T
  BY <1>8 DEF Done
<1>10. ASSUME NEW i \in T PROVE i + 1 \in T
  <2>0. i \in Nat /\ i + 1 \in Nat
    OBVIOUS
  <2> SUFFICES ASSUME i + 1 <= n PROVE Done(i + 1)
    BY <2>0
  <2>1. i <= n /\ i + 1 \in 1 .. n /\ (i + 1) - 1 = i
    BY <1>2, <2>0
  <2>2. Settled(rs, st, id, k[i], i)
    BY <2>1 DEF Done
  <2>3. id \in ParentsIn(rs, rs[i + 1].id) => rs[i + 1].id \notin Range(st.ready)
    BY <1>1, <1>4
  <2>4. Settled(rs, st, id, Flow!Settle(rs, k[i], id, i + 1), i + 1)
    BY <1>4, <2>0, <2>1, <2>2, <2>3, SettleKeeps DEF Ids, n
  <2>5. k[i + 1] = Flow!Settle(rs, k[i], id, i + 1)
    BY <1>5, <2>1
  <2> QED
    BY <2>4, <2>5 DEF Done
<1>11. T \in SUBSET Nat
  OBVIOUS
<1> HIDE DEF T
<1>12. T = Nat
  BY <1>9, <1>10, <1>11, AllNaturals
<1>13. Done(n)
  BY <1>2, <1>12 DEF T
<1> QED
  BY <1>3, <1>5, <1>13 DEF Done, id, D, n

LEMMA TurnKeeps ==
    ASSUME NEW rs, Traced(rs), NEW st, KahnInv(rs, st), st.ready # <<>>
    PROVE  LET x == Flow!KahnTurn(rs, st)
           IN  KahnInv(rs, x) /\ Len(x.order) = Len(st.order) + 1
<1> DEFINE id == Flow!FirstReady(rs, st.ready)
           x == Flow!KahnTurn(rs, st)
           D == Range(st.order)
           E == D \cup {id}
           Ids == Flow!Ids(rs)
           n == Len(rs)
           C == Children(rs, id, n)
<1>1. /\ id \in Readied(rs, D) /\ \A b \in Readied(rs, D) : Before(rs, id, b)
      /\ Settled(rs, st, id, x, n)
  BY TurnSettles
<1>2. /\ st.ready \in Seq(Ids) /\ Once(st.ready) /\ Range(st.ready) = Readied(rs, D)
      /\ st.order \in Seq(Ids) /\ Once(st.order) /\ Counted(rs, st.indeg, D) /\ InOrder(rs, st.order)
  BY DEF KahnInv, InOrder
<1>3. id \in Ids /\ id \notin D /\ ParentsIn(rs, id) \subseteq D /\ ~Twice(rs, id)
  BY <1>1 DEF Readied
<1>4. C = {c \in Ids : id \in ParentsIn(rs, c)}
  <2>1. DOMAIN rs = 1 .. n
    BY DEF Traced
  <2>2. Ids = {rs[j].id : j \in 1 .. n}
    BY <2>1 DEF Flow!Ids
  <2>3. C = {rs[j].id : j \in {l \in 1 .. n : id \in ParentsIn(rs, rs[l].id)}}
    BY DEF Children
  <2> HIDE DEF C, Ids, id, n
  <2> QED
    BY <2>2, <2>3
<1> HIDE DEF id, x, D, Ids, n, C
<1>5. /\ IsState(x) /\ x.order = Append(st.order, id) /\ x.indeg \in [Ids -> Int]
      /\ \A c \in Ids : x.indeg[c] = IF c \in C THEN st.indeg[c] - 1 ELSE st.indeg[c]
      /\ x.ready \in Seq(Ids) /\ Once(x.ready)
      /\ Range(x.ready) = (Readied(rs, D) \ {id}) \cup {c \in C : x.indeg[c] = 0}
  BY <1>1, <1>2 DEF Settled, C, Ids
<1>6. /\ x.order \in Seq(Ids) /\ Once(x.order) /\ Range(x.order) = E
      /\ Len(x.order) = Len(st.order) + 1 /\ Len(st.order) \in Nat /\ DOMAIN st.order = 1 .. Len(st.order)
      /\ x.order[Len(st.order) + 1] = id /\ \A i \in DOMAIN st.order : x.order[i] = st.order[i]
  BY <1>2, <1>3, <1>5, AppendedOnce DEF D
<1>7. Counted(rs, x.indeg, E)
  <2> SUFFICES ASSUME NEW c \in Ids
               PROVE  x.indeg[c] = Cardinality(Flow!PresentParents(rs, c)) - Cardinality(ParentsIn(rs, c) \cap E)
    BY <1>5 DEF Counted, Ids
  <2> DEFINE P == ParentsIn(rs, c) \cap D
  <2>1. st.indeg[c] = Cardinality(Flow!PresentParents(rs, c)) - Cardinality(P)
    BY <1>2 DEF Counted, Ids
  <2>2. IsFiniteSet(P) /\ Cardinality(P) \in Nat /\ Cardinality(Flow!PresentParents(rs, c)) \in Nat
    BY EntriesCounted DEF Ids
  <2>3. ParentsIn(rs, c) \cap E = IF c \in C THEN P \cup {id} ELSE P
    <3>1. c \in C <=> id \in ParentsIn(rs, c)
      BY <1>4
    <3>2. c \in C => ParentsIn(rs, c) \cap E = P \cup {id}
      BY <3>1
    <3>3. c \notin C => ParentsIn(rs, c) \cap E = P
      BY <3>1
    <3> QED
      BY <3>2, <3>3
  <2>4. id \notin P
    BY <1>3
  <2> HIDE DEF P, E
  <2>5. Cardinality(P \cup {id}) = Cardinality(P) + 1
    BY <2>2, <2>4, FS_AddElement
  <2> DEFINE all == Cardinality(Flow!PresentParents(rs, c))
             now == Cardinality(ParentsIn(rs, c) \cap E)
  <2>6. now = IF c \in C THEN Cardinality(P) + 1 ELSE Cardinality(P)
    BY <2>3, <2>5
  <2>7. x.indeg[c] = IF c \in C THEN st.indeg[c] - 1 ELSE st.indeg[c]
    BY <1>5
  <2> HIDE DEF all, now
  <2>8. x.indeg[c] = all - now
    BY <2>1, <2>2, <2>6, <2>7 DEF all
  <2> QED
    BY <2>8 DEF all, now
<1>8. \A c \in D : ParentsIn(rs, c) \subseteq D
  <2> SUFFICES ASSUME NEW k \in DOMAIN st.order PROVE ParentsIn(rs, st.order[k]) \subseteq D
    BY DEF D, Range
  <2>1. ParentsIn(rs, st.order[k]) \subseteq PlacedBy(st.order, k)
    BY <1>2 DEF InOrder, Readied
  <2>2. PlacedBy(st.order, k) \subseteq D
    BY <1>6 DEF PlacedBy, D, Range
  <2> QED
    BY <2>1, <2>2
<1>9. \A c \in Ids : x.indeg[c] = 0 <=> ParentsIn(rs, c) \subseteq E /\ ~Twice(rs, c)
  <2> HIDE DEF E
  <2> QED
    BY <1>7, CountedZero DEF Ids
<1>10. Range(x.ready) = Readied(rs, E)
  <2>1. ASSUME NEW c \in Readied(rs, E) PROVE c \in Range(x.ready)
    <3>1. c \in Ids /\ c \notin D /\ c # id /\ ParentsIn(rs, c) \subseteq E /\ ~Twice(rs, c)
      BY <2>1 DEF Readied, Ids
    <3>2. CASE c \in C
      BY <1>5, <1>9, <3>1, <3>2
    <3>3. CASE c \notin C
      <4>1. ParentsIn(rs, c) \subseteq D
        BY <1>4, <3>1, <3>3
      <4> QED
        BY <1>5, <3>1, <4>1 DEF Readied, Ids
    <3> QED
      BY <3>2, <3>3
  <2>2. ASSUME NEW c \in Range(x.ready) PROVE c \in Readied(rs, E)
    <3>1. CASE c \in Readied(rs, D) \ {id}
      BY <3>1 DEF Readied
    <3>2. CASE c \in C /\ x.indeg[c] = 0
      <4>1. c \in Ids /\ ParentsIn(rs, c) \subseteq E /\ ~Twice(rs, c) /\ id \in ParentsIn(rs, c)
        BY <1>4, <1>9, <3>2
      <4>2. c \notin D /\ c # id
        BY <1>3, <1>8, <4>1
      <4> QED
        BY <4>1, <4>2 DEF Readied, Ids
    <3> QED
      BY <1>5, <2>2, <3>1, <3>2
  <2> QED
    BY <2>1, <2>2
<1>11. InOrder(rs, x.order)
  <2> SUFFICES ASSUME NEW k \in 1 .. Len(st.order) + 1
               PROVE  /\ x.order[k] \in Readied(rs, PlacedBy(x.order, k))
                      /\ \A b \in Readied(rs, PlacedBy(x.order, k)) : Before(rs, x.order[k], b)
    <3>1. DOMAIN x.order = 1 .. Len(st.order) + 1
      BY <1>6
    <3> QED
      BY <1>6, <3>1 DEF InOrder, Ids
  <2>1. CASE k \in DOMAIN st.order
    <3>1. PlacedBy(x.order, k) = PlacedBy(st.order, k) /\ x.order[k] = st.order[k]
      <4>1. \A i \in 1 .. k - 1 : i \in DOMAIN st.order
        BY <1>6, <2>1
      <4> QED
        BY <1>6, <2>1, <4>1 DEF PlacedBy
    <3> QED
      BY <1>2, <2>1, <3>1 DEF InOrder
  <2>2. CASE k = Len(st.order) + 1
    <3>1. 1 .. k - 1 = DOMAIN st.order
      BY <1>6, <2>2
    <3>2. PlacedBy(x.order, k) = D
      BY <1>6, <3>1, SMTT(30) DEF PlacedBy, D, Range
    <3> QED
      BY <1>1, <1>6, <2>2, <3>2
  <2> QED
    BY <1>6, <2>1, <2>2
<1>12. KahnInv(rs, x)
  BY <1>5, <1>6, <1>7, <1>10, <1>11 DEF KahnInv, Ids
<1> QED
  BY <1>6, <1>12 DEF x

LEMMA SameCardinality == \A S : Flow!Cardinality(S) = Cardinality(S)
BY DEF Flow!Cardinality, Cardinality

LEMMA LoadedIsInOrder == ASSUME NEW rs, Traced(rs) PROVE KahnInv(rs, Flow!Loaded(rs))
<1> DEFINE Ids == Flow!Ids(rs)
           indeg == [id \in Ids |-> Cardinality(Flow!PresentParents(rs, id))]
           s == [i \in DOMAIN rs |-> rs[i].id]
           P == {i \in DOMAIN rs : indeg[rs[i].id] = 0}
           r == Flow!Kept(s, P)
           x == Flow!Loaded(rs)
<1>1. Len(rs) \in Nat /\ DOMAIN rs = 1 .. Len(rs) /\ Ids = {rs[i].id : i \in DOMAIN rs}
  BY DEF Traced, Flow!Ids
<1>2. s \in Seq(Ids) /\ P \in SUBSET DOMAIN s /\ DOMAIN s = DOMAIN rs
  BY <1>1
<1>3. x = [ready |-> r, order |-> <<>>, indeg |-> indeg]
  BY SameCardinality DEF Flow!Loaded
<1>4. \A c \in Ids : indeg[c] = Cardinality(Flow!PresentParents(rs, c)) /\ indeg[c] \in Nat
  BY EntriesCounted
<1>5. \A i \in DOMAIN rs : s[i] = rs[i].id /\ (i \in P <=> indeg[rs[i].id] = 0)
  OBVIOUS
<1>6. indeg = [c \in Ids |-> indeg[c]]
  OBVIOUS
<1> HIDE DEF s, P, indeg, Ids
<1>7. r \in Seq(Ids) /\ \E at : Picks(r, s, P, at)
  BY <1>2, KeptPicks
<1>8. PICK at : Picks(r, s, P, at)
  BY <1>7
<1> HIDE DEF r, x
<1>9. Once(r)
  <2> SUFFICES ASSUME NEW i \in DOMAIN r, NEW j \in DOMAIN r, r[i] = r[j] PROVE i = j
    BY DEF Once
  <2>1. at[i] \in DOMAIN rs /\ at[j] \in DOMAIN rs /\ s[at[i]] = s[at[j]]
    BY <1>2, <1>8 DEF Picks
  <2>2. at[i] = at[j]
    BY <1>5, <2>1 DEF Traced
  <2> QED
    BY <1>8, <2>2 DEF Picks
<1>10. Range(r) = {c \in Ids : indeg[c] = 0}
  <2>1. ASSUME NEW j \in DOMAIN r PROVE r[j] \in Ids /\ indeg[r[j]] = 0
    <3>1. at[j] \in P /\ at[j] \in DOMAIN rs /\ r[j] = s[at[j]]
      BY <1>2, <1>8 DEF Picks
    <3> QED
      BY <1>1, <1>5, <3>1
  <2>2. ASSUME NEW c \in Ids, indeg[c] = 0 PROVE c \in Range(r)
    <3>1. PICK i \in DOMAIN rs : rs[i].id = c
      BY <1>1
    <3>2. i \in P
      BY <1>5, <2>2, <3>1
    <3>3. PICK j \in DOMAIN r : at[j] = i
      BY <1>8, <3>2 DEF Picks
    <3>4. r[j] = c
      BY <1>5, <1>8, <3>1, <3>3 DEF Picks
    <3> QED
      BY <3>4 DEF Range
  <2> QED
    BY <2>1, <2>2 DEF Range
<1>11. IsState(x) /\ x.ready = r /\ x.order = <<>> /\ x.indeg = indeg
  BY <1>3 DEF IsState
<1>12. Range(x.order) = {}
  BY <1>11 DEF Range
<1>13. Counted(rs, indeg, {})
  <2>1. \A c \in Ids : Cardinality(ParentsIn(rs, c) \cap {}) = 0
    <3>1. \A c \in Ids : ParentsIn(rs, c) \cap {} = {}
      OBVIOUS
    <3> QED
      BY <3>1, FS_EmptySet
  <2>2. \A c \in Ids : indeg[c] = Cardinality(Flow!PresentParents(rs, c)) - Cardinality(ParentsIn(rs, c) \cap {})
    BY <1>4, <2>1
  <2>3. indeg \in [Ids -> Int]
    BY <1>4, <1>6
  <2> QED
    BY <2>2, <2>3 DEF Counted, Ids
<1>14. Range(r) = Readied(rs, {})
  BY <1>10, <1>13, CountedZero DEF Readied, Ids
<1>15. InOrder(rs, <<>>)
  BY DEF InOrder, Once
<1>16. InOrder(rs, x.order) /\ Counted(rs, x.indeg, Range(x.order))
  BY <1>11, <1>12, <1>13, <1>15
<1>17. /\ x.ready \in Seq(Flow!Ids(rs)) /\ Once(x.ready)
       /\ Range(x.ready) = Readied(rs, Range(x.order))
  BY <1>7, <1>9, <1>11, <1>12, <1>14 DEF Ids
<1> QED
  BY <1>11, <1>16, <1>17 DEF KahnInv, x

(* An order is no longer than the run, and as long when all are in it.     *)
LEMMA OrderLength ==
    ASSUME NEW rs, Traced(rs), NEW order \in Seq(Flow!Ids(rs)), Once(order)
    PROVE  /\ Len(order) \in Nat /\ Len(order) <= Len(rs)
           /\ Len(order) = Len(rs) <=> Range(order) = Flow!Ids(rs)
<1> DEFINE n == Len(rs)
           m == Len(order)
           Ids == Flow!Ids(rs)
           f == [i \in 1 .. n |-> rs[i].id]
           g == [i \in 1 .. m |-> order[i]]
<1>1. n \in Nat /\ DOMAIN rs = 1 .. n /\ m \in Nat /\ DOMAIN order = 1 .. m
  BY DEF Traced
<1>2. f \in Bijection(1 .. n, Ids)
  <2>1. f \in [1 .. n -> Ids]
    BY <1>1 DEF Flow!Ids
  <2>2. \A i, j \in 1 .. n : f[i] = f[j] => i = j
    BY <1>1 DEF Traced
  <2>3. \A c \in Ids : \E i \in 1 .. n : f[i] = c
    BY <1>1 DEF Flow!Ids
  <2> QED
    BY <2>1, <2>2, <2>3 DEF Bijection, Injection, Surjection, IsInjective
<1>3. g \in Injection(1 .. m, Ids)
  <2>1. g \in [1 .. m -> Ids]
    BY <1>1
  <2>2. \A i, j \in 1 .. m : g[i] = g[j] => i = j
    BY <1>1 DEF Once
  <2> QED
    BY <2>1, <2>2 DEF Injection, IsInjective
<1>4. g \in Surjection(1 .. m, Ids) <=> Range(order) = Ids
  <2>1. Range(order) \subseteq Ids
    BY <1>1 DEF Range
  <2>2. g \in [1 .. m -> Ids] /\ \A i \in 1 .. m : g[i] = order[i]
    BY <1>1
  <2> HIDE DEF g, Ids, m
  <2> QED
    BY <1>1, <2>1, <2>2 DEF Surjection, Range
<1> HIDE DEF f, g, Ids
<1>5. IsFiniteSet(1 .. n) /\ Cardinality(1 .. n) = n /\ IsFiniteSet(1 .. m) /\ Cardinality(1 .. m) = m
  <2> HIDE DEF n, m
  <2> QED
    BY <1>1, FS_Interval
<1>6. IsFiniteSet(Ids) /\ Cardinality(Ids) = n
  <2> HIDE DEF n
  <2>1. ExistsBijection(1 .. n, Ids)
    BY <1>2 DEF ExistsBijection
  <2> QED
    BY <1>5, <2>1, FS_Bijection
<1>7. m <= Cardinality(Ids) /\ (m = Cardinality(Ids) <=> g \in Surjection(1 .. m, Ids))
  <2> HIDE DEF m
  <2> QED
    BY <1>3, <1>5, <1>6, FS_Injection
<1> QED
  BY <1>1, <1>4, <1>6, <1>7, Zenon DEF Ids

(* When the loop ends, nothing more can be placed.                         *)
LEMMA LoopEnds ==
    ASSUME NEW rs, Traced(rs)
    PROVE  LET e == Flow!Kahn(rs, Flow!Loaded(rs)) IN InOrder(rs, e.order) /\ Readied(rs, Range(e.order)) = {}
<1> DEFINE n == 2 * Len(rs)
           e == Flow!Kahn(rs, Flow!Loaded(rs))
<1>0. Len(rs) \in Nat
  BY DEF Traced
<1>1. n \in Nat
  BY <1>0
<1>2. PICK k : /\ e = k[n] /\ k[0] = Flow!Loaded(rs)
               /\ \A i \in 1 .. n : k[i] = Flow!KahnTurn(rs, k[i - 1])
  <2>1. PICK k : Turns(rs, Flow!Loaded(rs), k)
    BY <1>0, LoopTable
  <2> QED
    BY <2>1 DEF Turns
<1> HIDE DEF n, e
<1> DEFINE Done(i) == KahnInv(rs, k[i]) /\ (k[i].ready = <<>> \/ Len(k[i].order) = i)
           T == {i \in Nat : i <= n => Done(i)}
<1>3. Done(0)
  <2>1. Len(k[0].order) = 0
    BY <1>2 DEF Flow!Loaded
  <2> QED
    BY <1>2, <2>1, LoadedIsInOrder
<1>4. ASSUME NEW i \in Nat, i + 1 <= n, Done(i) PROVE Done(i + 1)
  <2>1. k[i + 1] = Flow!KahnTurn(rs, k[i])
    <3>1. i + 1 \in 1 .. n /\ (i + 1) - 1 = i
      BY <1>1, <1>4
    <3> QED
      BY <1>2, <3>1
  <2>2. CASE k[i].ready = <<>>
    <3>1. k[i + 1] = k[i]
      BY <2>1, <2>2 DEF Flow!KahnTurn
    <3> QED
      BY <1>4, <2>2, <3>1
  <2>3. CASE k[i].ready # <<>>
    <3>1. KahnInv(rs, k[i]) /\ Len(k[i].order) = i
      BY <1>4, <2>3
    <3>2. KahnInv(rs, k[i + 1]) /\ Len(k[i + 1].order) = Len(k[i].order) + 1
      BY <2>1, <2>3, <3>1, TurnKeeps
    <3> QED
      BY <3>1, <3>2
  <2> QED
    BY <2>2, <2>3
<1> HIDE DEF Done
<1>5. 0 \in T
  BY <1>3
<1>6. ASSUME NEW i \in T PROVE i + 1 \in T
  <2>0. i \in Nat /\ i + 1 \in Nat
    OBVIOUS
  <2>1. CASE i + 1 <= n
    <3>1. i <= n
      BY <1>1, <2>0, <2>1
    <3> QED
      BY <1>4, <2>0, <2>1, <3>1
  <2> QED
    BY <2>0, <2>1
<1>7. T \in SUBSET Nat
  OBVIOUS
<1> HIDE DEF T
<1>8. T = Nat
  BY <1>5, <1>6, <1>7, AllNaturals
<1>9. Done(n)
  BY <1>1, <1>8 DEF T
<1>10. KahnInv(rs, e) /\ (e.ready = <<>> \/ Len(e.order) = n)
  BY <1>2, <1>9 DEF Done
<1>11. InOrder(rs, e.order) /\ e.order \in Seq(Flow!Ids(rs)) /\ Once(e.order)
  BY <1>10 DEF KahnInv, InOrder
<1>12. Readied(rs, Range(e.order)) = Range(e.ready)
  BY <1>10 DEF KahnInv
<1>13. CASE e.ready = <<>>
  <2>1. Range(e.ready) = {}
    BY <1>13 DEF Range
  <2> QED
    BY <1>11, <1>12, <2>1 DEF e
<1>14. CASE Len(e.order) = n
  <2>1. Len(e.order) = Len(rs)
    <3>1. Len(e.order) <= Len(rs)
      BY <1>11, OrderLength
    <3> QED
      BY <1>0, <1>14, <3>1 DEF n
  <2>2. Range(e.order) = Flow!Ids(rs)
    BY <1>11, <2>1, OrderLength
  <2>3. Readied(rs, Range(e.order)) = {}
    BY <2>2 DEF Readied
  <2> QED
    BY <1>11, <2>3 DEF e
<1> QED
  BY <1>10, <1>13, <1>14

(* A group of which each waits for one of the group, or for itself.        *)
Tangled(rs) ==
    \E group \in SUBSET Flow!Ids(rs) :
        group # {} /\ \A c \in group : ParentsIn(rs, c) \cap group # {} \/ Twice(rs, c)

LEMMA AllOrNoneTangled ==
    ASSUME NEW rs, Traced(rs), NEW order, InOrder(rs, order), Readied(rs, Range(order)) = {}
    PROVE  Len(order) = Len(rs) <=> ~Tangled(rs)
<1> DEFINE Ids == Flow!Ids(rs)
           U == Ids \ Range(order)
<1>1. order \in Seq(Ids) /\ Once(order)
  BY DEF InOrder
<1>2. Len(order) \in Nat /\ DOMAIN order = 1 .. Len(order)
  BY <1>1
<1>3. Len(order) = Len(rs) <=> Range(order) = Ids
  BY <1>1, OrderLength
<1>4. ASSUME Range(order) # Ids PROVE Tangled(rs)
  <2>1. Range(order) \subseteq Ids
    BY <1>1, <1>2 DEF Range
  <2>2. U # {} /\ U \in SUBSET Ids
    BY <1>4, <2>1
  <2>3. \A c \in U : ParentsIn(rs, c) \cap U # {} \/ Twice(rs, c)
    <3>1. \A c \in U : ~(ParentsIn(rs, c) \subseteq Range(order)) \/ Twice(rs, c)
      BY DEF Readied
    <3>2. \A c : ParentsIn(rs, c) \subseteq Ids
      BY DEF ParentsIn
    <3> HIDE DEF Ids
    <3> QED
      BY <3>1, <3>2
  <2> HIDE DEF U
  <2> QED
    BY <2>2, <2>3 DEF Tangled
<1>5. ASSUME Range(order) = Ids, NEW group \in SUBSET Ids, group # {},
             \A c \in group : ParentsIn(rs, c) \cap group # {} \/ Twice(rs, c)
      PROVE  FALSE
  <2> DEFINE S == {i \in DOMAIN order : order[i] \in group}
             R == OpToRel(<, Nat)
  <2>1. S # {} /\ S \in SUBSET Nat
    BY <1>2, <1>5 DEF Range
  <2>2. IsWellFoundedOn(R, Nat) /\ \A n, m \in Nat : n < m => <<n, m>> \in R
    BY NatLessThanWellFounded DEF OpToRel
  <2>4. \A i \in S : i \in DOMAIN order /\ order[i] \in group
    OBVIOUS
  <2>9. \A i \in DOMAIN order : order[i] \in group => i \in S
    OBVIOUS
  <2> HIDE DEF R, S
  <2>10. S \subseteq Nat /\ S # {} /\ IsWellFoundedOn(R, Nat)
    BY <2>1, <2>2
  <2>3. PICK k \in S : \A j \in S : ~(<<j, k>> \in R)
    BY <2>10, WFMin, Zenon
  <2>5. ParentsIn(rs, order[k]) \subseteq PlacedBy(order, k) /\ ~Twice(rs, order[k])
    BY <2>4 DEF InOrder, Readied
  <2>6. PICK p \in group : p \in PlacedBy(order, k)
    BY <1>5, <2>4, <2>5
  <2>7. PICK j \in 1 .. k - 1 : order[j] = p
    BY <2>6 DEF PlacedBy
  <2>8. j \in S /\ j \in Nat /\ k \in Nat /\ j < k
    BY <1>2, <2>4, <2>6, <2>7, <2>9
  <2> QED
    BY <2>2, <2>3, <2>8
<1> QED
  BY <1>3, <1>4, <1>5 DEF Tangled

(* A ledger of whole receipts, and what of it belongs to the workflow.     *)
Whole(r) == r = [id |-> r.id, tenant |-> r.tenant, parents |-> r.parents, wf |-> r.wf,
                 sound |-> r.sound, height |-> r.height]

Ledger(L) ==
    Traced(L) /\ L = [i \in 1 .. Len(L) |-> L[i]] /\ \A i \in DOMAIN L : Whole(L[i])

Asked == [wf |-> "w", tenant |-> "t1"]

Mine(L) == {i \in DOMAIN L : L[i].wf = "w" /\ L[i].tenant = "t1"}

RunOf(L) == Flow!Kept(L, Mine(L))

LEMMA RunIsKept ==
    ASSUME NEW L
    PROVE  /\ Flow!InRun(L, Asked) = RunOf(L)
           /\ Flow!TargetWorkflow(L, Asked) = "w" /\ Flow!TargetTenant(L, Asked) = "t1"
<1>1. Flow!TargetWorkflow(L, Asked) = "w"
  BY DEF Flow!TargetWorkflow, Flow!None, Asked
<1>2. Flow!TargetTenant(L, Asked) = "t1"
  BY DEF Flow!TargetTenant, Flow!None, Asked
<1>3. {i \in DOMAIN L : L[i].wf = "w" /\ ("t1" = Flow!None \/ L[i].tenant = "t1")} = Mine(L)
  BY DEF Flow!None, Mine
<1> QED
  BY <1>1, <1>2, <1>3 DEF Flow!InRun, RunOf

LEMMA RunIsTraced ==
    ASSUME NEW L, Ledger(L)
    PROVE  /\ Traced(RunOf(L))
           /\ \A j \in DOMAIN RunOf(L) : \E i \in Mine(L) : RunOf(L)[j] = L[i]
           /\ \A i \in Mine(L) : \E j \in DOMAIN RunOf(L) : RunOf(L)[j] = L[i]
           /\ Len(RunOf(L)) <= Len(L)
           /\ Len(RunOf(L)) = Len(L) <=> Mine(L) = DOMAIN L
<1> DEFINE rs == RunOf(L)
           n == Len(L)
           m == Len(rs)
           S == {L[i] : i \in DOMAIN L}
           P == Mine(L)
<1>1. n \in Nat /\ DOMAIN L = 1 .. n
  BY DEF Traced, Ledger
<1>2. L \in Seq(S) /\ P \in SUBSET DOMAIN L
  BY <1>1 DEF Ledger, Mine
<1> HIDE DEF S
<1>3. rs \in Seq(S) /\ \E at : Picks(rs, L, P, at)
  BY <1>2, KeptPicks DEF RunOf
<1>4. PICK at : Picks(rs, L, P, at)
  BY <1>3
<1> HIDE DEF rs, P, n, m
<1>5. m \in Nat /\ DOMAIN rs = 1 .. m
  BY <1>3 DEF m
<1>6. \A j \in DOMAIN rs : at[j] \in P /\ at[j] \in DOMAIN L /\ rs[j] = L[at[j]]
  BY <1>2, <1>4 DEF Picks
<1>7. Traced(rs)
  <2>1. \A j \in DOMAIN rs : rs[j].id \in Int /\ rs[j].height \in Int /\ rs[j].parents \in Seq(Int)
    BY <1>6 DEF Traced, Ledger
  <2>2. \A i, j \in DOMAIN rs : rs[i].id = rs[j].id => i = j
    <3> SUFFICES ASSUME NEW i \in DOMAIN rs, NEW j \in DOMAIN rs, rs[i].id = rs[j].id PROVE i = j
      OBVIOUS
    <3>1. at[i] = at[j]
      BY <1>6 DEF Traced, Ledger
    <3> QED
      BY <1>4, <3>1 DEF Picks
  <2> QED
    BY <1>5, <2>1, <2>2 DEF Traced, m
<1>8. \A j \in DOMAIN rs : \E i \in P : rs[j] = L[i]
  BY <1>6
<1>9. \A i \in P : \E j \in DOMAIN rs : rs[j] = L[i]
  BY <1>4 DEF Picks
<1>10. m <= n /\ (m = n <=> P = DOMAIN L)
  <2>1. at \in Injection(1 .. m, 1 .. n)
    <3>1. at \in [1 .. m -> 1 .. n]
      BY <1>1, <1>2, <1>4, <1>5 DEF Picks
    <3> QED
      BY <1>4, <1>5, <3>1 DEF Picks, Injection, IsInjective
  <2>2. at \in Surjection(1 .. m, 1 .. n) <=> P = 1 .. n
    <3>1. at \in [1 .. m -> 1 .. n]
      BY <2>1 DEF Injection
    <3>2. {at[j] : j \in 1 .. m} = P
      BY <1>4, <1>5, <1>6 DEF Picks
    <3>3. at \in Surjection(1 .. m, 1 .. n) <=> {at[j] : j \in 1 .. m} = 1 .. n
      BY <1>1, <1>2, <3>1, <3>2 DEF Surjection
    <3> QED
      BY <3>2, <3>3
  <2>3. /\ IsFiniteSet(1 .. m) /\ Cardinality(1 .. m) = m
        /\ IsFiniteSet(1 .. n) /\ Cardinality(1 .. n) = n
    BY <1>1, <1>5, FS_Interval
  <2>4. m <= n /\ (m = n <=> at \in Surjection(1 .. m, 1 .. n))
    BY <2>1, <2>3, FS_Injection
  <2> QED
    BY <1>1, <2>2, <2>4
<1> QED
  BY <1>7, <1>8, <1>9, <1>10 DEF rs, m, n, P

(* What Reconstruct makes of a ledger.                                     *)
OrderOf(L) == Flow!Kahn(RunOf(L), Flow!Loaded(RunOf(L))).order

LEMMA Rebuilt ==
    ASSUME NEW L
    PROVE  LET got == Flow!Reconstruct(L, Asked)
           IN  /\ got.workflow = "w" /\ got.order = OrderOf(L)
               /\ got.missing = Flow!MissingParents(RunOf(L))
               /\ got.acyclic <=> Len(OrderOf(L)) = Len(RunOf(L))
<1>1. Flow!InRun(L, Asked) = RunOf(L) /\ Flow!TargetWorkflow(L, Asked) = "w"
  BY RunIsKept
<1>2. Flow!Reconstruct(L, Asked).order = OrderOf(L)
  BY <1>1 DEF Flow!Reconstruct, OrderOf
<1>3. Flow!Reconstruct(L, Asked).acyclic = (Len(OrderOf(L)) = Len(RunOf(L)))
  BY <1>1 DEF Flow!Reconstruct, OrderOf
<1>4. Flow!Reconstruct(L, Asked).missing = Flow!MissingParents(RunOf(L))
  BY <1>1 DEF Flow!Reconstruct
<1>5. Flow!Reconstruct(L, Asked).workflow = "w"
  BY <1>1 DEF Flow!Reconstruct
<1> QED
  BY <1>2, <1>3, <1>4, <1>5

LEMMA OrderOfLedger ==
    ASSUME NEW L, Ledger(L)
    PROVE  /\ InOrder(RunOf(L), OrderOf(L))
           /\ Len(OrderOf(L)) \in Nat /\ Len(OrderOf(L)) <= Len(RunOf(L))
           /\ Len(OrderOf(L)) = Len(RunOf(L)) <=> ~Tangled(RunOf(L))
<1>1. Traced(RunOf(L))
  BY RunIsTraced
<1>2. InOrder(RunOf(L), OrderOf(L)) /\ Readied(RunOf(L), Range(OrderOf(L))) = {}
  BY <1>1, LoopEnds DEF OrderOf
<1>3. OrderOf(L) \in Seq(Flow!Ids(RunOf(L))) /\ Once(OrderOf(L))
  BY <1>2 DEF InOrder
<1> QED
  BY <1>1, <1>2, <1>3, OrderLength, AllOrNoneTangled

(* The ids and lists of a run are those of the workflow's receipts.        *)
LEMMA RunIds ==
    ASSUME NEW L, Ledger(L)
    PROVE  /\ Flow!Ids(RunOf(L)) = {L[i].id : i \in Mine(L)}
           /\ \A i \in Mine(L) : Flow!ById(RunOf(L), L[i].id) = L[i]
           /\ Flow!MissingParents(RunOf(L)) = {} <=>
                 \A i \in Mine(L) : ToSet(L[i].parents) \subseteq Flow!Ids(RunOf(L))
<1> DEFINE rs == RunOf(L)
           P == Mine(L)
<1>1. Traced(rs)
  BY RunIsTraced
<1>2. \A j \in DOMAIN rs : \E i \in P : rs[j] = L[i]
  BY RunIsTraced
<1>3. \A i \in P : \E j \in DOMAIN rs : rs[j] = L[i]
  BY RunIsTraced
<1> HIDE DEF rs, P
<1>4. Flow!Ids(rs) = {L[i].id : i \in P}
  BY <1>2, <1>3 DEF Flow!Ids
<1>5. ASSUME NEW i \in P PROVE Flow!ById(rs, L[i].id) = L[i]
  <2>1. PICK j \in DOMAIN rs : rs[j] = L[i]
    BY <1>3
  <2>2. Flow!ById(rs, rs[j].id) = rs[j]
    BY <1>1, ByIdIs
  <2> QED
    BY <2>1, <2>2
<1>6. Flow!MissingParents(rs) = {} <=> \A j \in DOMAIN rs : ToSet(rs[j].parents) \subseteq Flow!Ids(rs)
  <2> DEFINE F(j) == ToSet(rs[j].parents)
  <2>1. Flow!MissingParents(rs) = (UNION {F(j) : j \in DOMAIN rs}) \ Flow!Ids(rs)
    BY DEF Flow!MissingParents, Flow!ToSet, ToSet
  <2> HIDE DEF F
  <2> DEFINE I == Flow!Ids(rs)
             J == DOMAIN rs
             M == Flow!MissingParents(rs)
  <2> HIDE DEF F, I, J, M
  <2>2. \A x : x \in M <=> (\E j \in J : x \in F(j)) /\ x \notin I
    <3>1. M = (UNION {F(j) : j \in J}) \ I
      BY <2>1 DEF M, I, J
    <3> QED
      BY <3>1
  <2>3. M = {} <=> \A j \in J : F(j) \subseteq I
    <3>1. M = {} => \A j \in J : F(j) \subseteq I
      BY <2>2
    <3>2. (\A j \in J : F(j) \subseteq I) => M = {}
      BY <2>2
    <3> QED
      BY <3>1, <3>2
  <2> QED
    BY <2>3 DEF F, I, J, M
<1>7. (\A j \in DOMAIN rs : ToSet(rs[j].parents) \subseteq Flow!Ids(rs))
         <=> \A i \in P : ToSet(L[i].parents) \subseteq Flow!Ids(rs)
  BY <1>2, <1>3
<1> QED
  BY <1>4, <1>5, <1>6, <1>7 DEF rs, P

(* The same in terms of the receipts themselves.                           *)
IdsOf(L) == {L[i].id : i \in Mine(L)}

ListsTwice(L, r) ==
    \E i, j \in DOMAIN r.parents : i # j /\ r.parents[i] = r.parents[j] /\ r.parents[i] \in IdsOf(L)

LEMMA RunParents ==
    ASSUME NEW L, Ledger(L), NEW i \in Mine(L)
    PROVE  /\ ParentsIn(RunOf(L), L[i].id) = ToSet(L[i].parents) \cap IdsOf(L)
           /\ Twice(RunOf(L), L[i].id) <=> ListsTwice(L, L[i])
<1> DEFINE rs == RunOf(L)
           r == L[i]
<1>1. Flow!Ids(rs) = IdsOf(L) /\ Flow!ById(rs, r.id) = r
  BY RunIds DEF IdsOf
<1> HIDE DEF rs, r
<1>2. ParentsIn(rs, r.id) = ToSet(r.parents) \cap IdsOf(L)
  BY <1>1 DEF ParentsIn, Listed
<1>3. Flow!PresentParents(rs, r.id) = {j \in DOMAIN r.parents : r.parents[j] \in IdsOf(L)}
  BY <1>1 DEF Flow!PresentParents
<1>4. Twice(rs, r.id) <=> ListsTwice(L, r)
  BY <1>1, <1>3 DEF Twice, Listed, ListsTwice
<1> QED
  BY <1>2, <1>4 DEF rs, r

(* A ledger of which one receipt, or none, does not hold.                  *)
Spoilt(L, bad) == [i \in DOMAIN L |-> [L[i] EXCEPT !.sound = L[i].id # bad]]

LEMMA SpoiltIsLedger ==
    ASSUME NEW L, Ledger(L), NEW bad
    PROVE  /\ Ledger(Spoilt(L, bad)) /\ DOMAIN Spoilt(L, bad) = DOMAIN L
           /\ Len(Spoilt(L, bad)) = Len(L) /\ Mine(Spoilt(L, bad)) = Mine(L)
           /\ \A i \in DOMAIN L :
                 /\ Spoilt(L, bad)[i].id = L[i].id /\ Spoilt(L, bad)[i].parents = L[i].parents
                 /\ Spoilt(L, bad)[i].wf = L[i].wf /\ Spoilt(L, bad)[i].tenant = L[i].tenant
                 /\ Spoilt(L, bad)[i].sound <=> L[i].id # bad
<1> DEFINE K == Spoilt(L, bad)
           n == Len(L)
<1>1. n \in Nat /\ DOMAIN L = 1 .. n
  BY DEF Ledger, Traced
<1>2. DOMAIN K = 1 .. n /\ K = [i \in 1 .. n |-> K[i]]
  BY <1>1 DEF Spoilt
<1>3. Len(K) = n
  BY <1>1, <1>2
<1>4. ASSUME NEW i \in 1 .. n
      PROVE  /\ K[i].id = L[i].id /\ K[i].parents = L[i].parents /\ K[i].wf = L[i].wf
             /\ K[i].tenant = L[i].tenant /\ K[i].height = L[i].height /\ Whole(K[i])
             /\ K[i].sound <=> L[i].id # bad
  <2>1. K[i] = [L[i] EXCEPT !.sound = L[i].id # bad]
    BY <1>1 DEF Spoilt
  <2>2. Whole(L[i])
    BY <1>1 DEF Ledger
  <2>3. K[i] = [id |-> L[i].id, tenant |-> L[i].tenant, parents |-> L[i].parents, wf |-> L[i].wf,
                sound |-> L[i].id # bad, height |-> L[i].height]
    BY <2>1, <2>2 DEF Whole
  <2>4. K[i].sound = (L[i].id # bad) /\ K[i].id = L[i].id /\ K[i].parents = L[i].parents
        /\ K[i].wf = L[i].wf /\ K[i].tenant = L[i].tenant /\ K[i].height = L[i].height
    BY <2>3
  <2>5. Whole(K[i])
    BY <2>3, <2>4, Zenon DEF Whole
  <2> QED
    BY <2>4, <2>5, Zenon
<1> HIDE DEF K, n
<1>5. Traced(K)
  <2>1. \A i \in DOMAIN K : K[i].id \in Int /\ K[i].height \in Int /\ K[i].parents \in Seq(Int)
    BY <1>1, <1>2, <1>4 DEF Ledger, Traced
  <2>2. \A i, j \in DOMAIN K : K[i].id = K[j].id => i = j
    BY <1>1, <1>2, <1>4 DEF Ledger, Traced
  <2> QED
    BY <1>1, <1>2, <1>3, <2>1, <2>2 DEF Traced
<1>6. Ledger(K)
  BY <1>2, <1>3, <1>4, <1>5 DEF Ledger
<1>7. Mine(K) = Mine(L)
  BY <1>1, <1>2, <1>4 DEF Mine
<1> QED
  BY <1>1, <1>2, <1>3, <1>4, <1>6, <1>7 DEF K, n

LEMMA SpoiltIsAsTangled ==
    ASSUME NEW L, Ledger(L), NEW bad
    PROVE  Tangled(RunOf(Spoilt(L, bad))) <=> Tangled(RunOf(L))
<1> DEFINE K == Spoilt(L, bad)
           P == Mine(L)
<1>1. Ledger(K) /\ Mine(K) = P /\ P \subseteq DOMAIN L
      /\ \A i \in DOMAIN L : K[i].id = L[i].id /\ K[i].parents = L[i].parents
  BY SpoiltIsLedger DEF Mine
<1> HIDE DEF K, P
<1>2. IdsOf(K) = IdsOf(L)
  BY <1>1 DEF IdsOf, P
<1>3. Flow!Ids(RunOf(K)) = IdsOf(L) /\ Flow!Ids(RunOf(L)) = IdsOf(L)
  BY <1>1, <1>2, RunIds DEF IdsOf
<1>4. ASSUME NEW c \in IdsOf(L)
      PROVE  ParentsIn(RunOf(K), c) = ParentsIn(RunOf(L), c) /\ (Twice(RunOf(K), c) <=> Twice(RunOf(L), c))
  <2>1. PICK i \in P : c = L[i].id
    BY DEF IdsOf, P
  <2>2. i \in Mine(K) /\ i \in Mine(L) /\ K[i].id = c /\ K[i].parents = L[i].parents
    BY <1>1, <2>1 DEF P
  <2>3. /\ ParentsIn(RunOf(K), c) = ToSet(K[i].parents) \cap IdsOf(K)
        /\ Twice(RunOf(K), c) <=> ListsTwice(K, K[i])
    BY <1>1, <2>2, RunParents
  <2>4. /\ ParentsIn(RunOf(L), c) = ToSet(L[i].parents) \cap IdsOf(L)
        /\ Twice(RunOf(L), c) <=> ListsTwice(L, L[i])
    BY <2>1, <2>2, RunParents
  <2>5. ListsTwice(K, K[i]) <=> ListsTwice(L, L[i])
    BY <1>2, <2>2 DEF ListsTwice
  <2> QED
    BY <1>2, <2>2, <2>3, <2>4, <2>5
<1> QED
  BY <1>3, <1>4 DEF Tangled, K

(* The receipts of the workflow themselves.                                *)
Own(L) == {L[i] : i \in Mine(L)}

LEMMA OwnReceipts ==
    ASSUME NEW L, Ledger(L)
    PROVE  /\ IdsOf(L) = {r.id : r \in Own(L)} /\ Flow!Ids(RunOf(L)) = IdsOf(L)
           /\ \A r, q \in Own(L) : r.id = q.id => r = q
           /\ \A r \in Own(L) : /\ Flow!ById(RunOf(L), r.id) = r
                                /\ ParentsIn(RunOf(L), r.id) = ToSet(r.parents) \cap IdsOf(L)
                                /\ Twice(RunOf(L), r.id) <=> ListsTwice(L, r)
<1>1. IdsOf(L) = {r.id : r \in Own(L)}
  BY DEF IdsOf, Own
<1>2. Flow!Ids(RunOf(L)) = IdsOf(L) /\ \A i \in Mine(L) : Flow!ById(RunOf(L), L[i].id) = L[i]
  BY RunIds DEF IdsOf
<1>3. \A i, j \in Mine(L) : L[i].id = L[j].id => i = j
  BY DEF Mine, Ledger, Traced
<1>4. \A i \in Mine(L) : /\ ParentsIn(RunOf(L), L[i].id) = ToSet(L[i].parents) \cap IdsOf(L)
                         /\ Twice(RunOf(L), L[i].id) <=> ListsTwice(L, L[i])
  BY RunParents
<1>5. \A r, q \in Own(L) : r.id = q.id => r = q
  BY <1>3 DEF Own
<1>6. ASSUME NEW r \in Own(L)
      PROVE  /\ Flow!ById(RunOf(L), r.id) = r
             /\ ParentsIn(RunOf(L), r.id) = ToSet(r.parents) \cap IdsOf(L)
             /\ Twice(RunOf(L), r.id) <=> ListsTwice(L, r)
  <2>1. PICK i \in Mine(L) : r = L[i]
    BY DEF Own
  <2> QED
    BY <1>2, <1>4, <2>1
<1> QED
  BY <1>1, <1>2, <1>5, <1>6

(* A group of ids is tangled as the group of receipts that have them.      *)
LEMMA TangledReceipts ==
    ASSUME NEW L, Ledger(L)
    PROVE  Tangled(RunOf(L)) <=>
              \E group \in SUBSET Own(L) :
                 /\ group # {}
                 /\ \A r \in group : \/ (ToSet(r.parents) \cap IdsOf(L)) \cap {q.id : q \in group} # {}
                                     \/ ListsTwice(L, r)
<1> DEFINE rs == RunOf(L)
           I == IdsOf(L)
           R == Own(L)
           F(c) == ParentsIn(rs, c)
           G(r) == ToSet(r.parents) \cap I
           T(c) == Twice(rs, c)
           U(r) == ListsTwice(L, r)
           N(group) == {q.id : q \in group}
<1>1. I = {r.id : r \in R} /\ Flow!Ids(rs) = I
  BY OwnReceipts
<1>2. \A r, q \in R : r.id = q.id => r = q
  BY OwnReceipts
<1>3. \A r \in R : F(r.id) = G(r) /\ (T(r.id) <=> U(r))
  BY OwnReceipts
<1>4. Tangled(rs) <=> \E group \in SUBSET I :
                         group # {} /\ \A c \in group : F(c) \cap group # {} \/ T(c)
  BY <1>1 DEF Tangled
<1> HIDE DEF rs, I, R, F, G, T, U
<1>5. ASSUME NEW group \in SUBSET I, group # {}, \A c \in group : F(c) \cap group # {} \/ T(c)
      PROVE  \E own \in SUBSET R : own # {} /\ \A r \in own : G(r) \cap N(own) # {} \/ U(r)
  <2> DEFINE own == {r \in R : r.id \in group}
  <2>1. N(own) = group /\ own \in SUBSET R
    BY <1>1, <1>5
  <2>2. own # {}
    BY <1>5, <2>1
  <2>3. ASSUME NEW r \in own PROVE G(r) \cap N(own) # {} \/ U(r)
    BY <1>3, <1>5, <2>1
  <2> QED
    BY <2>1, <2>2, <2>3
<1>6. ASSUME NEW own \in SUBSET R, own # {}, \A r \in own : G(r) \cap N(own) # {} \/ U(r)
      PROVE  \E group \in SUBSET I : group # {} /\ \A c \in group : F(c) \cap group # {} \/ T(c)
  <2>1. N(own) \in SUBSET I /\ N(own) # {}
    BY <1>1, <1>6
  <2>2. ASSUME NEW c \in N(own) PROVE F(c) \cap N(own) # {} \/ T(c)
    <3>1. PICK r \in own : c = r.id
      OBVIOUS
    <3> QED
      BY <1>3, <1>6, <3>1
  <2> QED
    BY <2>1, <2>2
<1>7. Tangled(rs) <=> \E own \in SUBSET R : own # {} /\ \A r \in own : G(r) \cap N(own) # {} \/ U(r)
  BY <1>4, <1>5, <1>6
<1> QED
  BY <1>7 DEF rs, I, R, G, U

(* The verification of a ledger of which one receipt, or none, does not    *)
(* hold.                                                                   *)
LEMMA Verified ==
    ASSUME NEW L, Ledger(L), NEW bad
    PROVE  Flow!VerifyWorkflow(Spoilt(L, bad), Asked).valid
              <=> /\ bad \notin IdsOf(L) /\ Len(OrderOf(L)) = Len(L)
                  /\ \A r \in Own(L) : ToSet(r.parents) \subseteq IdsOf(L)
<1> DEFINE K == Spoilt(L, bad)
           P == Mine(L)
           rs == RunOf(K)
<1>1. Ledger(K) /\ DOMAIN K = DOMAIN L /\ Len(K) = Len(L) /\ Mine(K) = P
  BY SpoiltIsLedger
<1>2. \A i \in DOMAIN L : /\ K[i].id = L[i].id /\ K[i].parents = L[i].parents /\ K[i].wf = L[i].wf
                          /\ K[i].tenant = L[i].tenant /\ (K[i].sound <=> L[i].id # bad)
  BY SpoiltIsLedger
<1>3. P \subseteq DOMAIN L
  BY DEF Mine
<1>4. Tangled(rs) <=> Tangled(RunOf(L))
  BY SpoiltIsAsTangled
<1> HIDE DEF K, P, rs
<1>5. /\ Flow!Reconstruct(K, Asked).workflow = "w"
      /\ Flow!Reconstruct(K, Asked).missing = Flow!MissingParents(rs)
      /\ Flow!Reconstruct(K, Asked).acyclic <=> Len(OrderOf(K)) = Len(rs)
  BY Rebuilt DEF rs
<1>6. Flow!InRun(K, Asked) = rs /\ Flow!TargetTenant(K, Asked) = "t1"
  BY RunIsKept DEF rs
<1>7. (\A i \in DOMAIN K : K[i].wf = "w")
      /\ {i \in DOMAIN K : K[i].wf = "w" /\ "t1" # Flow!None /\ K[i].tenant # "t1"} = {}
         <=> Mine(K) = DOMAIN K
  BY DEF Mine, Flow!None
<1>8. Flow!VerifyWorkflow(K, Asked).valid
        <=> /\ \A j \in DOMAIN rs : rs[j].sound
            /\ Flow!MissingParents(rs) = {} /\ Len(OrderOf(K)) = Len(rs)
            /\ Mine(K) = DOMAIN K
  BY <1>5, <1>6, <1>7 DEF Flow!VerifyWorkflow
<1>9. (\A j \in DOMAIN rs : rs[j].sound) <=> bad \notin IdsOf(L)
  <2>1. \A j \in DOMAIN rs : \E i \in P : rs[j] = K[i]
    BY <1>1, RunIsTraced DEF rs
  <2>2. \A i \in P : \E j \in DOMAIN rs : rs[j] = K[i]
    BY <1>1, RunIsTraced DEF rs
  <2>3. (\A j \in DOMAIN rs : rs[j].sound) <=> \A i \in P : K[i].sound
    BY <2>1, <2>2
  <2>4. (\A i \in P : K[i].sound) <=> \A i \in P : L[i].id # bad
    BY <1>2, <1>3
  <2> QED
    BY <2>3, <2>4 DEF IdsOf, P
<1>10. Flow!MissingParents(rs) = {} <=> \A r \in Own(L) : ToSet(r.parents) \subseteq IdsOf(L)
  <2>1. Flow!Ids(rs) = IdsOf(K) /\ IdsOf(K) = IdsOf(L)
    BY <1>1, <1>2, <1>3, RunIds DEF IdsOf, rs, P
  <2>2. Flow!MissingParents(rs) = {} <=> \A i \in P : ToSet(K[i].parents) \subseteq IdsOf(L)
    BY <1>1, <2>1, RunIds DEF rs
  <2>3. Flow!MissingParents(rs) = {} <=> \A i \in P : ToSet(L[i].parents) \subseteq IdsOf(L)
    BY <1>2, <1>3, <2>2
  <2> QED
    BY <2>3 DEF Own, P
<1>11. Len(OrderOf(K)) = Len(rs) /\ Mine(K) = DOMAIN K <=> Len(OrderOf(L)) = Len(L)
  <2>1. Len(OrderOf(K)) = Len(rs) <=> ~Tangled(rs)
    BY <1>1, OrderOfLedger DEF rs
  <2>2. Len(OrderOf(L)) = Len(RunOf(L)) <=> ~Tangled(RunOf(L))
    BY OrderOfLedger
  <2>3. Len(OrderOf(L)) \in Nat /\ Len(OrderOf(L)) <= Len(RunOf(L))
    BY OrderOfLedger
  <2>4. Len(RunOf(L)) <= Len(L) /\ (Len(RunOf(L)) = Len(L) <=> P = DOMAIN L)
    BY RunIsTraced DEF P
  <2>5. Len(RunOf(L)) \in Nat /\ Len(L) \in Nat
    BY RunIsTraced DEF Traced, Ledger
  <2> QED
    BY <1>1, <1>4, <2>1, <2>2, <2>3, <2>4, <2>5
<1> QED
  BY <1>8, <1>9, <1>10, <1>11 DEF K

(* What is rebuilt of a workflow is exact, whatever ledger of receipts     *)
(* with ids of their own it is rebuilt from: Kahn's loop, with its counts  *)
(* of missing parents and its queue, goes through the receipts whose       *)
(* parents are placed, by height and id; it ends early exactly when some   *)
(* are tangled; and verifyWorkflow says no more than that.                 *)
THEOREM ReportsKahnIsExact == ASSUME NEW L, Ledger(L) PROVE OrderIsExact(L)
<1> DEFINE mine == {L[i] : i \in {j \in DOMAIN L : L[j].wf = "w" /\ L[j].tenant = "t1"}}
           ids  == {r.id : r \in mine}
           Parents(r) == ToSet(r.parents) \cap ids
           Repeats(r) == \E i, j \in DOMAIN r.parents :
                            i # j /\ r.parents[i] = r.parents[j] /\ r.parents[i] \in ids
           asked == [wf |-> "w", tenant |-> "t1"]
           got   == Flow!Reconstruct(L, asked)
           At(k) == CHOOSE r \in mine : r.id = got.order[k]
           Placed(k) == {got.order[i] : i \in 1 .. k - 1}
           Least(r, k) == \A q \in mine :
               q.id \notin Placed(k) /\ Parents(q) \subseteq Placed(k) /\ ~Repeats(q) =>
                   r.height < q.height \/ (r.height = q.height /\ r.id <= q.id)
           order == OrderOf(L)
           rs    == RunOf(L)
<1>1. mine = Own(L) /\ asked = Asked
  BY DEF Own, Mine, Asked
<1>2. ids = IdsOf(L)
  BY <1>1, OwnReceipts
<1>3. got.order = order /\ (got.acyclic <=> Len(order) = Len(rs))
  BY <1>1, Rebuilt
<1>4. /\ InOrder(rs, order) /\ Len(order) \in Nat
      /\ Len(order) = Len(rs) <=> ~Tangled(rs)
  BY OrderOfLedger
<1>5. \A r : Repeats(r) <=> ListsTwice(L, r)
  BY <1>2 DEF ListsTwice
<1>6. Flow!Ids(rs) = ids
  BY <1>2, OwnReceipts
<1>7. \A r, q \in mine : r.id = q.id => r = q
  BY <1>1, OwnReceipts
<1>8. \A r \in mine : /\ Flow!ById(rs, r.id) = r /\ ParentsIn(rs, r.id) = Parents(r)
                      /\ Twice(rs, r.id) <=> Repeats(r)
  BY <1>1, <1>2, <1>5, OwnReceipts
<1>9. \A k : Placed(k) = PlacedBy(order, k)
  BY <1>3 DEF PlacedBy
<1>10. order \in Seq(ids) /\ Once(order) /\ DOMAIN order = 1 .. Len(order)
  BY <1>4, <1>6 DEF InOrder
<1>11. /\ ToSet(got.order) \subseteq ids
       /\ IsInjective(got.order)
  <2> HIDE DEF order, got, ids
  <2>1. ToSet(order) \subseteq ids
    BY <1>10 DEF ToSet
  <2>2. IsInjective(order)
    BY <1>10 DEF IsInjective, Once
  <2> QED
    BY <1>3, <2>1, <2>2
<1>12. ASSUME NEW k \in DOMAIN got.order
       PROVE  Parents(At(k)) \subseteq Placed(k) /\ Least(At(k), k)
  <2> DEFINE a == At(k)
  <2>1. k \in DOMAIN order /\ order[k] \in Readied(rs, PlacedBy(order, k))
        /\ \A b \in Readied(rs, PlacedBy(order, k)) : Before(rs, order[k], b)
    BY <1>3, <1>4, <1>12 DEF InOrder
  <2>2. order[k] \in ids
    BY <1>6, <2>1 DEF Readied
  <2>3. a \in mine /\ a.id = order[k]
    BY <1>3, <2>2
  <2> HIDE DEF a, mine, ids, Parents, Repeats, got, order, rs, Placed
  <2>4. Parents(a) \subseteq Placed(k)
    BY <1>8, <1>9, <2>1, <2>3 DEF Readied
  <2>5. ASSUME NEW q \in mine, q.id \notin Placed(k), Parents(q) \subseteq Placed(k), ~Repeats(q)
        PROVE  a.height < q.height \/ (a.height = q.height /\ a.id <= q.id)
    <3>1. q.id \in ids
      BY DEF ids
    <3>2. q.id \in Readied(rs, PlacedBy(order, k))
      BY <1>6, <1>8, <1>9, <2>5, <3>1 DEF Readied
    <3>3. Before(rs, a.id, q.id)
      BY <2>1, <2>3, <3>2
    <3> QED
      BY <1>8, <2>3, <3>3 DEF Before
  <2> QED
    BY <2>4, <2>5 DEF a
<1>13. got.acyclic <=> ~\E group \in SUBSET mine :
          group # {} /\ \A r \in group : Parents(r) \cap {q.id : q \in group} # {} \/ Repeats(r)
  <2>1. got.acyclic <=> ~Tangled(rs)
    BY <1>3, <1>4
  <2>2. Tangled(rs) <=> \E group \in SUBSET mine :
          group # {} /\ \A r \in group : Parents(r) \cap {q.id : q \in group} # {} \/ ListsTwice(L, r)
    BY <1>1, <1>2, TangledReceipts
  <2> QED
    BY <1>5, <2>1, <2>2
<1>14. ASSUME NEW bad
       PROVE  Flow!VerifyWorkflow([i \in DOMAIN L |-> [L[i] EXCEPT !.sound = L[i].id # bad]], asked).valid
                <=> /\ bad \notin ids /\ Len(got.order) = Len(L)
                    /\ \A r \in mine : ToSet(r.parents) \subseteq ids
  <2>1. [i \in DOMAIN L |-> [L[i] EXCEPT !.sound = L[i].id # bad]] = Spoilt(L, bad)
    BY DEF Spoilt
  <2> QED
    BY <1>1, <1>2, <1>3, <2>1, Verified
<1>15. \A bad \in {0} \cup {L[i].id : i \in DOMAIN L} :
          Flow!VerifyWorkflow([i \in DOMAIN L |-> [L[i] EXCEPT !.sound = L[i].id # bad]], asked).valid
            <=> /\ bad \notin ids /\ Len(got.order) = Len(L)
                /\ \A r \in mine : ToSet(r.parents) \subseteq ids
  BY <1>14, Zenon
<1> QED
  BY <1>11, <1>12, <1>13, <1>15, Zenon DEF OrderIsExact

(* A behaviour grows a ledger of receipts whose ids are their own.         *)
GraphInv ==
    topic = "graph" =>
        /\ input \in Seq(GraphItems)
        /\ \A i, j \in DOMAIN input : input[i].id = input[j].id => i = j

LEMMA NextKeepsGraphs == GraphInv /\ [Next]_vars => GraphInv'
<1> SUFFICES ASSUME GraphInv, [Next]_vars, topic' = "graph" PROVE GraphInv'
  BY DEF GraphInv
<1>1. CASE UNCHANGED vars
  BY <1>1 DEF vars, GraphInv
<1>2. CASE Next
  <2>1. topic = "graph" /\ Adds({x \in GraphItems : \A i \in DOMAIN input : input[i].id # x.id}, 3)
    BY <1>2 DEF Next
  <2>2. PICK x \in GraphItems : input' = Append(input, x) /\ \A i \in DOMAIN input : input[i].id # x.id
    BY <2>1 DEF Adds
  <2>3. input \in Seq(GraphItems) /\ \A i, j \in DOMAIN input : input[i].id = input[j].id => i = j
    BY <2>1 DEF GraphInv
  <2> HIDE DEF GraphItems
  <2>4. /\ input' \in Seq(GraphItems) /\ Len(input') = Len(input) + 1
        /\ \A i \in 1 .. Len(input) : input'[i] = input[i]
        /\ input'[Len(input) + 1] = x
    BY <2>2, <2>3, Appended
  <2>5. DOMAIN input = 1 .. Len(input) /\ DOMAIN input' = 1 .. Len(input') /\ Len(input) \in Nat
    BY <2>3, <2>4
  <2>6. \A i, j \in DOMAIN input' : input'[i].id = input'[j].id => i = j
    BY <2>2, <2>3, <2>4, <2>5
  <2> QED
    BY <2>4, <2>6 DEF GraphInv
<1> QED
  BY <1>1, <1>2


LEMMA GraphItemsAreTraced ==
    ASSUME NEW x \in GraphItems
    PROVE  x.id \in Int /\ x.parents \in Seq(Int)
<1>1. x.id \in 1 .. 3
  BY DEF GraphItems
<1>2. x.parents \in {<<>>, <<1>>, <<2>>, <<3>>, <<1, 2>>, <<3, 1>>, <<1, 1>>, <<9>>}
  BY DEF GraphItems
<1>3. x.parents \in Seq(Int)
  <2>1. <<>> \in Seq(Int) /\ <<1>> \in Seq(Int) /\ <<2>> \in Seq(Int) /\ <<3>> \in Seq(Int)
        /\ <<9>> \in Seq(Int)
    OBVIOUS
  <2>2. <<1, 2>> \in Seq(Int) /\ <<3, 1>> \in Seq(Int) /\ <<1, 1>> \in Seq(Int)
    OBVIOUS
  <2> QED
    BY <1>2, <2>1, <2>2, Zenon
<1> QED
  BY <1>1, <1>3

LEMMA Filled ==
    ASSUME NEW id, NEW tenant, NEW parents, NEW height, NEW r,
           r = [id |-> id, tenant |-> tenant, parents |-> parents, wf |-> "w", sound |-> TRUE,
                height |-> height]
    PROVE  r.id = id /\ r.parents = parents /\ r.height = height /\ Whole(r)
<1>1. r.id = id /\ r.tenant = tenant /\ r.parents = parents /\ r.wf = "w" /\ r.height = height
  OBVIOUS
<1>2. r.sound = TRUE
  OBVIOUS
<1>3. Whole(r)
  BY <1>1, <1>2, Zenon DEF Whole
<1> QED
  BY <1>1, <1>3

(* What a behaviour grows is a ledger.                                     *)
LEMMA GraphIsLedger ==
    ASSUME NEW rs \in Seq(GraphItems), \A i, j \in DOMAIN rs : rs[i].id = rs[j].id => i = j
    PROVE  Ledger([i \in DOMAIN rs |->
               [id |-> rs[i].id, tenant |-> rs[i].tenant, parents |-> rs[i].parents,
                wf |-> "w", sound |-> TRUE, height |-> IF rs[i].id = 1 THEN 2 ELSE 1]])
<1> DEFINE h(i) == IF rs[i].id = 1 THEN 2 ELSE 1
           L == [i \in DOMAIN rs |->
                   [id |-> rs[i].id, tenant |-> rs[i].tenant, parents |-> rs[i].parents,
                    wf |-> "w", sound |-> TRUE, height |-> h(i)]]
           n == Len(rs)
<1>1. \A x \in GraphItems : x.id \in Int /\ x.parents \in Seq(Int)
  BY GraphItemsAreTraced
<1>2. n \in Nat /\ DOMAIN rs = 1 .. n
  OBVIOUS
<1>3. DOMAIN L = 1 .. n /\ L = [i \in 1 .. n |-> L[i]]
  BY <1>2
<1>4. \A i \in 1 .. n : L[i] = [id |-> rs[i].id, tenant |-> rs[i].tenant, parents |-> rs[i].parents,
                                wf |-> "w", sound |-> TRUE, height |-> h(i)]
  BY <1>2
<1>5. \A i \in 1 .. n : rs[i] \in GraphItems /\ h(i) \in Int
  BY <1>2
<1> HIDE DEF L, n, h, GraphItems
<1>6. Len(L) = n
  BY <1>2, <1>3
<1>7. ASSUME NEW i \in 1 .. n
      PROVE  L[i].id = rs[i].id /\ L[i].parents = rs[i].parents /\ L[i].height = h(i) /\ Whole(L[i])
  <2>1. L[i] = [id |-> rs[i].id, tenant |-> rs[i].tenant, parents |-> rs[i].parents,
                wf |-> "w", sound |-> TRUE, height |-> h(i)]
    BY <1>4
  <2> DEFINE id == rs[i].id
             tenant == rs[i].tenant
             parents == rs[i].parents
             height == h(i)
             r == L[i]
  <2>2. r = [id |-> id, tenant |-> tenant, parents |-> parents, wf |-> "w", sound |-> TRUE,
             height |-> height]
    BY <2>1
  <2> HIDE DEF id, tenant, parents, height, r
  <2>3. r.id = id /\ r.parents = parents /\ r.height = height /\ Whole(r)
    BY <2>2, Filled
  <2> QED
    BY <2>3 DEF id, parents, height, r
<1>9. Traced(L)
  <2>1. \A i \in 1 .. n : L[i].id \in Int /\ L[i].height \in Int /\ L[i].parents \in Seq(Int)
    BY <1>1, <1>5, <1>7
  <2>2. \A i, j \in 1 .. n : L[i].id = L[j].id => i = j
    BY <1>2, <1>7
  <2> QED
    BY <1>2, <1>3, <1>6, <2>1, <2>2 DEF Traced
<1>10. Ledger(L)
  BY <1>3, <1>6, <1>7, <1>9 DEF Ledger
<1> QED
  BY <1>10 DEF L, h

(* In the run's ledgers it is: the theorem above, of what a behaviour      *)
(* grows.                                                                  *)
THEOREM ReportsWorkflowOrderIsExact == Spec => []WorkflowOrderIsExact
<1>1. Init => GraphInv
  BY DEF Init, GraphInv
<1>2. GraphInv => WorkflowOrderIsExact
  BY GraphIsLedger, ReportsKahnIsExact DEF GraphInv, WorkflowOrderIsExact
<1> QED
  BY <1>1, <1>2, NextKeepsGraphs, PTL DEF Spec
-----------------------------------------------------------------------------
(* Rules.  What a value, a literal's number and a pair of opposites are.   *)
ANumber == Int \cup {NotANumber}
Orders  == {">=", "<=", ">", "<", "==", "!="}

(* A list of rules is verified if there are any and none fails.            *)
LEMMA VerifiedRules ==
    ASSUME NEW rules, NEW values
    PROVE  Rung!CheckRules(rules, values).status = "verified" <=>
              /\ rules # <<>>
              /\ \A i \in DOMAIN rules : /\ Rung!Expression(rules[i]) # Rung!NoExpression
                                         /\ Rung!EvalExpr(Rung!Expression(rules[i]), values)
<1> DEFINE failed == {i \in DOMAIN rules : Rung!Expression(rules[i]) = Rung!NoExpression
                                              \/ ~Rung!EvalExpr(Rung!Expression(rules[i]), values)}
           status == IF failed = {} /\ rules # <<>> THEN "verified" ELSE "failed"
<1>1. Rung!CheckRules(rules, values).status = status
  BY DEF Rung!CheckRules
<1> QED
  BY <1>1

LEMMA VerifiedRule ==
    ASSUME NEW rule, NEW values
    PROVE  Rung!CheckRules(<<rule>>, values).status = "verified" <=>
              /\ Rung!Expression(rule) # Rung!NoExpression
              /\ Rung!EvalExpr(Rung!Expression(rule), values)
<1> DEFINE rules == <<rule>>
<1>1. rules # <<>> /\ DOMAIN rules = {1} /\ rules[1] = rule
  OBVIOUS
<1> HIDE DEF rules
<1>2. Rung!CheckRules(rules, values).status = "verified" <=>
          /\ Rung!Expression(rule) # Rung!NoExpression
          /\ Rung!EvalExpr(Rung!Expression(rule), values)
  BY <1>1, VerifiedRules
<1> QED
  BY <1>2 DEF rules

(* The value `field in values` finds: the object's own, or an inherited one.*)
Found(values, f)   == f \in DOMAIN values \cup Inherited
FoundAt(values, f) == IF f \in DOMAIN values THEN values[f] ELSE Rung!InheritedValue

(* The rule of a comparison passes if a value is found and compares.       *)
LEMMA ComparisonPasses ==
    ASSUME NEW f, NEW op \in Orders, NEW text, NEW num \in ANumber, NEW values
    PROVE  Rung!CheckRules(<<[form |-> Rung!NoExpression, expression |-> Comparison(f, op, text, num)]>>,
                           values).status = "verified"
              <=> Found(values, f) /\ Rung!Holds(Comparison(f, op, text, num), FoundAt(values, f))
<1> DEFINE x == Comparison(f, op, text, num)
           rule == [form |-> Rung!NoExpression, expression |-> x]
<1>1. x.kind = "comparison" /\ x.field = f
  BY DEF Comparison
<1>2. x # Rung!NoExpression
  BY <1>1 DEF Rung!NoExpression
<1> HIDE DEF x
<1>3. rule.form = Rung!NoExpression /\ rule.expression = x
  OBVIOUS
<1> HIDE DEF rule
<1>4. Rung!Expression(rule) = x
  BY <1>3 DEF Rung!Expression
<1>5. Rung!CheckRules(<<rule>>, values).status = "verified" <=> x # Rung!NoExpression /\ Rung!EvalExpr(x, values)
  BY <1>4, VerifiedRule
<1>6. Rung!EvalExpr(x, values) <=> Found(values, f) /\ Rung!Holds(x, FoundAt(values, f))
  BY <1>1 DEF Rung!EvalExpr, Found, FoundAt
<1> QED
  BY <1>2, <1>5, <1>6 DEF rule, x

(* One of two opposites holds of numbers, and of texts if they are equal or*)
(* not; of an order of what is no number, neither.                         *)
LEMMA OppositesDecide ==
    ASSUME NEW f, NEW opposite \in Opposites, NEW text, NEW num \in ANumber,
           NEW v, v.num \in ANumber
    PROVE  LET First  == Rung!Holds(Comparison(f, opposite[1], text, num), v)
               Second == Rung!Holds(Comparison(f, opposite[2], text, num), v)
               decided == opposite[1] = "==" \/ NotANumber \notin {v.num, num}
           IN  /\ decided => (First <=> ~Second)
               /\ ~decided => ~First /\ ~Second
<1>1. NotANumber \notin Int
  BY ReportsAssumption DEF Rung!AssuranceAssumption
<1>2. ASSUME NEW op PROVE /\ Comparison(f, op, text, num).op = op
                          /\ Comparison(f, op, text, num).text = text
                          /\ Comparison(f, op, text, num).num = num
  BY DEF Comparison
<1>3. ASSUME NEW op
      PROVE  Rung!Holds(Comparison(f, op, text, num), v) <=>
                IF v.num # NotANumber /\ num # NotANumber THEN Rung!Compares(op, v.num, num)
                ELSE (op = "==" /\ v.text = text) \/ (op = "!=" /\ v.text # text)
  <2> DEFINE x == Comparison(f, op, text, num)
  <2>1. x.op = op /\ x.text = text /\ x.num = num
    BY <1>2
  <2> HIDE DEF x
  <2>2. Rung!Holds(x, v) <=>
           IF v.num # NotANumber /\ x.num # NotANumber THEN Rung!Compares(x.op, v.num, x.num)
           ELSE (x.op = "==" /\ v.text = x.text) \/ (x.op = "!=" /\ v.text # x.text)
    BY DEF Rung!Holds
  <2>3. QED
    BY <2>1, <2>2 DEF x
<1> DEFINE a == opposite[1]
           b == opposite[2]
           First == Rung!Holds(Comparison(f, a, text, num), v)
           Second == Rung!Holds(Comparison(f, b, text, num), v)
<1>4. <<a, b>> \in {<<">=", "<">>, <<"<=", ">">>, <<"==", "!=">>}
  BY DEF Opposites
<1> HIDE DEF a, b
<1>5. CASE v.num # NotANumber /\ num # NotANumber
  <2>1. (First <=> Rung!Compares(a, v.num, num)) /\ (Second <=> Rung!Compares(b, v.num, num))
    BY <1>3, <1>5
  <2>2. v.num \in Int /\ num \in Int
    BY <1>5 DEF ANumber
  <2>3. Rung!Compares(a, v.num, num) <=> ~Rung!Compares(b, v.num, num)
    <3> DEFINE k == v.num
    <3>1. k \in Int /\ num \in Int
      BY <2>2
    <3> HIDE DEF k
    <3>2. \/ a = ">=" /\ b = "<"
          \/ a = "<=" /\ b = ">"
          \/ a = "==" /\ b = "!="
      BY <1>4
    <3>3. Rung!Compares(">=", k, num) <=> ~Rung!Compares("<", k, num)
      BY <3>1 DEF Rung!Compares
    <3>4. Rung!Compares("<=", k, num) <=> ~Rung!Compares(">", k, num)
      BY <3>1 DEF Rung!Compares
    <3>5. Rung!Compares("==", k, num) <=> ~Rung!Compares("!=", k, num)
      BY <3>1 DEF Rung!Compares
    <3> QED
      BY <3>2, <3>3, <3>4, <3>5 DEF k
  <2> QED
    BY <1>5, <2>1, <2>3 DEF a, b
<1>6. CASE ~(v.num # NotANumber /\ num # NotANumber)
  <2>1. /\ First <=> (a = "==" /\ v.text = text) \/ (a = "!=" /\ v.text # text)
        /\ Second <=> (b = "==" /\ v.text = text) \/ (b = "!=" /\ v.text # text)
    BY <1>3, <1>6
  <2>2. opposite[1] = a
    BY DEF a
  <2>3. a # "==" => (~First /\ ~Second)
    BY <1>4, <2>1
  <2>4. a = "==" => (First <=> ~Second)
    BY <1>4, <2>1
  <2> QED
    BY <1>6, <2>2, <2>3, <2>4 DEF a, b
<1> QED
  BY <1>5, <1>6

(* Any list of rules, and any comparison of any value.                     *)
THEOREM RulesAlwaysDecided ==
    ASSUME NEW rules, NEW values, NEW f, NEW opposite \in Opposites, NEW text,
           NEW num \in ANumber, f \in DOMAIN values => values[f].num \in ANumber
    PROVE  RuleIsDecided(rules, values, f, opposite, text, num)
<1> DEFINE Accepted(list) == Rung!CheckRules(list, values).status = "verified"
           Passes(op) == Accepted(<<[form |-> Rung!NoExpression, expression |-> Comparison(f, op, text, num)]>>)
           decided == \/ /\ f \in DOMAIN values
                         /\ opposite[1] = "==" \/ NotANumber \notin {values[f].num, num}
                      \/ f \in Inherited \ DOMAIN values /\ opposite[1] = "=="
           v       == FoundAt(values, f)
           passing == {op \in {opposite[1], opposite[2]} : Passes(op)}
<1>1. Accepted(rules) <=> rules # <<>> /\ \A i \in DOMAIN rules : Accepted(<<rules[i]>>)
  BY VerifiedRules, VerifiedRule
<1>2. opposite[1] \in Orders /\ opposite[2] \in Orders /\ opposite[1] # opposite[2]
  BY DEF Opposites, Orders
<1>3. \A op \in Orders : Passes(op) <=> /\ Found(values, f)
                                        /\ Rung!Holds(Comparison(f, op, text, num), v)
  BY ComparisonPasses
<1>6. v.num \in ANumber /\ (f \notin DOMAIN values => v.num = NotANumber)
  BY DEF FoundAt, ANumber, Rung!InheritedValue
<1>7. decided <=> Found(values, f) /\ (opposite[1] = "==" \/ NotANumber \notin {v.num, num})
  <2>1. CASE f \in DOMAIN values
    BY <2>1 DEF Found, FoundAt
  <2>2. CASE f \notin DOMAIN values
    BY <1>6, <2>2 DEF Found
  <2> QED
    BY <2>1, <2>2
<1> HIDE DEF Passes, decided, v
<1>4. IF decided THEN Passes(opposite[1]) <=> ~Passes(opposite[2])
      ELSE ~Passes(opposite[1]) /\ ~Passes(opposite[2])
  <2>1. CASE ~Found(values, f)
    BY <1>2, <1>3, <1>7, <2>1
  <2>2. CASE Found(values, f)
    BY <1>2, <1>3, <1>6, <1>7, <2>2, OppositesDecide
  <2> QED
    BY <2>1, <2>2
<1>5. Cardinality(passing) = IF decided THEN 1 ELSE 0
  <2>1. CASE decided /\ Passes(opposite[1])
    <3>1. passing = {opposite[1]}
      BY <1>2, <1>4, <2>1
    <3> QED
      BY <2>1, <3>1, FS_Singleton
  <2>2. CASE decided /\ ~Passes(opposite[1])
    <3>1. passing = {opposite[2]}
      BY <1>2, <1>4, <2>2
    <3> QED
      BY <2>2, <3>1, FS_Singleton
  <2>3. CASE ~decided
    <3>1. passing = {}
      BY <1>4, <2>3
    <3> QED
      BY <2>3, <3>1, FS_EmptySet
  <2> QED
    BY <2>1, <2>2, <2>3
<1> QED
  BY <1>1, <1>5 DEF RuleIsDecided, Passes, decided

(* In the run's rules and facts they are.                                  *)
THEOREM ReportsRulesAreDecided == RulesAreDecided
<1> SUFFICES ASSUME NEW values \in Facts, NEW f \in {"score", "region", "toString"},
                    NEW opposite \in Opposites,
                    NEW literal \in {<<"5", 5>>, <<"5", NotANumber>>, <<"EU", NotANumber>>}
             PROVE  RuleIsDecided(input, values, f, opposite, literal[1], literal[2])
  BY DEF RulesAreDecided
<1>1. literal[2] \in ANumber
  BY DEF ANumber
<1>2. f \in DOMAIN values => values[f].num \in ANumber
  <2> DEFINE four == [text |-> "4", num |-> 4]
             five == [text |-> "5", num |-> 5]
             eu   == [text |-> "EU", num |-> NotANumber]
  <2>1. four.num \in ANumber /\ five.num \in ANumber /\ eu.num \in ANumber
    BY DEF ANumber
  <2> HIDE DEF four, five, eu
  <2>2. values \in {<<>>, [score |-> five], [score |-> four, region |-> eu]}
    BY DEF Facts, four, five, eu
  <2> QED
    BY <2>1, <2>2
<1> QED
  BY <1>1, <1>2, RulesAlwaysDecided
-----------------------------------------------------------------------------
(* The assurance ladder.  Envelopes with all of their parts.               *)
Records(hashes, sigs, prevs, imprints) ==
    [hash : hashes, sigs : Seq(sigs), height : JsonHeight, prev : prevs, imprint : imprints]

(* What the ladder asks of a whole envelope and its tokens.                *)
Sound(e, tokens) ==
    /\ e.hash = "right" /\ Port!AnySignature(e, Port!TsTakes)
    /\ Rung!Imprint(tokens) # "mismatch"
    /\ Alone(Port!Integral(e.height), e.prev)

Named(e, opts) == \E i \in DOMAIN e.sigs : e.sigs[i].kid \in opts.attested

(* A token of other bytes, and only that, is a mismatch.                   *)
LEMMA MismatchIsOfOther ==
    ASSUME NEW tokens
    PROVE  /\ Rung!Imprint(tokens) \in {"none", "match", "mismatch"}
           /\ Rung!Imprint(tokens) = "mismatch" <=> \E i \in DOMAIN tokens : tokens[i] = "other"
<1> DEFINE verdicts == Rung!VerifyReceiptTimestamps(tokens)
<1>1. DOMAIN verdicts = DOMAIN tokens /\ \A i \in DOMAIN tokens : verdicts[i] = Rung!Verdict(tokens[i])
  BY DEF Rung!VerifyReceiptTimestamps
<1>2. ASSUME NEW t PROVE Rung!Verdict(t) = "false" <=> t = "other"
  BY DEF Rung!Verdict
<1> HIDE DEF verdicts
<1>3. "false" \in Rung!ToSet(verdicts) <=> \E i \in DOMAIN tokens : tokens[i] = "other"
  BY <1>1, <1>2 DEF Rung!ToSet
<1>4. Rung!Imprint(tokens) = IF "false" \in Rung!ToSet(verdicts) THEN "mismatch"
                             ELSE IF "true" \in Rung!ToSet(verdicts) THEN "match" ELSE "none"
  BY DEF Rung!Imprint, verdicts
<1> QED
  BY <1>3, <1>4

LEMMA OneVerifierTS == \A e, pred : Rung!VerifyTS(e, pred) = Port!VerifyTS(e, pred)
BY DEF Rung!VerifyTS, Port!VerifyTS, Rung!Broken, Port!Broken, Rung!Integral, Port!Integral,
       Rung!Answer, Port!Answer, Rung!AnySignature, Port!AnySignature, Rung!TsTakes, Port!TsTakes,
       Rung!LinkHolds, Port!LinkHolds

(* An envelope with another imprint, or with one more signature.           *)
LEMMA Imprinted ==
    ASSUME NEW hashes, NEW sigs, NEW prevs, NEW imprints, NEW imprint \in imprints,
           NEW e \in Records(hashes, sigs, prevs, imprints)
    PROVE  LET seen == [e EXCEPT !.imprint = imprint]
           IN  /\ seen \in Records(hashes, sigs, prevs, imprints)
               /\ seen.hash = e.hash /\ seen.sigs = e.sigs /\ seen.height = e.height
               /\ seen.prev = e.prev /\ seen.imprint = imprint
BY DEF Records

LEMMA Signed ==
    ASSUME NEW hashes, NEW sigs, NEW prevs, NEW imprints, NEW s \in sigs,
           NEW e \in Records(hashes, sigs, prevs, imprints)
    PROVE  LET more == [e EXCEPT !.sigs = Append(@, s)]
           IN  /\ more \in Records(hashes, sigs, prevs, imprints)
               /\ more.hash = e.hash /\ more.sigs = Append(e.sigs, s) /\ more.height = e.height
               /\ more.prev = e.prev /\ more.imprint = e.imprint
BY DEF Records

(* When a whole envelope verifies with the verdict on its tokens.          *)
LEMMA SeenVerifies ==
    ASSUME NEW hashes, NEW sigs, NEW prevs, NEW imprints, {"none", "match", "mismatch"} \subseteq imprints,
           \A x \in Records(hashes, sigs, prevs, imprints) : ~Port!Broken(x),
           NEW e \in Records(hashes, sigs, prevs, imprints), NEW tokens
    PROVE  Port!VerifyTS([e EXCEPT !.imprint = Rung!Imprint(tokens)], NoPredecessor) = "valid"
              <=> Sound(e, tokens)
<1> DEFINE seen == [e EXCEPT !.imprint = Rung!Imprint(tokens)]
<1>1. Rung!Imprint(tokens) \in imprints
  BY MismatchIsOfOther
<1>2. /\ seen \in Records(hashes, sigs, prevs, imprints)
      /\ seen.hash = e.hash /\ seen.sigs = e.sigs /\ seen.height = e.height
      /\ seen.prev = e.prev /\ seen.imprint = Rung!Imprint(tokens)
  BY <1>1, Imprinted
<1> HIDE DEF seen
<1>3. ~Port!Broken(seen) /\ NoPredecessor # Malformed
  BY <1>2, ReportsAssumption DEF Port!PortAssumption
<1>4. Port!AnySignature(seen, Port!TsTakes) <=> Port!AnySignature(e, Port!TsTakes)
  BY <1>2 DEF Port!AnySignature
<1>5. Port!VerifyTS(seen, NoPredecessor) = "valid" <=>
         /\ seen.hash = "right" /\ Port!AnySignature(seen, Port!TsTakes) /\ seen.imprint # "mismatch"
         /\ Alone(Port!Integral(seen.height), seen.prev)
  BY <1>3, TsAccepts
<1> QED
  BY <1>2, <1>4, <1>5 DEF Sound, seen

(* A part that is missing leaves level 0; with all of them each level asks *)
(* for one thing more.                                                     *)
LEMMA LevelOfBroken ==
    ASSUME NEW e, Port!Broken(e), NEW tokens, NEW opts
    PROVE  Rung!AssuranceLevel(e, tokens, opts) = 0
<1>1. Rung!Broken(e)
  BY DEF Rung!Broken, Port!Broken
<1>2. ~Rung!Criteria(e, tokens, opts).signed
  BY <1>1 DEF Rung!Criteria
<1> QED
  BY <1>2 DEF Rung!AssuranceLevel

LEMMA LevelOfWhole ==
    ASSUME NEW hashes, NEW sigs, NEW prevs, NEW imprints, {"none", "match", "mismatch"} \subseteq imprints,
           \A x \in Records(hashes, sigs, prevs, imprints) : ~Port!Broken(x),
           NEW e \in Records(hashes, sigs, prevs, imprints), NEW tokens, NEW opts
    PROVE  Rung!AssuranceLevel(e, tokens, opts) =
              IF ~(opts.keys /\ Sound(e, tokens)) THEN 0 ELSE IF ~Named(e, opts) THEN 1
              ELSE IF ~(tokens # <<>> /\ opts.anchor) THEN 2 ELSE 3
<1> DEFINE c == Rung!Criteria(e, tokens, opts)
           seen == [e EXCEPT !.imprint = Rung!Imprint(tokens)]
           signed == /\ opts.keys /\ ~Rung!Broken(e) /\ e.sigs # <<>> /\ e.hash # Absent /\ e.height # Absent
                     /\ Rung!VerifyTS(seen, NoPredecessor) = "valid"
<1>1. Rung!VerifyTS(seen, NoPredecessor) = "valid" <=> Sound(e, tokens)
  BY SeenVerifies, OneVerifierTS
<1>2. ~Rung!Broken(e)
  BY DEF Rung!Broken, Port!Broken
<1>3. Sound(e, tokens) => e.sigs # <<>> /\ e.hash # Absent /\ e.height # Absent
  <2>1. Sound(e, tokens) => e.sigs # <<>>
    BY DEF Sound, Port!AnySignature
  <2>2. Sound(e, tokens) => e.hash # Absent
    BY ReportsAssumption DEF Sound, Port!PortAssumption
  <2>3. Sound(e, tokens) => e.height # Absent
    BY DEF Sound, Alone, Port!Integral
  <2> QED
    BY <2>1, <2>2, <2>3
<1>4. c = [signed |-> signed, attested |-> signed /\ Named(e, opts),
           anchored |-> tokens # <<>> /\ opts.anchor]
  BY Zenon DEF Rung!Criteria, Named
<1> HIDE DEF seen
<1>5. signed <=> opts.keys /\ Sound(e, tokens)
  BY <1>1, <1>2, <1>3
<1> HIDE DEF signed, c
<1>6. /\ c.signed <=> signed
      /\ c.attested <=> signed /\ Named(e, opts)
      /\ c.anchored <=> tokens # <<>> /\ opts.anchor
  BY <1>4
<1>7. Rung!AssuranceLevel(e, tokens, opts)
        = IF ~c.signed THEN 0 ELSE IF ~c.attested THEN 1 ELSE IF ~c.anchored THEN 2 ELSE 3
  BY DEF Rung!AssuranceLevel, c
<1> QED
  BY <1>5, <1>6, <1>7

(* A token of the client's own is no other, and makes a list of tokens.    *)
LEMMA TokenAdded ==
    ASSUME NEW T, NEW tokens \in Seq(T), NEW client \in {"stub", "tsa", "late"}
    PROVE  LET after == Rung!TimestampReceipt(tokens, client)
           IN  /\ Rung!Imprint(after) = "mismatch" <=> Rung!Imprint(tokens) = "mismatch"
               /\ client = "late" => after = tokens
               /\ client # "late" => after # <<>>
<1> DEFINE after == Rung!TimestampReceipt(tokens, client)
           token == Rung!Token(client)
<1>1. CASE client = "late"
  BY <1>1 DEF Rung!TimestampReceipt, Rung!Token
<1>2. CASE client # "late"
  <2>1. token \in {"own", "der"} /\ token # Absent /\ token # "other"
    BY <1>2, ReportsAssumption DEF Rung!Token, Rung!AssuranceAssumption
  <2>2. after = Append(tokens, token)
    BY <2>1 DEF Rung!TimestampReceipt
  <2> HIDE DEF after, token
  <2>3. tokens \in Seq(T \cup {token}) /\ token \in T \cup {token}
    OBVIOUS
  <2>4. /\ after \in Seq(T \cup {token}) /\ Len(after) = Len(tokens) + 1
        /\ \A i \in 1..Len(tokens) : after[i] = tokens[i]
        /\ after[Len(tokens) + 1] = token
    <3> DEFINE S == T \cup {token}
    <3> HIDE DEF S
    <3>1. tokens \in Seq(S) /\ token \in S
      BY <2>3 DEF S
    <3>2. /\ Append(tokens, token) \in Seq(S) /\ Len(Append(tokens, token)) = Len(tokens) + 1
          /\ \A i \in 1..Len(tokens) : Append(tokens, token)[i] = tokens[i]
          /\ Append(tokens, token)[Len(tokens) + 1] = token
      BY <3>1, Appended
    <3> QED
      BY <2>2, <3>2, Zenon DEF S
  <2>5. Len(tokens) \in Nat /\ DOMAIN tokens = 1 .. Len(tokens)
        /\ DOMAIN after = 1 .. (Len(tokens) + 1) /\ after # <<>>
    BY <2>3, <2>4
  <2>6. (\E i \in DOMAIN after : after[i] = "other") <=> \E i \in DOMAIN tokens : tokens[i] = "other"
    BY <2>1, <2>4, <2>5
  <2> QED
    BY <1>2, <2>5, <2>6, MismatchIsOfOther DEF after
<1> QED
  BY <1>1, <1>2

(* A signature more.                                                       *)
LEMMA SignatureAdded ==
    ASSUME NEW hashes, NEW sigs, NEW prevs, NEW imprints, NEW s \in sigs,
           NEW e \in Records(hashes, sigs, prevs, imprints), NEW tokens, NEW opts
    PROVE  LET more == [e EXCEPT !.sigs = Append(@, s)]
           IN  /\ Sound(e, tokens) => Sound(more, tokens)
               /\ Sound(more, tokens) => Sound(e, tokens) \/ (s.good /\ s.kid \in Keys)
               /\ Named(e, opts) => Named(more, opts)
               /\ Named(more, opts) => Named(e, opts) \/ s.kid \in opts.attested
<1> DEFINE more == [e EXCEPT !.sigs = Append(@, s)]
           old == e.sigs
           new == more.sigs
<1>1. /\ more.hash = e.hash /\ new = Append(old, s) /\ more.height = e.height
      /\ more.prev = e.prev /\ more.imprint = e.imprint
  BY Signed
<1>2. old \in Seq(sigs)
  BY DEF Records
<1>3. more.sigs = new /\ e.sigs = old
  OBVIOUS
<1> HIDE DEF more, old, new
<1>4. /\ new \in Seq(sigs) /\ Len(new) = Len(old) + 1
      /\ \A i \in 1..Len(old) : new[i] = old[i]
      /\ new[Len(old) + 1] = s
  <2>1. /\ Append(old, s) \in Seq(sigs) /\ Len(Append(old, s)) = Len(old) + 1
        /\ \A i \in 1..Len(old) : Append(old, s)[i] = old[i]
        /\ Append(old, s)[Len(old) + 1] = s
    BY <1>2, Appended
  <2> QED
    BY <1>1, <2>1, Zenon
<1>5. /\ \A i \in DOMAIN old : i \in DOMAIN new /\ new[i] = old[i]
      /\ \A i \in DOMAIN new : new[i] = s \/ (i \in DOMAIN old /\ new[i] = old[i])
      /\ \E i \in DOMAIN new : new[i] = s
  BY <1>2, <1>4
<1>6. /\ Port!AnySignature(e, Port!TsTakes) => Port!AnySignature(more, Port!TsTakes)
      /\ Port!AnySignature(more, Port!TsTakes) =>
            Port!AnySignature(e, Port!TsTakes) \/ (s.good /\ s.kid \in Keys)
  BY <1>3, <1>5 DEF Port!AnySignature
<1>7. /\ Named(e, opts) => Named(more, opts)
      /\ Named(more, opts) => Named(e, opts) \/ s.kid \in opts.attested
  BY <1>3, <1>5 DEF Named
<1> QED
  BY <1>1, <1>6, <1>7 DEF Sound, more

(* Any envelope that is broken or whole, any tokens, options and signature.*)
THEOREM LevelAlwaysEarned ==
    ASSUME NEW hashes, NEW sigs, NEW prevs, NEW imprints, {"none", "match", "mismatch"} \subseteq imprints,
           \A x \in Records(hashes, sigs, prevs, imprints) : ~Port!Broken(x),
           NEW e, Port!Broken(e) \/ e \in Records(hashes, sigs, prevs, imprints),
           NEW T, NEW tokens \in Seq(T), NEW opts, NEW s \in sigs
    PROVE  LevelIsEarned(e, tokens, opts, s)
<1> DEFINE Level(f) == Rung!AssuranceLevel(f, tokens, opts)
           level == Level(e)
           more == Level([e EXCEPT !.sigs = Append(@, s)])
           seen == IF Port!Broken(e) THEN e ELSE [e EXCEPT !.imprint = Rung!Imprint(tokens)]
           lifted(client) == Rung!AssuranceLevel(e, Rung!TimestampReceipt(tokens, client), opts)
<1>1. CASE Port!Broken(e)
  <2>1. level = 0 /\ \A client : lifted(client) = 0
    BY <1>1, LevelOfBroken
  <2>2. Port!Verify("ts", seen, NoPredecessor) # "valid"
    BY <1>1 DEF Port!Verify, Port!VerifyTS
  <2> HIDE DEF level, lifted, seen
  <2>3. /\ level > 0 <=> opts.keys /\ Port!Verify("ts", seen, NoPredecessor) = "valid"
        /\ level > 1 => \E i \in DOMAIN e.sigs : e.sigs[i].kid \in opts.attested
        /\ level = 3 => opts.anchor /\ tokens # <<>>
        /\ \A client \in {"stub", "tsa", "late"} :
              lifted(client) = IF level = 2 /\ opts.anchor /\ client # "late" THEN 3 ELSE level
    BY <2>1, <2>2
  <2> QED
    BY <1>1, <2>3 DEF LevelIsEarned, level, lifted, seen
<1>2. CASE ~Port!Broken(e)
  <2>1. e \in Records(hashes, sigs, prevs, imprints)
    BY <1>2
  <2>2. level = IF ~(opts.keys /\ Sound(e, tokens)) THEN 0 ELSE IF ~Named(e, opts) THEN 1
                ELSE IF ~(tokens # <<>> /\ opts.anchor) THEN 2 ELSE 3
    BY <2>1, LevelOfWhole
  <2>3. Port!Verify("ts", seen, NoPredecessor) = "valid" <=> Sound(e, tokens)
    BY <1>2, <2>1, SeenVerifies DEF Port!Verify
  <2>4. ASSUME NEW client \in {"stub", "tsa", "late"}
        PROVE  lifted(client) = IF level = 2 /\ opts.anchor /\ client # "late" THEN 3 ELSE level
    <3> DEFINE after == Rung!TimestampReceipt(tokens, client)
    <3>1. /\ Rung!Imprint(after) = "mismatch" <=> Rung!Imprint(tokens) = "mismatch"
          /\ client = "late" => after = tokens
          /\ client # "late" => after # <<>>
      BY TokenAdded
    <3>2. lifted(client) = IF ~(opts.keys /\ Sound(e, after)) THEN 0 ELSE IF ~Named(e, opts) THEN 1
                           ELSE IF ~(after # <<>> /\ opts.anchor) THEN 2 ELSE 3
      BY <2>1, LevelOfWhole
    <3>3. Sound(e, after) <=> Sound(e, tokens)
      BY <3>1 DEF Sound
    <3> HIDE DEF after, lifted, level
    <3> QED
      BY <2>2, <3>1, <3>2, <3>3
  <2>5. /\ more >= level
        /\ level = 0 /\ more > 0 => s.good /\ s.kid \in Keys
        /\ level = 1 /\ more > 1 => s.kid \in opts.attested
    <3> DEFINE f == [e EXCEPT !.sigs = Append(@, s)]
    <3>1. f \in Records(hashes, sigs, prevs, imprints)
      BY <2>1, Signed
    <3>2. /\ Sound(e, tokens) => Sound(f, tokens)
          /\ Sound(f, tokens) => Sound(e, tokens) \/ (s.good /\ s.kid \in Keys)
          /\ Named(e, opts) => Named(f, opts)
          /\ Named(f, opts) => Named(e, opts) \/ s.kid \in opts.attested
      BY <2>1, SignatureAdded
    <3> HIDE DEF f
    <3>3. Level(f) = IF ~(opts.keys /\ Sound(f, tokens)) THEN 0 ELSE IF ~Named(f, opts) THEN 1
                     ELSE IF ~(tokens # <<>> /\ opts.anchor) THEN 2 ELSE 3
      BY <3>1, LevelOfWhole
    <3>4. more = Level(f)
      BY DEF f
    <3> HIDE DEF level, more, Level
    <3> QED
      BY <2>2, <3>2, <3>3, <3>4
  <2> HIDE DEF lifted, more, seen
  <2>6. /\ level > 0 <=> opts.keys /\ Port!Verify("ts", seen, NoPredecessor) = "valid"
        /\ level > 1 => Named(e, opts)
        /\ level = 3 => opts.anchor /\ tokens # <<>>
    <3> HIDE DEF level
    <3> QED
      BY <2>2, <2>3
  <2> QED
    BY <2>4, <2>5, <2>6, Zenon DEF LevelIsEarned, Named, level, lifted, more, seen, Level
<1> QED
  BY <1>1, <1>2

(* The first item a behaviour adds is an envelope, broken or whole.        *)
LadderInv ==
    /\ EnvelopeInv
    /\ topic = "envelope" /\ Len(input) = 1 =>
          Port!Broken(input[1]) \/ input[1] \in WholeEnvelopes

LEMMA FirstIsBrokenOrWhole ==
    ASSUME input = <<>>, NEW x \in EnvelopeItems
    PROVE  Port!Broken(x) \/ x \in WholeEnvelopes
<1>1. ASSUME NEW s \in SignatureItems PROVE <<s>> \in Seq(SignatureItems)
  BY <1>1
<1>2. <<>> \in Seq(SignatureItems)
  OBVIOUS
<1>3. {<<>>} \cup {<<s>> : s \in SignatureItems} \subseteq Seq(SignatureItems)
  BY <1>1, <1>2
<1>4. Heights \subseteq {Absent} \cup ({"int", "float", "half"} \X Int)
  BY DEF Heights
<1> DEFINE sigs == {<<>>} \cup {<<s>> : s \in SignatureItems}
<1> HIDE DEF sigs
<1>5. x \in {NoReceipt, NoIntegrity, NoSignatures} \cup
         [hash : {"right", "wrong", Absent}, sigs : sigs,
          height : Heights, prev : {Genesis, "h", Empty, Absent}, imprint : {"none", "match", "mismatch"}]
  BY DEF EnvelopeItems, sigs
<1>6. sigs \subseteq Seq(SignatureItems)
  BY <1>3 DEF sigs
<1> QED
  BY <1>4, <1>5, <1>6 DEF WholeEnvelopes, Port!Broken

LEMMA NextKeepsLadder == LadderInv /\ [Next]_vars => LadderInv'
<1> SUFFICES ASSUME LadderInv, [Next]_vars PROVE LadderInv'
  OBVIOUS
<1>1. EnvelopeInv'
  BY NextKeepsEnvelopes DEF LadderInv
<1>2. ASSUME topic' = "envelope", Len(input') = 1
      PROVE  Port!Broken(input'[1]) \/ input'[1] \in WholeEnvelopes
  <2>1. CASE UNCHANGED vars
    BY <1>2, <2>1 DEF vars, LadderInv
  <2>2. CASE Next
    <3>1. topic = "envelope" /\ Adds(EnvelopeItems, 2)
      BY <1>2, <2>2 DEF Next
    <3>2. PICK x \in EnvelopeItems : input' = Append(input, x) /\ Len(input) < 2
      BY <3>1 DEF Adds
    <3>3. CASE input = <<>>
      <4>1. input' = <<x>>
        BY <3>2, <3>3
      <4> QED
        BY <3>3, <4>1, FirstIsBrokenOrWhole
    <3>4. CASE input # <<>>
      <4>1. ASSUME NEW e, NEW pred PROVE input # <<e, pred>>
        BY <3>2
      <4>2. PICK e : input = <<e>>
        BY <3>1, <3>4, <4>1 DEF LadderInv, EnvelopeInv
      <4>3. input' = <<e, x>>
        BY <3>2, <4>2, AppendingToOne, Zenon
      <4>4. Len(<<e, x>>) = 2
        OBVIOUS
      <4> QED
        BY <1>2, <4>3, <4>4
    <3> QED
      BY <3>3, <3>4
  <2> QED
    BY <2>1, <2>2
<1> QED
  BY <1>1, <1>2 DEF LadderInv

(* In the run's envelopes it is: the theorem above, of what a behaviour    *)
(* grows.                                                                  *)
THEOREM ReportsLadderIsEarned == Spec => []LadderIsEarned
<1>1. Init => LadderInv
  BY DEF Init, LadderInv, EnvelopeInv
<1>2. LadderInv => LadderIsEarned
  <2> SUFFICES ASSUME LadderInv, topic = "envelope", Len(input) = 1,
                      NEW tokens \in {<<>>, <<"own">>, <<"der">>, <<"own", "other">>},
                      NEW opts \in LadderOptions, NEW s \in SignatureItems
               PROVE  LevelIsEarned(input[1], tokens, opts, s)
    BY DEF LadderIsEarned
  <2> DEFINE T == {"own", "der", "other"}
  <2>1. tokens \in Seq(T)
    <3>1. \A x, y \in T : <<>> \in Seq(T) /\ <<x>> \in Seq(T) /\ <<x, y>> \in Seq(T)
      OBVIOUS
    <3>2. "own" \in T /\ "der" \in T /\ "other" \in T
      OBVIOUS
    <3> HIDE DEF T
    <3> QED
      BY <3>1, <3>2
  <2> HIDE DEF T
  <2>2. WholeEnvelopes = Records({"right", "wrong", Absent}, SignatureItems,
                                 {Genesis, "h", Empty, Absent}, {"none", "match", "mismatch"})
    BY DEF WholeEnvelopes, Records, JsonHeight
  <2>3. \A x \in WholeEnvelopes : ~Port!Broken(x)
    BY ReportsAssumption DEF Port!Broken
  <2>4. Port!Broken(input[1]) \/ input[1] \in WholeEnvelopes
    BY DEF LadderInv
  <2> DEFINE hashes == {"right", "wrong", Absent}
             prevs == {Genesis, "h", Empty, Absent}
             imprints == {"none", "match", "mismatch"}
  <2>5. {"none", "match", "mismatch"} \subseteq imprints
    OBVIOUS
  <2> HIDE DEF hashes, prevs, imprints
  <2>6. WholeEnvelopes = Records(hashes, SignatureItems, prevs, imprints)
    BY <2>2 DEF hashes, prevs, imprints
  <2>7. \A x \in Records(hashes, SignatureItems, prevs, imprints) : ~Port!Broken(x)
    BY <2>3, <2>6
  <2>8. Port!Broken(input[1]) \/ input[1] \in Records(hashes, SignatureItems, prevs, imprints)
    BY <2>4, <2>6
  <2> QED
    BY <2>1, <2>5, <2>7, <2>8, LevelAlwaysEarned
<1> QED
  BY <1>1, <1>2, NextKeepsLadder, PTL DEF Spec
-----------------------------------------------------------------------------
(* Evidence packs.  What is proved of Merkle trees is of those of a pack.  *)
Trees == INSTANCE MerkleTreeProofs

LEMMA PacksHaveTrees ==
    /\ \A leaf, sides, path : Docs!Combined(leaf, sides, path) = Trees!Combined(leaf, sides, path)
    /\ \A leaves : Docs!BatchRoot(leaves) = Trees!BatchRoot(leaves)
    /\ \A leaves, i : Docs!BatchPath(leaves, i) = Trees!BatchPath(leaves, i)
    /\ \A p : Docs!BatchSides[p] = Trees!BatchSides[p]
<1>1. \A leaf, sides, path : Docs!Combined(leaf, sides, path) = Trees!Combined(leaf, sides, path)
  BY DEF Docs!Combined, Trees!Combined, Docs!hashNode, Trees!hashNode
<1>2. \A leaves : Docs!BatchLevels(leaves) = Trees!BatchLevels(leaves)
  BY DEF Docs!BatchLevels, Trees!BatchLevels, Docs!LevelAbove, Trees!LevelAbove,
         Docs!hashNode, Trees!hashNode
<1>3. \A leaves : Docs!BatchRoot(leaves) = Trees!BatchRoot(leaves)
  BY <1>2 DEF Docs!BatchRoot, Trees!BatchRoot, Docs!Last, Trees!Last
<1>4. \A leaves, i : Docs!BatchPath(leaves, i) = Trees!BatchPath(leaves, i)
  BY DEF Docs!BatchPath, Trees!BatchPath, Docs!BatchLevels, Trees!BatchLevels,
         Docs!LevelAbove, Trees!LevelAbove, Docs!hashNode, Trees!hashNode
<1>5. Docs!BatchSides = Trees!BatchSides
  BY DEF Docs!BatchSides, Trees!BatchSides
<1> QED
  BY <1>1, <1>3, <1>4, <1>5

(* Leaves are three things, nodes two and what is not a hash one.          *)
LEMMA LeavesAreNoNodes ==
    /\ ~Trees!IsNode(Docs!NotAHash)
    /\ \A r : ~Trees!IsNode(Docs!Leaf(r)) /\ Docs!Leaf(r) # Docs!NotAHash
    /\ \A r, q : Docs!Leaf(r) = Docs!Leaf(q) <=> r.id = q.id /\ r.body = q.body /\ r.sealed = q.sealed
<1>1. \A a, b : Len(<<a, b>>) = 2
  OBVIOUS
<1>2. Len(Docs!NotAHash) = 1 /\ \A r : Len(Docs!Leaf(r)) = 3
  BY DEF Docs!NotAHash, Docs!Leaf
<1>3. \A x : Trees!IsNode(x) => Len(x) = 2
  BY <1>1 DEF Trees!IsNode, Trees!hashNode
<1>4. \A r, q : Docs!Leaf(r) = Docs!Leaf(q) <=> r.id = q.id /\ r.body = q.body /\ r.sealed = q.sealed
  BY DEF Docs!Leaf
<1> QED
  BY <1>2, <1>3, <1>4

LEMMA LeavesOf ==
    ASSUME NEW R, NEW rs \in Seq(R)
    PROVE  /\ Len(Docs!Leaves(rs)) = Len(rs)
           /\ \A i \in 1 .. Len(rs) : Docs!Leaves(rs)[i] = Docs!Leaf(rs[i])
           /\ Docs!Leaves(rs) \in Seq({Docs!Leaf(rs[i]) : i \in 1 .. Len(rs)})
<1> DEFINE leaves == Docs!Leaves(rs)
           n == Len(rs)
           E == {Docs!Leaf(rs[i]) : i \in 1 .. n}
<1>1. n \in Nat /\ DOMAIN rs = 1 .. n
  OBVIOUS
<1>2. leaves = [i \in 1 .. n |-> Docs!Leaf(rs[i])]
  BY <1>1 DEF Docs!Leaves
<1> HIDE DEF leaves, n
<1>3. leaves \in [1 .. n -> E]
  BY <1>2
<1> HIDE DEF E
<1>4. leaves \in Seq(E) /\ Len(leaves) = n
  BY <1>1, <1>3
<1> QED
  BY <1>2, <1>4 DEF leaves, n, E

(* The greatest number of some up to n; the last receipt with an id.       *)
LEMMA GreatestOf ==
    ASSUME NEW n \in Nat, NEW S, S \subseteq 1 .. n, S # {}
    PROVE  \E x \in S : \A y \in S : x >= y
<1> DEFINE T == {n - x : x \in S}
<1>1. T \subseteq Nat /\ T # {}
  <2>1. \A x \in S : n - x \in Nat /\ n - x \in T
    OBVIOUS
  <2>2. PICK x : x \in S
    OBVIOUS
  <2> QED
    BY <2>1, <2>2
<1>2. PICK m \in T : \A k \in T : m <= k
  <2> HIDE DEF T
  <2>1. PICK a : a \in T
    BY <1>1
  <2>2. T \in SUBSET Nat
    BY <1>1
  <2> QED
    BY <2>1, <2>2, Trees!Least
<1>3. PICK x \in S : m = n - x
  BY <1>2
<1>4. ASSUME NEW y \in S PROVE x >= y
  <2>1. n - y \in T
    OBVIOUS
  <2>2. m <= n - y
    BY <1>2, <2>1
  <2>3. x \in Int /\ y \in Int
    OBVIOUS
  <2> HIDE DEF T
  <2> QED
    BY <1>3, <2>2, <2>3
<1> QED
  BY <1>3, <1>4

LEMMA LastIs ==
    ASSUME NEW R, NEW rs \in Seq(R), NEW j \in 1 .. Len(rs)
    PROVE  LET last == Docs!LastWith(rs, rs[j].id)
           IN  /\ last \in 1 .. Len(rs) /\ rs[last].id = rs[j].id
               /\ \A i \in 1 .. Len(rs) : rs[i].id = rs[j].id => i <= last
<1> DEFINE S == {i \in 1 .. Len(rs) : rs[i].id = rs[j].id}
           last == Docs!LastWith(rs, rs[j].id)
<1>1. Len(rs) \in Nat /\ DOMAIN rs = 1 .. Len(rs) /\ S \subseteq 1 .. Len(rs) /\ j \in S
  OBVIOUS
<1>2. last = Docs!Max(S)
  BY <1>1 DEF Docs!LastWith
<1> HIDE DEF S, last
<1>3. \E x \in S : \A y \in S : x >= y
  BY <1>1, GreatestOf
<1>4. last \in S /\ \A y \in S : last >= y
  BY <1>2, <1>3 DEF Docs!Max
<1> QED
  BY <1>1, <1>4 DEF S, last

(* What a pack holds: the root of its leaves, and for each id the proof of *)
(* the last receipt with it.                                               *)
LEMMA ProofIn ==
    ASSUME NEW R, NEW rs \in Seq(R), NEW meta, NEW trusted, NEW r \in Docs!ToSet(rs)
    PROVE  LET p == Docs!BuildEvidencePack(meta, rs, trusted)
               i == Docs!LastWith(rs, r.id) - 1
           IN  /\ p.merkle.root = Docs!BatchRoot(Docs!Leaves(rs))
               /\ r.id \in DOMAIN p.merkle.proofs
               /\ p.merkle.proofs[r.id].index = i
               /\ p.merkle.proofs[r.id].size = Len(rs)
               /\ p.merkle.proofs[r.id].path = Docs!BatchPath(Docs!Leaves(rs), i)
<1> DEFINE p == Docs!BuildEvidencePack(meta, rs, trusted)
           batch == Docs!BuildBatch(rs)
           root == Docs!BatchRoot(Docs!Leaves(rs))
           ids == {q.id : q \in Docs!ToSet(rs)}
           Of(id) == [index |-> Docs!LastWith(rs, id) - 1, size |-> Len(rs),
                      path |-> Docs!BatchPath(Docs!Leaves(rs), Docs!LastWith(rs, id) - 1)]
           proofs == [id \in ids |-> Of(id)]
<1>1. p.merkle = batch
  BY DEF Docs!BuildEvidencePack
<1>2. batch = [root |-> root, proofs |-> proofs]
  BY DEF Docs!BuildBatch
<1>3. r.id \in ids
  OBVIOUS
<1> HIDE DEF p, batch, root, ids
<1>4. proofs[r.id] = Of(r.id) /\ DOMAIN proofs = ids
  BY <1>3
<1>5. /\ Of(r.id).index = Docs!LastWith(rs, r.id) - 1 /\ Of(r.id).size = Len(rs)
      /\ Of(r.id).path = Docs!BatchPath(Docs!Leaves(rs), Docs!LastWith(rs, r.id) - 1)
  OBVIOUS
<1> HIDE DEF Of, proofs
<1>6. p.merkle.root = root /\ p.merkle.proofs = proofs
  BY <1>1, <1>2
<1> QED
  BY <1>3, <1>4, <1>5, <1>6 DEF p, root

(* A receipt is included in the pack exactly if it is, by its leaf, the    *)
(* last one with its id.                                                   *)
LEMMA IncludedIs ==
    ASSUME NEW R, NEW rs \in Seq(R), NEW meta, NEW trusted, NEW r \in Docs!ToSet(rs)
    PROVE  Docs!Included(Docs!BuildEvidencePack(meta, rs, trusted), r)
              <=> Docs!Leaf(r) = Docs!Leaf(rs[Docs!LastWith(rs, r.id)])
<1> DEFINE p == Docs!BuildEvidencePack(meta, rs, trusted)
           last == Docs!LastWith(rs, r.id)
           D == Docs!Leaves(rs)
           n == Len(rs)
           path == Docs!BatchPath(D, last - 1)
           sides == Docs!BatchSides[<<last - 1, n>>]
           root == Docs!BatchRoot(D)
           E == {Docs!Leaf(rs[i]) : i \in 1 .. n}
<1>1. PICK j \in 1 .. n : r = rs[j]
  BY DEF Docs!ToSet
<1>2. n \in Nat /\ last \in 1 .. n
  BY <1>1, LastIs
<1>3. /\ p.merkle.root = root /\ r.id \in DOMAIN p.merkle.proofs
      /\ p.merkle.proofs[r.id].index = last - 1
      /\ p.merkle.proofs[r.id].size = n
      /\ p.merkle.proofs[r.id].path = path
  BY ProofIn
<1> HIDE DEF p
<1>4. D \in Seq(E) /\ Len(D) = n /\ \A i \in 1 .. n : D[i] = Docs!Leaf(rs[i])
  BY LeavesOf
<1> HIDE DEF D, n, E, last
<1>5. last - 1 \in 0 .. (Len(D) - 1) /\ (last - 1) + 1 = last
  BY <1>2, <1>4
<1>6. /\ Len(Trees!BatchPath(D, last - 1)) = Len(Trees!BatchSides[<<last - 1, Len(D)>>])
      /\ \E V : /\ Trees!BatchPath(D, last - 1) \in Seq(V)
                /\ \A x \in V : Trees!IsNode(x) \/ \E i \in 1 .. Len(D) : x = D[i]
      /\ \A leaf : Trees!Combined(leaf, Trees!BatchSides[<<last - 1, Len(D)>>], Trees!BatchPath(D, last - 1))
                      = Trees!BatchRoot(D) <=> leaf = D[(last - 1) + 1]
  BY <1>4, <1>5, Trees!BatchPathIsExact
<1>7. /\ Len(path) = Len(sides)
      /\ \E V : /\ path \in Seq(V)
                /\ \A x \in V : Trees!IsNode(x) \/ \E i \in 1 .. Len(D) : x = D[i]
      /\ \A leaf : Docs!Combined(leaf, sides, path) = root <=> leaf = D[last]
  BY <1>4, <1>5, <1>6, PacksHaveTrees
<1>8. Docs!NotAHash \notin Docs!ToSet(path)
  <2> SUFFICES ASSUME NEW k \in DOMAIN path, path[k] = Docs!NotAHash PROVE FALSE
    BY DEF Docs!ToSet
  <2>1. PICK V : path \in Seq(V) /\ \A x \in V : Trees!IsNode(x) \/ \E i \in 1 .. Len(D) : x = D[i]
    BY <1>7
  <2> HIDE DEF path
  <2>2. path[k] \in V
    BY <2>1
  <2> QED
    BY <1>4, <2>1, <2>2, LeavesAreNoNodes
<1> HIDE DEF path, sides, root
<1>9. Docs!Included(p, r) <=> Docs!Combined(Docs!Leaf(r), sides, path) = root
  BY <1>3, <1>7, <1>8 DEF Docs!Included, sides
<1>10. D[last] = Docs!Leaf(rs[last])
  BY <1>2, <1>4
<1> QED
  BY <1>7, <1>9, <1>10 DEF p, last

LEMMA ValidIs ==
    ASSUME NEW p, NEW keys
    PROVE  Valid(p, keys) <=>
              /\ keys # {}
              /\ Docs!Core(p.meta, p.trusted, p.merkle, p.receipts) = p.hash
              /\ \A i \in DOMAIN p.receipts : /\ Docs!Included(p, p.receipts[i])
                                              /\ Docs!Verifies(p.receipts[i], keys)
<1> DEFINE lost     == {r.id : r \in {x \in Docs!ToSet(p.receipts) : ~Docs!Included(p, x)}}
           unsigned == {r.id : r \in {x \in Docs!ToSet(p.receipts) : ~Docs!Verifies(x, keys)}}
           valid    == Docs!VerifyPackIntegrity(p) /\ lost = {} /\ unsigned = {}
<1>1. Docs!VerifyEvidencePack(p, keys)
        = IF keys = {} THEN [valid |-> FALSE, failedInclusion |-> {}, failedSignature |-> {}]
          ELSE [valid |-> valid, failedInclusion |-> lost, failedSignature |-> unsigned]
  BY Zenon DEF Docs!VerifyEvidencePack
<1>2. /\ lost = {} <=> \A i \in DOMAIN p.receipts : Docs!Included(p, p.receipts[i])
      /\ unsigned = {} <=> \A i \in DOMAIN p.receipts : Docs!Verifies(p.receipts[i], keys)
  BY DEF Docs!ToSet
<1>3. valid <=> /\ Docs!Core(p.meta, p.trusted, p.merkle, p.receipts) = p.hash
                /\ \A i \in DOMAIN p.receipts : /\ Docs!Included(p, p.receipts[i])
                                                /\ Docs!Verifies(p.receipts[i], keys)
  BY <1>2 DEF Docs!VerifyPackIntegrity
<1> HIDE DEF lost, unsigned, valid
<1>4. CASE keys = {}
  BY <1>1, <1>4 DEF Valid
<1>5. CASE keys # {}
  <2>1. Docs!VerifyEvidencePack(p, keys).valid <=> valid
    BY <1>1, <1>5
  <2> QED
    BY <1>3, <1>5, <2>1 DEF Valid
<1> QED
  BY <1>4, <1>5

LEMMA PackParts ==
    ASSUME NEW meta, NEW rs, NEW trusted
    PROVE  LET p == Docs!BuildEvidencePack(meta, rs, trusted)
           IN  /\ p.meta = meta /\ p.trusted = trusted /\ p.receipts = rs
               /\ p.hash = Docs!Core(meta, trusted, p.merkle, rs)
               /\ p = [meta |-> meta, trusted |-> trusted, merkle |-> p.merkle, receipts |-> rs,
                       count |-> p.count, hash |-> p.hash]
<1> DEFINE p == Docs!BuildEvidencePack(meta, rs, trusted)
           batch == Docs!BuildBatch(rs)
           core == Docs!Core(meta, trusted, batch, rs)
           n == Len(rs)
<1>1. p = [meta |-> meta, trusted |-> trusted, merkle |-> batch, receipts |-> rs,
           count |-> n, hash |-> core]
  BY DEF Docs!BuildEvidencePack
<1>2. core = Docs!Core(meta, trusted, batch, rs)
  OBVIOUS
<1> HIDE DEF p, batch, n, core
<1>3. p.meta = meta /\ p.trusted = trusted /\ p.merkle = batch /\ p.receipts = rs /\ p.count = n /\ p.hash = core
  BY <1>1
<1>4. p = [meta |-> meta, trusted |-> trusted, merkle |-> p.merkle, receipts |-> rs,
           count |-> p.count, hash |-> p.hash]
  BY <1>1, <1>3
<1> QED
  BY <1>2, <1>3, <1>4 DEF p

(* A pack of any receipts verifies exactly when each of them does with the *)
(* caller's keys and no two share an id but not a leaf.                    *)
THEOREM PackAlwaysAsSigned ==
    ASSUME NEW R, NEW rs \in Seq(R), NEW meta, NEW trusted, NEW keys
    PROVE  BuiltAsSigned(Docs!BuildEvidencePack(meta, rs, trusted), rs, keys)
<1> DEFINE p == Docs!BuildEvidencePack(meta, rs, trusted)
           last(r) == Docs!LastWith(rs, r.id)
<1>1. /\ p.receipts = rs
      /\ Docs!Core(p.meta, p.trusted, p.merkle, p.receipts) = p.hash
  BY PackParts
<1>2. \A r \in Docs!ToSet(rs) : Docs!Included(p, r) <=> Docs!Leaf(r) = Docs!Leaf(rs[last(r)])
  BY IncludedIs
<1>3. ASSUME NEW i \in 1 .. Len(rs)
      PROVE  last(rs[i]) \in 1 .. Len(rs) /\ rs[last(rs[i])].id = rs[i].id
  BY LastIs
<1>4. DOMAIN rs = 1 .. Len(rs) /\ \A i \in DOMAIN rs : rs[i] \in Docs!ToSet(rs)
  BY DEF Docs!ToSet
<1>5. Valid(p, keys) <=>
         /\ keys # {}
         /\ Docs!Core(p.meta, p.trusted, p.merkle, p.receipts) = p.hash
         /\ \A i \in DOMAIN p.receipts : /\ Docs!Included(p, p.receipts[i])
                                         /\ Docs!Verifies(p.receipts[i], keys)
  BY ValidIs
<1> HIDE DEF p
<1>6. Valid(p, keys) <=>
         /\ keys # {}
         /\ \A i \in DOMAIN rs : Docs!Included(p, rs[i]) /\ Docs!Verifies(rs[i], keys)
  BY <1>1, <1>5
<1>7. (\A i \in DOMAIN rs : Docs!Included(p, rs[i]))
         <=> \A i, j \in DOMAIN rs : rs[i].id = rs[j].id => Docs!Leaf(rs[i]) = Docs!Leaf(rs[j])
  <2>1. ASSUME \A i \in DOMAIN rs : Docs!Included(p, rs[i]),
               NEW i \in DOMAIN rs, NEW j \in DOMAIN rs, rs[i].id = rs[j].id
        PROVE  Docs!Leaf(rs[i]) = Docs!Leaf(rs[j])
    <3>1. last(rs[i]) = last(rs[j])
      BY <2>1
    <3>2. Docs!Leaf(rs[i]) = Docs!Leaf(rs[last(rs[i])]) /\ Docs!Leaf(rs[j]) = Docs!Leaf(rs[last(rs[j])])
      BY <1>2, <1>4, <2>1
    <3> QED
      BY <3>1, <3>2
  <2>2. ASSUME \A i, j \in DOMAIN rs : rs[i].id = rs[j].id => Docs!Leaf(rs[i]) = Docs!Leaf(rs[j]),
               NEW i \in DOMAIN rs
        PROVE  Docs!Included(p, rs[i])
    <3>1. last(rs[i]) \in DOMAIN rs /\ rs[last(rs[i])].id = rs[i].id
      BY <1>3, <1>4
    <3> QED
      BY <1>2, <1>4, <2>2, <3>1
  <2> QED
    BY <2>1, <2>2
<1>8. BuiltAsSigned(p, rs, keys) <=>
         (Valid(p, keys) <=>
             /\ keys # {}
             /\ \A i \in DOMAIN rs : Docs!Verifies(rs[i], keys)
             /\ \A i, j \in DOMAIN rs : rs[i].id = rs[j].id => Docs!Leaf(rs[i]) = Docs!Leaf(rs[j]))
  BY DEF BuiltAsSigned, ToSet
<1>9. BuiltAsSigned(p, rs, keys)
  BY <1>6, <1>7, <1>8
<1> QED
  BY <1>9 DEF p

(* Whatever is altered beside the hash but for the count, shows.           *)
THEOREM PackAlterationShows ==
    ASSUME NEW rs, NEW meta, NEW trusted, NEW keys,
           NEW a, NEW b, NEW c, NEW d, NEW e
    PROVE  LET pack == Docs!BuildEvidencePack(meta, rs, trusted)
               p == [meta |-> a, trusted |-> b, merkle |-> c, receipts |-> d, count |-> e,
                     hash |-> pack.hash]
           IN  AlterationShows(pack, p, keys)
<1> DEFINE pack == Docs!BuildEvidencePack(meta, rs, trusted)
           hash == pack.hash
           count == pack.count
           merkle == pack.merkle
           p == [meta |-> a, trusted |-> b, merkle |-> c, receipts |-> d, count |-> e, hash |-> hash]
<1>1. /\ hash = Docs!Core(meta, trusted, merkle, rs)
      /\ pack = [meta |-> meta, trusted |-> trusted, merkle |-> merkle, receipts |-> rs,
                 count |-> count, hash |-> hash]
  BY PackParts
<1>2. pack.count = count /\ pack.hash = hash
  OBVIOUS
<1> HIDE DEF pack, hash, count, merkle
<1>3. p.meta = a /\ p.trusted = b /\ p.merkle = c /\ p.receipts = d /\ p.hash = hash
  OBVIOUS
<1>4. [p EXCEPT !.count = count] = [meta |-> a, trusted |-> b, merkle |-> c, receipts |-> d,
                                    count |-> count, hash |-> hash]
  OBVIOUS
<1> HIDE DEF p
<1>5. ASSUME Valid(p, keys) PROVE [p EXCEPT !.count = pack.count] = pack
  <2>1. Docs!Core(a, b, c, d) = Docs!Core(meta, trusted, merkle, rs)
    BY <1>1, <1>3, <1>5, ValidIs
  <2>2. a = meta /\ b = trusted /\ c = merkle /\ d = rs
    BY <2>1 DEF Docs!Core
  <2> QED
    BY <1>1, <1>2, <1>4, <2>2
<1>6. AlterationShows(pack, p, keys)
  BY <1>5 DEF AlterationShows
<1> QED
  BY <1>2, <1>6, Zenon DEF p, pack

(* A pack that is sealed anew over another's root verifies only with a     *)
(* leaf that is under it, and with this leaf's own path, whatever index    *)
(* and size its proof names.                                               *)
THEOREM PackForgeryShows ==
    ASSUME NEW R, NEW rs \in Seq(R), rs # <<>>, NEW meta, NEW trusted, NEW keys, NEW r, NEW proof,
           proof.index \in Nat, proof.size \in Nat, NEW T, proof.path \in Seq(T)
    PROVE  ForgeryShows(Docs!BuildEvidencePack(meta, rs, trusted), rs, r, proof, keys)
<1> DEFINE pack == Docs!BuildEvidencePack(meta, rs, trusted)
           p == Forged(pack, r, proof)
           proofs == [id \in {r.id} |-> proof]
           merkle == [root |-> pack.merkle.root, proofs |-> proofs]
           D == Docs!Leaves(rs)
           n == Len(rs)
           leaf == Docs!Leaf(r)
           path == proof.path
           at == <<proof.index, proof.size>>
           sides == Docs!BatchSides[at]
           E == {Docs!Leaf(rs[i]) : i \in 1 .. n}
<1>1. proofs[r.id] = proof /\ r.id \in DOMAIN proofs
  OBVIOUS
<1>2. p.receipts = <<r>> /\ p.merkle = merkle
  BY DEF Forged
<1>3. pack.merkle.root = Docs!BatchRoot(D)
  BY DEF Docs!BuildEvidencePack, Docs!BuildBatch
<1> HIDE DEF pack, proofs
<1>4. /\ p.merkle.root = Docs!BatchRoot(D) /\ r.id \in DOMAIN p.merkle.proofs
      /\ p.merkle.proofs[r.id] = proof
  BY <1>1, <1>2, <1>3
<1> HIDE DEF p, merkle
<1>5. SUFFICES ASSUME Valid(p, keys)
               PROVE  /\ Docs!Verifies(r, keys)
                      /\ \E i \in DOMAIN rs : /\ Docs!Leaf(rs[i]) = leaf
                                              /\ path = Docs!BatchPath(D, i - 1)
  BY DEF ForgeryShows, p, pack
<1>6. Docs!Included(p, r) /\ Docs!Verifies(r, keys)
  <2>1. \A i \in DOMAIN p.receipts : Docs!Included(p, p.receipts[i]) /\ Docs!Verifies(p.receipts[i], keys)
    BY <1>5, ValidIs
  <2>2. 1 \in DOMAIN p.receipts /\ p.receipts[1] = r
    BY <1>2
  <2> QED
    BY <2>1, <2>2
<1>7. Len(path) = Len(sides) /\ Docs!Combined(leaf, sides, path) = Docs!BatchRoot(D)
  BY <1>4, <1>6 DEF Docs!Included
<1>8. n \in Nat /\ n >= 1 /\ DOMAIN rs = 1 .. n
  OBVIOUS
<1>9. D \in Seq(E) /\ Len(D) = n /\ \A i \in 1 .. n : D[i] = Docs!Leaf(rs[i])
  BY LeavesOf
<1> HIDE DEF E, leaf, path, n, D
<1>10. ~Trees!IsNode(leaf) /\ \A j \in 1 .. Len(D) : ~Trees!IsNode(D[j])
  BY <1>9, LeavesAreNoNodes DEF leaf
<1>11. D # <<>>
  BY <1>9 DEF n
<1>12. Trees!OnlyOwnPaths(D, T)
  BY <1>9, <1>10, <1>11, Trees!BatchPathIsOwn
<1>13. at \in Trees!Pairs /\ path \in Seq(T)
  BY DEF Trees!Pairs, path
<1> HIDE DEF at
<1>14. /\ Len(path) = Len(Trees!BatchSides[at])
       /\ Trees!Combined(leaf, Trees!BatchSides[at], path) = Trees!BatchRoot(D)
  BY <1>7, PacksHaveTrees
<1>15. PICK i \in 0 .. (Len(D) - 1) : leaf = D[i + 1] /\ path = Docs!BatchPath(D, i)
  <2>1. \E i \in 0 .. (Len(D) - 1) : leaf = D[i + 1] /\ path = Trees!BatchPath(D, i)
    BY <1>10, <1>12, <1>13, <1>14 DEF Trees!OnlyOwnPaths
  <2> QED
    BY <2>1, PacksHaveTrees
<1>16. i + 1 \in DOMAIN rs /\ (i + 1) - 1 = i
  BY <1>8, <1>9
<1>17. Docs!Leaf(rs[i + 1]) = leaf /\ path = Docs!BatchPath(D, (i + 1) - 1)
  BY <1>8, <1>9, <1>15, <1>16
<1> QED
  BY <1>6, <1>16, <1>17

(* A behaviour grows a sequence of a pack's receipts.                      *)
PackInv == topic = "pack" => input \in Seq(PackItems)

LEMMA NextKeepsPacks == PackInv /\ [Next]_vars => PackInv'
<1> SUFFICES ASSUME PackInv, [Next]_vars, topic' = "pack" PROVE PackInv'
  BY DEF PackInv
<1>1. CASE UNCHANGED vars
  BY <1>1 DEF vars, PackInv
<1>2. CASE Next
  <2>1. topic = "pack" /\ Adds(PackItems, 3)
    BY <1>2 DEF Next
  <2>2. PICK x \in PackItems : input' = Append(input, x)
    BY <2>1 DEF Adds
  <2>3. input \in Seq(PackItems)
    BY <2>1 DEF PackInv
  <2> HIDE DEF PackItems
  <2>4. input' \in Seq(PackItems)
    BY <2>2, <2>3, Appended
  <2> QED
    BY <2>4 DEF PackInv
<1> QED
  BY <1>1, <1>2

(* An altered pack is a pack of other parts and the same hash.             *)
SealedAs(p, hash) ==
    \E a, b, c, d, e :
        p = [meta |-> a, trusted |-> b, merkle |-> c, receipts |-> d, count |-> e, hash |-> hash]

LEMMA AlteredIs ==
    ASSUME NEW rs, NEW meta, NEW trusted,
           NEW p \in Altered(Docs!BuildEvidencePack(meta, rs, trusted))
    PROVE  SealedAs(p, Docs!BuildEvidencePack(meta, rs, trusted).hash)
<1> DEFINE pack == Docs!BuildEvidencePack(meta, rs, trusted)
           hash == pack.hash
           count == pack.count
           merkle == pack.merkle
           P(a, b, c, d, e) == [meta |-> a, trusted |-> b, merkle |-> c, receipts |-> d, count |-> e,
                                hash |-> hash]
<1>1. pack = P(meta, trusted, merkle, rs, count)
  BY PackParts
<1>2. p \in Altered(pack)
  OBVIOUS
<1> HIDE DEF pack, hash, count, merkle
<1>3. pack.merkle = merkle /\ pack.receipts = rs
  BY <1>1
<1>4. /\ \A x : [pack EXCEPT !.meta = x] = P(x, trusted, merkle, rs, count)
      /\ \A x : [pack EXCEPT !.trusted = x] = P(meta, x, merkle, rs, count)
      /\ \A x : [pack EXCEPT !.merkle = x] = P(meta, trusted, x, rs, count)
      /\ \A x : [pack EXCEPT !.receipts = x] = P(meta, trusted, merkle, x, count)
      /\ \A x : [pack EXCEPT !.count = x] = P(meta, trusted, merkle, rs, x)
  BY <1>1
<1>5. /\ \A x : [pack EXCEPT !.merkle.root = x]
                  = [pack EXCEPT !.merkle = [merkle EXCEPT !.root = x]]
      /\ \A x : [pack EXCEPT !.receipts[1] = x]
                  = [pack EXCEPT !.receipts = [rs EXCEPT ![1] = x]]
  BY <1>3
<1> HIDE DEF P
<1>6. \/ \E x : p = [pack EXCEPT !.meta = x]
      \/ \E x : p = [pack EXCEPT !.trusted = x]
      \/ \E x : p = [pack EXCEPT !.count = x]
      \/ \E x : p = [pack EXCEPT !.receipts = x]
      \/ \E x : p = [pack EXCEPT !.merkle.root = x]
      \/ \E x : p = [pack EXCEPT !.receipts[1] = x]
  <2> DEFINE A == Altered(pack)
  <2>1. \A q \in A : \/ \E x : q = [pack EXCEPT !.meta = x]
                     \/ \E x : q = [pack EXCEPT !.trusted = x]
                     \/ \E x : q = [pack EXCEPT !.count = x]
                     \/ \E x : q = [pack EXCEPT !.receipts = x]
                     \/ \E x : q = [pack EXCEPT !.merkle.root = x]
                     \/ \E x : q = [pack EXCEPT !.receipts[1] = x]
    BY Zenon DEF Altered
  <2> QED
    BY <1>2, <2>1
<1>7. \E a, b, c, d, e : p = P(a, b, c, d, e)
  <2>1. CASE \E x : p = [pack EXCEPT !.meta = x]
    <3>1. PICK x : p = [pack EXCEPT !.meta = x]
      BY <2>1
    <3>2. p = P(x, trusted, merkle, rs, count)
      BY <1>4, <3>1
    <3> QED
      BY <3>2
  <2>2. CASE \E x : p = [pack EXCEPT !.trusted = x]
    <3>1. PICK x : p = [pack EXCEPT !.trusted = x]
      BY <2>2
    <3>2. p = P(meta, x, merkle, rs, count)
      BY <1>4, <3>1
    <3> QED
      BY <3>2
  <2>3. CASE \E x : p = [pack EXCEPT !.count = x]
    <3>1. PICK x : p = [pack EXCEPT !.count = x]
      BY <2>3
    <3>2. p = P(meta, trusted, merkle, rs, x)
      BY <1>4, <3>1
    <3> QED
      BY <3>2
  <2>4. CASE \E x : p = [pack EXCEPT !.receipts = x]
    <3>1. PICK x : p = [pack EXCEPT !.receipts = x]
      BY <2>4
    <3>2. p = P(meta, trusted, merkle, x, count)
      BY <1>4, <3>1
    <3> QED
      BY <3>2
  <2>5. CASE \E x : p = [pack EXCEPT !.merkle.root = x]
    <3>1. PICK x : p = [pack EXCEPT !.merkle = x]
      BY <1>5, <2>5
    <3>2. p = P(meta, trusted, x, rs, count)
      BY <1>4, <3>1
    <3> QED
      BY <3>2
  <2>6. CASE \E x : p = [pack EXCEPT !.receipts[1] = x]
    <3>1. PICK x : p = [pack EXCEPT !.receipts = x]
      BY <1>5, <2>6
    <3>2. p = P(meta, trusted, merkle, x, count)
      BY <1>4, <3>1
    <3> QED
      BY <3>2
  <2> QED
    BY <1>6, <2>1, <2>2, <2>3, <2>4, <2>5, <2>6
<1>8. SealedAs(p, hash)
  BY <1>7 DEF SealedAs, P
<1> QED
  BY <1>8 DEF hash, pack

(* Proofs over the nodes of a tree have an index, a size and a path.       *)
LEMMA OtherProofIs ==
    ASSUME NEW rs, NEW proof \in OtherProofs(rs)
    PROVE  proof.index \in Nat /\ proof.size \in Nat /\ \E T : proof.path \in Seq(T)
<1> DEFINE T == {Docs!NotAHash} \cup UNION {ToSet(level) : level \in ToSet(Docs!BatchLevels(Docs!Leaves(rs)))}
<1>1. OtherProofs(rs) = [index : 0 .. 3, size : 1 .. 3, path : BoundedSeq(T, 2)]
  BY DEF OtherProofs
<1> HIDE DEF T
<1>2. proof.index \in Nat /\ proof.size \in Nat /\ proof.path \in BoundedSeq(T, 2)
  BY <1>1
<1>3. PICK m \in 0 .. 2 : proof.path \in [1 .. m -> T]
  BY <1>2 DEF BoundedSeq, SeqOf
<1>4. proof.path \in Seq(T)
  BY <1>3
<1> QED
  BY <1>2, <1>4

(* In every state the pack of the receipts so far is exact.                *)
THEOREM ReportsPackIsExact == Spec => []PackIsExact
<1>1. Init => PackInv
  BY DEF Init, PackInv
<1>2. PackInv => PackIsExact
  <2> SUFFICES ASSUME PackInv, topic = "pack", input # <<>>, NEW keys
               PROVE  /\ BuiltAsSigned(Pack, input, keys)
                      /\ \A p \in Altered(Pack) : AlterationShows(Pack, p, keys)
                      /\ \A r \in PackItems, proof \in OtherProofs(input) :
                            ForgeryShows(Pack, input, r, proof, keys)
    BY DEF PackIsExact
  <2>1. input \in Seq(PackItems)
    BY DEF PackInv
  <2> HIDE DEF PackItems
  <2>2. BuiltAsSigned(Pack, input, keys)
    BY <2>1, PackAlwaysAsSigned DEF Pack
  <2>3. ASSUME NEW p \in Altered(Pack) PROVE AlterationShows(Pack, p, keys)
    <3> DEFINE meta == "meta"
               trusted == {"ours"}
    <3> HIDE DEF meta, trusted
    <3>1. Pack = Docs!BuildEvidencePack(meta, input, trusted)
      BY DEF Pack, meta, trusted
    <3> DEFINE pack == Docs!BuildEvidencePack(meta, input, trusted)
               hash == pack.hash
    <3>4. SealedAs(p, hash)
      BY <2>3, <3>1, AlteredIs
    <3>2. PICK a, b, c, d, e : p = [meta |-> a, trusted |-> b, merkle |-> c, receipts |-> d, count |-> e,
                                    hash |-> hash]
      BY <3>4, Zenon DEF SealedAs
    <3> DEFINE q == [meta |-> a, trusted |-> b, merkle |-> c, receipts |-> d, count |-> e, hash |-> hash]
    <3>3. AlterationShows(pack, q, keys)
      BY PackAlterationShows
    <3> QED
      BY <3>1, <3>2, <3>3
  <2>4. ASSUME NEW r \in PackItems, NEW proof \in OtherProofs(input)
        PROVE  ForgeryShows(Pack, input, r, proof, keys)
    BY <2>1, OtherProofIs, PackForgeryShows, Zenon DEF Pack
  <2> QED
    BY <2>2, <2>3, <2>4
<1> QED
  BY <1>1, <1>2, NextKeepsPacks, PTL DEF Spec

(* In every state, what is put before an auditor is what was verified.     *)
THEOREM ReportsEvidenceIsExact == Spec => []EvidenceIsExact
<1>1. Spec => []RulesAreDecided
  BY ReportsRulesAreDecided, PTL
<1> QED
  BY <1>1, ReportsPackIsExact, ReportsLadderIsEarned, PTL DEF EvidenceIsExact
-----------------------------------------------------------------------------
(* The budget's gate.  Spending, call by call.                             *)
LEMMA SpendingTable ==
    ASSUME NEW limits, NEW calls, Len(calls) \in Nat
    PROVE  \E k : /\ SpentBy(limits, calls) = k[Len(calls)] /\ k[0] = 0
                  /\ \A i \in 1 .. Len(calls) :
                        k[i] = IF Decide(limits, k[i - 1], calls[i]) = "deny" THEN k[i - 1]
                               ELSE k[i - 1] + calls[i]
<1> DEFINE n == Len(calls)
           Is(k) == k = [i \in 0 .. n |-> IF i = 0 THEN 0
                                          ELSE IF Decide(limits, k[i - 1], calls[i]) = "deny" THEN k[i - 1]
                                          ELSE k[i - 1] + calls[i]]
<1>1. PICK f : Iterates("spent", limits, calls, 0, n, f)
  BY Iteration
<1>2. Is(f)
  BY <1>1 DEF Iterates, StepOf
<1> DEFINE k == CHOOSE f_1 : Is(f_1)
<1>3. Is(k)
  BY <1>2
<1>4. SpentBy(limits, calls) = k[n]
  BY DEF SpentBy
<1> HIDE DEF k
<1>5. k[0] = 0 /\ \A i \in 1 .. n : k[i] = IF Decide(limits, k[i - 1], calls[i]) = "deny" THEN k[i - 1]
                                           ELSE k[i - 1] + calls[i]
  <2>1. 0 \in 0 .. n /\ \A i \in 1 .. n : i \in 0 .. n /\ i # 0
    OBVIOUS
  <2> HIDE DEF n
  <2> QED
    BY <1>3, <2>1
<1> QED
  BY <1>4, <1>5

(* Less than a share of the budget is less than the budget.                *)
LEMMA ShareOfBudget ==
    ASSUME NEW deny \in Nat, deny <= 100, NEW monthly \in Nat, NEW spent \in Nat,
           spent * 100 < deny * monthly
    PROVE  spent < monthly
<1>1. (100 - deny) \in Nat /\ (100 - deny) * monthly \in Nat
  OBVIOUS
<1>2. (100 - deny) * monthly = 100 * monthly - deny * monthly
  OBVIOUS
<1>3. deny * monthly \in Int
  OBVIOUS
<1> QED
  BY <1>1, <1>2, <1>3

(* Whatever the limits, up to the whole budget, and whatever the calls.    *)
THEOREM BudgetAlwaysHolds ==
    ASSUME NEW limits, limits.monthly \in Nat, limits.deny \in 0 .. 100, NEW calls \in Seq(Nat)
    PROVE  BudgetHolds(limits, calls)
<1> DEFINE monthly == limits.monthly
           deny == limits.deny
           n == Len(calls)
           Held(x) == x \in Nat /\ (x > 0 => x * 100 < deny * monthly)
<1>1. n \in Nat /\ \A i \in 1 .. n : calls[i] \in Nat
  OBVIOUS
<1>2. PICK k : /\ SpentBy(limits, calls) = k[n] /\ k[0] = 0
               /\ \A i \in 1 .. n : k[i] = IF Decide(limits, k[i - 1], calls[i]) = "deny" THEN k[i - 1]
                                           ELSE k[i - 1] + calls[i]
  BY <1>1, SpendingTable
<1>9. monthly \in Nat /\ deny \in Nat /\ deny <= 100
  <2>1. monthly \in Nat /\ deny \in 0 .. 100
    OBVIOUS
  <2> HIDE DEF monthly, deny
  <2> QED
    BY <2>1
<1>3. ASSUME NEW x \in Nat, NEW c \in Nat, Decide(limits, x, c) # "deny"
      PROVE  monthly > 0 /\ (x + c) * 100 < deny * monthly
  <2>1. ~(IF monthly = 0 THEN 100 >= deny ELSE (x + c) * 100 >= deny * monthly)
    BY <1>3 DEF Decide
  <2> HIDE DEF monthly, deny
  <2> DEFINE share == deny * monthly
             total == (x + c) * 100
  <2>2. share \in Int /\ total \in Int
    BY <1>9
  <2>3. ~(IF monthly = 0 THEN 100 >= deny ELSE total >= share)
    BY <2>1
  <2> HIDE DEF share, total
  <2>4. monthly > 0 /\ total < share
    BY <1>9, <2>2, <2>3
  <2> QED
    BY <2>4 DEF share, total
<1> DEFINE S == {i \in Nat : i <= n => Held(k[i])}
<1>4. 0 \in S
  BY <1>2
<1>5. ASSUME NEW i \in S PROVE i + 1 \in S
  <2> SUFFICES ASSUME i + 1 <= n PROVE Held(k[i + 1])
    OBVIOUS
  <2>1. i \in Nat /\ i + 1 \in 1 .. n /\ (i + 1) - 1 = i /\ Held(k[i])
    BY <1>1
  <2>2. k[i + 1] = IF Decide(limits, k[i], calls[i + 1]) = "deny" THEN k[i] ELSE k[i] + calls[i + 1]
    BY <1>2, <2>1
  <2>3. k[i] \in Nat /\ calls[i + 1] \in Nat
    BY <1>1, <2>1
  <2> QED
    BY <1>3, <2>1, <2>2, <2>3
<1>6. S = Nat
  <2>1. S \in SUBSET Nat
    OBVIOUS
  <2> HIDE DEF S
  <2> QED
    BY <1>4, <1>5, <2>1, AllNaturals
<1> DEFINE spent == SpentBy(limits, calls)
<1>7. Held(spent)
  BY <1>1, <1>2, <1>6
<1> HIDE DEF spent
<1>8. ASSUME monthly > 0 PROVE RemainingBudget(limits, spent, 0) > 0
  <2>1. spent < monthly
    <3> HIDE DEF monthly, deny
    <3>1. CASE spent = 0
      BY <1>8, <1>9, <3>1
    <3>2. CASE spent # 0
      <4>1. spent \in Nat /\ spent * 100 < deny * monthly
        BY <1>7, <3>2
      <4> QED
        BY <1>9, <4>1, ShareOfBudget
    <3> QED
      BY <3>1, <3>2
  <2> QED
    BY <1>7, <2>1 DEF RemainingBudget
<1> QED
  BY <1>7, <1>8 DEF BudgetHolds, spent

(* A behaviour grows a sequence of calls, by their cost.                   *)
BudgetInv == topic = "budget" => input \in Seq(Nat)

LEMMA NextKeepsBudgets == BudgetInv /\ [Next]_vars => BudgetInv'
<1> SUFFICES ASSUME BudgetInv, [Next]_vars, topic' = "budget" PROVE BudgetInv'
  BY DEF BudgetInv
<1>1. CASE UNCHANGED vars
  BY <1>1 DEF vars, BudgetInv
<1>2. CASE Next
  <2>1. topic = "budget" /\ Adds(0 .. 3, 4)
    BY <1>2 DEF Next
  <2>2. PICK x \in 0 .. 3 : input' = Append(input, x)
    BY <2>1 DEF Adds
  <2>3. x \in Nat /\ input \in Seq(Nat)
    BY <2>1 DEF BudgetInv
  <2>4. input' \in Seq(Nat)
    BY <2>2, <2>3, Appended
  <2> QED
    BY <2>4 DEF BudgetInv
<1> QED
  BY <1>1, <1>2

(* In every state the calls so far keep the budget.                        *)
THEOREM ReportsGateKeepsBudget == Spec => []GateKeepsBudget
<1>1. Init => BudgetInv
  BY DEF Init, BudgetInv
<1>2. BudgetInv => GateKeepsBudget
  <2> SUFFICES ASSUME BudgetInv, topic = "budget",
                      NEW limits \in [monthly : {0, 4, 5}, warn : {50}, throttle : {80}, deny : {60, 100}]
               PROVE  BudgetHolds(limits, input)
    BY DEF GateKeepsBudget
  <2>1. limits.monthly \in Nat /\ limits.deny \in 0 .. 100
    OBVIOUS
  <2> QED
    BY <2>1, BudgetAlwaysHolds DEF BudgetInv
<1> QED
  BY <1>1, <1>2, NextKeepsBudgets, PTL DEF Spec
-----------------------------------------------------------------------------
(* Savings.  A sum over a finite set, as its partial sums.                 *)
SumOn(f, S) == Sav!FoldFunctionOnSet(+, 0, f, S)

Chosen(s) == CHOOSE x \in s : TRUE

PartialSums(f, S, g) ==
    /\ SumOn(f, S) = g[S]
    /\ \A s \in SUBSET S : g[s] = IF s = {} THEN 0 ELSE f[Chosen(s)] + g[s \ {Chosen(s)}]

LEMMA SumTable ==
    ASSUME NEW f, NEW S, IsFiniteSet(S)
    PROVE  \E g : PartialSums(f, S, g)
<1> DEFINE rank == [s \in SUBSET S |-> Cardinality(s)]
           Is(g) == g = [s \in SUBSET S |-> IF s = {} THEN 0 ELSE LET x == CHOOSE x \in s : TRUE
                                                                  IN  f[x] + g[s \ {x}]]
<1>1. \A s \in SUBSET S : IsFiniteSet(s) /\ Cardinality(s) \in Nat
  BY FS_Subset, FS_CardinalityType
<1>2. ASSUME NEW s \in SUBSET S, s # {}
      PROVE  s \ {Chosen(s)} \in SUBSET S /\ rank[s \ {Chosen(s)}] < rank[s]
  <2>1. Chosen(s) \in s
    BY <1>2 DEF Chosen
  <2>2. Cardinality(s \ {Chosen(s)}) = Cardinality(s) - 1
    BY <1>1, <2>1, FS_RemoveElement
  <2> QED
    BY <1>1, <2>2
<1>3. Trees!Ranked("sum", f, 0, 0, SUBSET S, rank)
  <2>1. rank \in [SUBSET S -> Nat]
    BY <1>1
  <2> HIDE DEF rank
  <2>2. ASSUME NEW s \in SUBSET S, NEW g, NEW h,
               \A q \in SUBSET S : rank[q] < rank[s] => g[q] = h[q]
        PROVE  Trees!Equal("sum", f, 0, 0, g, h, s)
    <3>1. s # {} => g[s \ {Chosen(s)}] = h[s \ {Chosen(s)}]
      BY <1>2, <2>2
    <3> QED
      BY <3>1 DEF Trees!Equal, Trees!Turn, Chosen
  <2> QED
    BY <2>1, <2>2 DEF Trees!Ranked
<1>4. PICK g_1 : Trees!Solves("sum", f, 0, 0, SUBSET S, g_1)
  BY <1>3, Trees!Recursion
<1>5. Is(g_1)
  BY <1>4 DEF Trees!Solves, Trees!Turn
<1> DEFINE g == CHOOSE g_2 : Is(g_2)
<1>6. Is(g)
  BY <1>5
<1>7. SumOn(f, S) = g[S]
  BY DEF SumOn, Sav!FoldFunctionOnSet, Sav!MapThenFoldSet
<1> HIDE DEF g
<1>8. \A s \in SUBSET S : g[s] = IF s = {} THEN 0 ELSE f[Chosen(s)] + g[s \ {Chosen(s)}]
  BY <1>6 DEF Chosen
<1> QED
  BY <1>7, <1>8 DEF PartialSums

(* Of naturals it is one, and where no part is more, neither is the sum.   *)
LEMMA SumsInOrder ==
    ASSUME NEW f, NEW h, NEW S, IsFiniteSet(S),
           \A x \in S : f[x] \in Nat /\ h[x] \in Nat /\ f[x] <= h[x]
    PROVE  SumOn(f, S) \in Nat /\ SumOn(h, S) \in Nat /\ SumOn(f, S) <= SumOn(h, S)
<1>1. PICK a : PartialSums(f, S, a)
  BY SumTable, Zenon
<1>2. PICK b : PartialSums(h, S, b)
  BY SumTable, Zenon
<1> DEFINE Fine(s) == a[s] \in Nat /\ b[s] \in Nat /\ a[s] <= b[s]
           N == {n \in Nat : \A s \in SUBSET S : Cardinality(s) = n => Fine(s)}
<1>3. \A s \in SUBSET S : IsFiniteSet(s) /\ Cardinality(s) \in Nat
  BY FS_Subset, FS_CardinalityType
<1>4. 0 \in N
  <2>1. \A s \in SUBSET S : Cardinality(s) = 0 => s = {}
    BY <1>3, FS_EmptySet
  <2>2. Fine({})
    <3>1. {} \in SUBSET S
      OBVIOUS
    <3>2. a[{}] = 0 /\ b[{}] = 0
      BY <1>1, <1>2, <3>1 DEF PartialSums
    <3> QED
      BY <3>2
  <2> HIDE DEF Fine
  <2> QED
    BY <2>1, <2>2
<1>5. ASSUME NEW n \in N PROVE n + 1 \in N
  <2> SUFFICES ASSUME NEW s \in SUBSET S, Cardinality(s) = n + 1 PROVE Fine(s)
    OBVIOUS
  <2>1. n \in Nat /\ \A t \in SUBSET S : Cardinality(t) = n => Fine(t)
    OBVIOUS
  <2>2. s # {}
    <3>1. Cardinality({}) = 0
      BY FS_EmptySet
    <3> QED
      BY <2>1, <3>1
  <2> DEFINE x == Chosen(s)
             t == s \ {x}
  <2>3. x \in s
    BY <2>2 DEF Chosen
  <2>4. Cardinality(t) = n
    <3>1. IsFiniteSet(s)
      BY <1>3
    <3>2. Cardinality(t) = Cardinality(s) - 1
      BY <2>3, <3>1, FS_RemoveElement
    <3> QED
      BY <2>1, <3>2
  <2>5. Fine(t) /\ t \in SUBSET S
    BY <2>1, <2>4
  <2>6. a[s] = f[x] + a[t] /\ b[s] = h[x] + b[t]
    BY <1>1, <1>2, <2>2 DEF PartialSums
  <2>7. f[x] \in Nat /\ h[x] \in Nat /\ f[x] <= h[x]
    BY <2>3
  <2> HIDE DEF x, t
  <2> QED
    BY <2>5, <2>6, <2>7
<1>6. N \in SUBSET Nat
  OBVIOUS
<1> HIDE DEF N
<1>7. N = Nat
  BY <1>4, <1>5, <1>6, AllNaturals
<1>8. Fine(S)
  BY <1>3, <1>7 DEF N
<1> QED
  BY <1>1, <1>2, <1>8 DEF PartialSums

(* Products keep the order.                                                *)
LEMMA TimesKeepsOrder ==
    ASSUME NEW x \in Nat, NEW y \in Nat, NEW z \in Nat, x <= y
    PROVE  x * z <= y * z /\ x * z \in Nat
<1> DEFINE d == y - x
<1>1. d \in Nat /\ y = x + d
  OBVIOUS
<1> HIDE DEF d
<1>2. d * z \in Nat /\ x * z \in Nat
  BY <1>1
<1>3. (x + d) * z = x * z + d * z
  BY <1>1
<1> QED
  BY <1>1, <1>2, <1>3

(* A share of a cost, by weight, is none of it up to all of it.            *)
LEMMA ShareWithin ==
    ASSUME NEW cost \in Nat, NEW w \in Nat, NEW all \in Nat, w <= all, all > 0
    PROVE  (cost * w) \div all \in Nat /\ (cost * w) \div all <= cost
<1> DEFINE total == cost * w
           q == total \div all
<1>1. total \in Nat /\ total <= cost * all
  <2>1. w * cost <= all * cost /\ w * cost \in Nat
    BY TimesKeepsOrder
  <2>2. w * cost = cost * w /\ all * cost = cost * all
    OBVIOUS
  <2> QED
    BY <2>1, <2>2
<1> HIDE DEF total
<1>2. q \in Nat /\ all * q <= total
  BY <1>1
<1> HIDE DEF q
<1>3. ASSUME q > cost PROVE FALSE
  <2>1. cost + 1 <= q /\ cost + 1 \in Nat
    BY <1>2, <1>3
  <2>2. (cost + 1) * all <= q * all
    BY <1>2, <2>1, TimesKeepsOrder
  <2>3. (cost + 1) * all = cost * all + all /\ q * all = all * q
    BY <1>2
  <2>4. cost * all \in Nat /\ all * q \in Nat
    BY <1>2
  <2> DEFINE ca == cost * all
             aq == all * q
  <2>5. ca + all <= aq /\ aq <= total /\ total <= ca /\ ca \in Nat /\ aq \in Nat
    BY <1>1, <1>2, <2>2, <2>3, <2>4
  <2> HIDE DEF ca, aq
  <2> QED
    BY <1>1, <2>5
<1>4. q <= cost
  BY <1>2, <1>3
<1> QED
  BY <1>2, <1>4 DEF q, total

(* Rounding is to within half a unit, keeps the order, and makes nothing   *)
(* positive that was not.                                                  *)
LEMMA RoundIsNear ==
    ASSUME NEW a \in Nat, NEW q \in Nat, q > 0
    PROVE  LET p == Sav!Round(a, q) * q
           IN  p \in Nat /\ 2 * p <= 2 * a + q /\ 2 * a < 2 * p + q
<1> DEFINE n == 2 * a + q
           d == 2 * q
           r == n \div d
           p == r * q
<1>1. n \in Nat /\ d \in Nat /\ d > 0
  OBVIOUS
<1>2. Sav!Round(a, q) = r
  BY DEF Sav!Round
<1> HIDE DEF n, d
<1>3. r \in Nat /\ d * r <= n /\ n < d * r + d
  BY <1>1
<1> HIDE DEF r
<1>4. p \in Nat /\ d * r = 2 * p
  BY <1>3 DEF d
<1> HIDE DEF p
<1>5. p \in Nat /\ 2 * p <= 2 * a + q /\ 2 * a < 2 * p + q
  BY <1>3, <1>4 DEF n, d
<1> QED
  BY <1>2, <1>5 DEF p

LEMMA RoundKeepsOrder ==
    ASSUME NEW a \in Nat, NEW b \in Nat, NEW q \in Nat, q > 0, a <= b
    PROVE  Sav!Round(a, q) * q <= Sav!Round(b, q) * q
<1> DEFINE r == Sav!Round(a, q)
           s == Sav!Round(b, q)
           x == r * q
           y == s * q
<1>1. r \in Int /\ s \in Int
  <2> DEFINE d == 2 * q
  <2>1. d \in Nat /\ d > 0
    OBVIOUS
  <2>2. r = (2 * a + q) \div d /\ s = (2 * b + q) \div d
    BY DEF Sav!Round
  <2> HIDE DEF d
  <2> QED
    BY <2>1, <2>2
<1>2. x \in Nat /\ y \in Nat /\ 2 * x <= 2 * a + q /\ 2 * b < 2 * y + q
  BY RoundIsNear
<1> HIDE DEF r, s
<1>3. ASSUME s < r PROVE FALSE
  <2>1. r = (s + 1) + (r - (s + 1)) /\ r - (s + 1) \in Nat
    BY <1>1, <1>3
  <2> DEFINE k == r - (s + 1)
  <2>2. r = (s + 1) + k /\ k \in Nat
    BY <2>1
  <2> HIDE DEF k
  <2>3. r * q = s * q + q + k * q /\ k * q \in Nat
    BY <1>1, <2>2
  <2> DEFINE kq == k * q
  <2>4. x = y + q + kq /\ kq \in Nat
    BY <2>3
  <2> HIDE DEF kq, x, y
  <2> QED
    BY <1>2, <2>4
<1>4. r <= s
  BY <1>1, <1>3
<1>5. x <= y
  <2> DEFINE k == s - r
  <2>1. s = r + k /\ k \in Nat
    BY <1>1, <1>4
  <2> HIDE DEF k
  <2>2. s * q = r * q + k * q /\ k * q \in Nat
    BY <1>1, <2>1
  <2> DEFINE kq == k * q
  <2>3. y = x + kq /\ kq \in Nat
    BY <2>2
  <2> HIDE DEF kq, x, y
  <2> QED
    BY <1>2, <2>3
<1> QED
  BY <1>5 DEF r, s

LEMMA RoundedIsPositive ==
    ASSUME NEW n \in Int, NEW q \in Nat, q > 0, Sav!Round(n, q) > 0
    PROVE  n > 0
<1> DEFINE d == 2 * q
           r == (2 * n + q) \div d
<1>1. d \in Nat /\ d > 0
  OBVIOUS
<1>2. r > 0
  BY DEF Sav!Round
<1> HIDE DEF d
<1>3. r \in Int /\ d * r <= 2 * n + q
  BY <1>1
<1> HIDE DEF r
<1>4. 1 * d <= r * d
  BY <1>1, <1>2, <1>3, TimesKeepsOrder
<1>5. d <= d * r
  BY <1>1, <1>3, <1>4
<1> DEFINE dr == d * r
<1>6. dr \in Int /\ d <= dr /\ dr <= 2 * n + q
  BY <1>1, <1>3, <1>5
<1> HIDE DEF dr
<1> QED
  BY <1>6 DEF d

(* A dashboard: natural figures of finitely many models, and their total.  *)
Dashboard(s) ==
    /\ IsFiniteSet(DOMAIN s.models) /\ AddsUp(s)
    /\ \A m \in DOMAIN s.models : /\ s.models[m].stat.in \in Nat /\ s.models[m].stat.out \in Nat
                                  /\ s.models[m].stat.cost \in Nat

(* A period whose classes of tokens bear its cost.                         *)
PeriodHolds(p) ==
    /\ p.in \in Nat /\ p.out \in Nat /\ p.inCost \in Nat /\ p.outCost \in Nat
    /\ p.cost = p.inCost + p.outCost /\ p.v1 = FALSE

LEMMA SplitIsShare ==
    ASSUME NEW models, NEW m \in DOMAIN models, Sav!Priced(m), models[m].stat.in \in Nat,
           models[m].stat.out \in Nat, models[m].stat.cost \in Nat
    PROVE  Sav!SplitCost(models, m) \in Nat /\ Sav!SplitCost(models, m) <= models[m].stat.cost
<1> DEFINE cost == models[m].stat.cost
           wIn == models[m].stat.in * Price[m].in
           wOut == models[m].stat.out * Price[m].out
<1>1. wIn \in Nat /\ wOut \in Nat /\ cost \in Nat
  <2>1. Price[m].in \in Nat /\ Price[m].out \in Nat
    BY ReportsAssumption DEF CostAssumption, Sav!Priced
  <2> DEFINE a == Price[m].in
             b == Price[m].out
             x == models[m].stat.in
             y == models[m].stat.out
  <2>2. a \in Nat /\ b \in Nat /\ x \in Nat /\ y \in Nat
    BY <2>1
  <2> HIDE DEF a, b, x, y
  <2>3. x * a \in Nat /\ y * b \in Nat
    BY <2>2
  <2> QED
    BY <2>3 DEF a, b, x, y
<1>2. Sav!SplitCost(models, m) = IF wIn + wOut = 0 THEN 0 ELSE (cost * wIn) \div (wIn + wOut)
  BY DEF Sav!SplitCost
<1> HIDE DEF cost, wIn, wOut
<1>3. Sav!SplitCost(models, m) \in Nat /\ Sav!SplitCost(models, m) <= cost
  <2>1. CASE wIn + wOut = 0
    BY <1>1, <1>2, <2>1
  <2>2. CASE wIn + wOut # 0
    <3> DEFINE all == wIn + wOut
    <3>1. all \in Nat /\ wIn <= all /\ all > 0
      BY <1>1, <2>2
    <3> HIDE DEF all
    <3>2. (cost * wIn) \div all \in Nat /\ (cost * wIn) \div all <= cost
      BY <1>1, <3>1, ShareWithin
    <3> QED
      BY <1>2, <2>2, <3>2 DEF all
  <2> QED
    BY <2>1, <2>2
<1> QED
  BY <1>3 DEF cost

LEMMA QuantumIsNat == Quantum \in Nat /\ Quantum > 0
BY ReportsAssumption

(* The class costs of a dashboard, and how far the stored ones are off.    *)
RoundingHolds(s, p) ==
    LET in == Sav!InputCost(s)
    IN  /\ in \in Nat /\ s.cost \in Nat /\ in <= s.cost
        /\ 2 * p.inCost <= 2 * in + Quantum
        /\ 2 * p.outCost <= 2 * (s.cost - in) + 2 * Quantum
        /\ 2 * s.cost <= 2 * p.cost + Quantum

LEMMA DashboardsHold ==
    ASSUME NEW s, Dashboard(s)
    PROVE  PeriodHolds(Sav!ToPeriodSummary(s)) /\ RoundingHolds(s, Sav!ToPeriodSummary(s))
<1> DEFINE p == Sav!ToPeriodSummary(s)
           D == DOMAIN s.models
           P == {m \in D : Sav!Priced(m)}
           in == [m \in D |-> s.models[m].stat.in]
           out == [m \in D |-> s.models[m].stat.out]
           cost == [m \in D |-> s.models[m].stat.cost]
           split == [m \in D |-> Sav!SplitCost(s.models, m)]
           i == Sav!InputCost(s)
           t == s.cost
           si == Sav!Stored(i)
           st == Sav!Stored(t)
<1>1. /\ p.in = SumOn(in, P) /\ p.out = SumOn(out, P)
      /\ p.inCost = si /\ p.outCost = st - si /\ p.cost = st /\ p.v1 = FALSE
  BY DEF Sav!ToPeriodSummary, Sav!SumModels, SumOn, Sav!FoldFunctionOnSet, Sav!MapThenFoldSet
<1>2. /\ t = SumOn(cost, P)
      /\ i = SumOn(split, P)
  BY DEF Dashboard, AddsUp, Sav!InputCost, Sav!SumModels, SumOn, Sav!FoldFunctionOnSet, Sav!MapThenFoldSet
<1>3. IsFiniteSet(P)
  BY FS_Subset DEF Dashboard
<1>4. \A m \in P : /\ in[m] \in Nat /\ out[m] \in Nat /\ cost[m] \in Nat
                   /\ split[m] \in Nat /\ split[m] <= cost[m]
  BY SplitIsShare DEF Dashboard
<1> HIDE DEF p, P, in, out, cost, split, i, t
<1>5. SumOn(in, P) \in Nat /\ SumOn(out, P) \in Nat
  <2>1. (\A m \in P : in[m] <= in[m]) /\ \A m \in P : out[m] <= out[m]
    BY <1>4
  <2> QED
    BY <1>3, <1>4, <2>1, SumsInOrder
<1>6. i \in Nat /\ t \in Nat /\ i <= t
  BY <1>2, <1>3, <1>4, SumsInOrder
<1>7. /\ si \in Nat /\ 2 * si <= 2 * i + Quantum /\ 2 * i < 2 * si + Quantum
      /\ st \in Nat /\ 2 * st <= 2 * t + Quantum /\ 2 * t < 2 * st + Quantum
      /\ si <= st
  BY <1>6, QuantumIsNat, RoundIsNear, RoundKeepsOrder DEF Sav!Stored
<1> HIDE DEF si, st
<1>8. PeriodHolds(p)
  BY <1>1, <1>5, <1>7 DEF PeriodHolds
<1>9. RoundingHolds(s, p)
  BY <1>1, <1>6, <1>7, QuantumIsNat DEF RoundingHolds, i, t
<1> QED
  BY <1>8, <1>9 DEF p

(* At the baseline's rate, a class whose tokens cost no less now costs no  *)
(* more than it did.                                                       *)
LEMMA RateBound ==
    ASSUME NEW bCost \in Nat, NEW bTok \in Nat, NEW cCost \in Nat, NEW cTok \in Nat,
           ~(bTok > 0 /\ cTok > 0 /\ cCost * bTok < bCost * cTok)
    PROVE  LET r == Sav!AtRate(bCost, bTok, cTok)
           IN  r.num \in Nat /\ r.den \in Nat /\ r.num <= cCost * r.den
<1> DEFINE r == Sav!AtRate(bCost, bTok, cTok)
<1>1. CASE bTok = 0
  BY <1>1 DEF Sav!AtRate
<1>2. CASE bTok > 0
  <2>1. r.num = bCost * cTok /\ r.den = bTok
    BY <1>2 DEF Sav!AtRate
  <2>2. bCost * cTok \in Nat /\ cCost * bTok \in Nat
    OBVIOUS
  <2>3. cTok = 0 => bCost * cTok = 0
    OBVIOUS
  <2> HIDE DEF r
  <2> DEFINE x == bCost * cTok
             y == cCost * bTok
  <2>4. x \in Nat /\ y \in Nat /\ (cTok = 0 => x = 0) /\ ~(cTok > 0 /\ y < x)
    BY <1>2, <2>2, <2>3
  <2> HIDE DEF x, y
  <2>5. x <= y
    BY <2>4
  <2> QED
    BY <2>1, <2>4, <2>5 DEF x, y, r
<1> QED
  BY <1>1, <1>2

LEMMA Pooled ==
    ASSUME NEW x \in Nat, NEW d \in Nat, NEW y \in Nat, NEW e \in Nat, NEW a \in Nat, NEW b \in Nat,
           x <= a * d, y <= b * e
    PROVE  ~((x * e + y * d) - (a + b) * (d * e) > 0)
<1>1. a * d \in Nat /\ b * e \in Nat
  OBVIOUS
<1>2. x * e <= (a * d) * e /\ x * e \in Nat /\ y * d <= (b * e) * d /\ y * d \in Nat
  BY <1>1, TimesKeepsOrder
<1>3. (a + b) * (d * e) = (a * d) * e + (b * e) * d
  OBVIOUS
<1>4. (a * d) * e \in Nat /\ (b * e) * d \in Nat
  BY <1>1
<1> DEFINE p == x * e
           q == y * d
           u == (a * d) * e
           v == (b * e) * d
<1>5. p <= u /\ q <= v /\ p \in Nat /\ q \in Nat /\ u \in Nat /\ v \in Nat
  BY <1>2, <1>4
<1>6. (a + b) * (d * e) = u + v
  BY <1>3
<1> HIDE DEF p, q, u, v
<1>7. ~((p + q) - (u + v) > 0)
  BY <1>5
<1> QED
  BY <1>6, <1>7 DEF p, q

(* Of stored costs: no fall, no figure.                                    *)
LEMMA SavingsNeedAFall ==
    ASSUME NEW b, PeriodHolds(b), NEW c, PeriodHolds(c),
           ~Fell(b.inCost, b.in, c.inCost, c.in), ~Fell(b.outCost, b.out, c.outCost, c.out)
    PROVE  ~(Sav!Normalized(b, c).num > 0)
<1> DEFINE in == Sav!AtRate(b.inCost, b.in, c.in)
           out == Sav!AtRate(b.outCost, b.out, c.out)
<1>1. in.num \in Nat /\ in.den \in Nat /\ in.num <= c.inCost * in.den
  BY RateBound DEF PeriodHolds, Fell
<1>2. out.num \in Nat /\ out.den \in Nat /\ out.num <= c.outCost * out.den
  BY RateBound DEF PeriodHolds, Fell
<1>3. c.inCost \in Nat /\ c.outCost \in Nat /\ c.cost = c.inCost + c.outCost
  BY DEF PeriodHolds
<1>4. Sav!Normalized(b, c).num = (in.num * out.den + out.num * in.den) - c.cost * (in.den * out.den)
  BY DEF Sav!Normalized, Sav!CurrentAtBaselineRate
<1> DEFINE x == in.num
           d == in.den
           y == out.num
           e == out.den
           i == c.inCost
           o == c.outCost
<1>5. /\ x \in Nat /\ d \in Nat /\ y \in Nat /\ e \in Nat /\ i \in Nat /\ o \in Nat
      /\ x <= i * d /\ y <= o * e
  BY <1>1, <1>2, <1>3
<1>6. Sav!Normalized(b, c).num = (x * e + y * d) - (i + o) * (d * e)
  BY <1>3, <1>4
<1> HIDE DEF x, d, y, e, i, o
<1> QED
  BY <1>5, <1>6, Pooled

(* At the rate of a stored cost that is off by k / 2, a class whose tokens *)
(* did not fall costs no more than it does, and k / 2 a token.             *)
LEMMA StoredRateBound ==
    ASSUME NEW stored \in Nat, NEW bCost \in Nat, NEW bTok \in Nat, NEW cCost \in Nat,
           NEW cTok \in Nat, NEW k \in Nat, 2 * stored <= 2 * bCost + k,
           ~Fell(bCost, bTok, cCost, cTok)
    PROVE  LET r == Sav!AtRate(stored, bTok, cTok)
           IN  /\ r.num \in Nat /\ r.den \in Nat /\ r.den > 0
               /\ 2 * r.num <= 2 * (cCost * r.den) + k * cTok
<1> DEFINE r == Sav!AtRate(stored, bTok, cTok)
<1>1. CASE bTok = 0
  <2>1. r.num = 0 /\ r.den = 1
    BY <1>1 DEF Sav!AtRate
  <2>2. k * cTok \in Nat
    OBVIOUS
  <2> QED
    BY <2>1, <2>2
<1>2. CASE bTok > 0
  <2>1. r.num = stored * cTok /\ r.den = bTok
    BY <1>2 DEF Sav!AtRate
  <2>2. (2 * stored) * cTok <= (2 * bCost + k) * cTok
    BY TimesKeepsOrder
  <2>3. /\ (2 * stored) * cTok = 2 * (stored * cTok)
        /\ (2 * bCost + k) * cTok = 2 * (bCost * cTok) + k * cTok
    OBVIOUS
  <2>4. /\ stored * cTok \in Nat /\ bCost * cTok \in Nat /\ cCost * bTok \in Nat /\ k * cTok \in Nat
        /\ cTok = 0 => bCost * cTok = 0
    OBVIOUS
  <2> DEFINE s == stored * cTok
             x == bCost * cTok
             y == cCost * bTok
             z == k * cTok
  <2>5. /\ s \in Nat /\ x \in Nat /\ y \in Nat /\ z \in Nat /\ (cTok = 0 => x = 0)
        /\ ~(cTok > 0 /\ y < x) /\ 2 * s <= 2 * x + z
    BY <1>2, <2>2, <2>3, <2>4 DEF Fell
  <2> HIDE DEF r, s, x, y, z
  <2>6. 2 * s <= 2 * y + z
    BY <2>5
  <2> QED
    BY <1>2, <2>1, <2>5, <2>6 DEF r, s, y, z
<1> QED
  BY <1>1, <1>2

LEMMA PooledWithin ==
    ASSUME NEW x \in Nat, NEW d \in Nat, NEW y \in Nat, NEW e \in Nat, NEW i \in Nat, NEW o \in Nat,
           NEW cost \in Nat, NEW q \in Nat, NEW m \in Nat, NEW n \in Nat,
           2 * x <= 2 * (i * d) + q * m, 2 * y <= 2 * (o * e) + (2 * q) * n,
           2 * (i + o) <= 2 * cost + q
    PROVE  ~(2 * ((x * e + y * d) - cost * (d * e)) > q * (m * e + 2 * (n * d) + d * e))
<1> DEFINE xe == x * e
           yd == y * d
           de == d * e
           ide == i * de
           ode == o * de
           cde == cost * de
           qme == (q * m) * e
           qnd == (q * n) * d
           qde == q * de
<1>1. de \in Nat
  OBVIOUS
<1>2. /\ xe \in Nat /\ yd \in Nat /\ ide \in Nat /\ ode \in Nat /\ cde \in Nat
      /\ qde \in Nat
  BY <1>1
<1>3. q * m \in Nat /\ q * n \in Nat /\ i * d \in Nat /\ o * e \in Nat
  OBVIOUS
<1>4. qme \in Nat /\ qnd \in Nat
  BY <1>3
<1>5. 2 * xe <= 2 * ide + qme
  <2> DEFINE id == i * d
             qm == q * m
  <2>1. id \in Nat /\ qm \in Nat /\ 2 * x <= 2 * id + qm
    BY <1>3
  <2>2. id * e = ide
    OBVIOUS
  <2> HIDE DEF id, qm
  <2>3. (2 * x) * e <= (2 * id + qm) * e
    BY <2>1, TimesKeepsOrder
  <2>4. (2 * x) * e = 2 * (x * e) /\ (2 * id + qm) * e = 2 * (id * e) + qm * e
    BY <2>1
  <2> QED
    BY <2>2, <2>3, <2>4 DEF qm
<1>6. 2 * yd <= 2 * ode + 2 * qnd
  <2> DEFINE oe == o * e
             qn == q * n
  <2>1. oe \in Nat /\ qn \in Nat /\ 2 * y <= 2 * oe + 2 * qn
    <3>1. (2 * q) * n = 2 * (q * n)
      OBVIOUS
    <3> QED
      BY <1>3, <3>1
  <2>2. oe * d = ode
    OBVIOUS
  <2> HIDE DEF oe, qn
  <2>3. (2 * y) * d <= (2 * oe + 2 * qn) * d
    BY <2>1, TimesKeepsOrder
  <2>4. (2 * y) * d = 2 * (y * d) /\ (2 * oe + 2 * qn) * d = 2 * (oe * d) + 2 * (qn * d)
    BY <2>1
  <2> QED
    BY <2>2, <2>3, <2>4 DEF qn
<1>7. 2 * ide + 2 * ode <= 2 * cde + qde
  <2> HIDE DEF de
  <2>1. (2 * (i + o)) * de <= (2 * cost + q) * de
    BY <1>1, TimesKeepsOrder
  <2>2. /\ (2 * (i + o)) * de = 2 * (i * de) + 2 * (o * de)
        /\ (2 * cost + q) * de = 2 * (cost * de) + q * de
    BY <1>1
  <2> QED
    BY <2>1, <2>2
<1>8. q * (m * e + 2 * (n * d) + d * e) = qme + 2 * qnd + qde
  OBVIOUS
<1> HIDE DEF xe, yd, ide, ode, cde, qme, qnd, qde
<1>9. ~(2 * ((xe + yd) - cde) > qme + 2 * qnd + qde)
  BY <1>2, <1>4, <1>5, <1>6, <1>7
<1> QED
  BY <1>8, <1>9 DEF xe, yd, cde, de

(* Of costs as they were: no fall, no figure but what rounding makes.      *)
LEMMA SlackCoversRounding ==
    ASSUME NEW before, NEW later, NEW b, PeriodHolds(b), NEW c, PeriodHolds(c),
           RoundingHolds(before, b), RoundingHolds(later, c),
           ~Fell(Sav!InputCost(before), b.in, Sav!InputCost(later), c.in),
           ~Fell(before.cost - Sav!InputCost(before), b.out, later.cost - Sav!InputCost(later), c.out)
    PROVE  ~(2 * Sav!Normalized(b, c).num > RoundingSlack(b, c))
<1> DEFINE in == Sav!AtRate(b.inCost, b.in, c.in)
           out == Sav!AtRate(b.outCost, b.out, c.out)
           bi == Sav!InputCost(before)
           i == Sav!InputCost(later)
           bo == before.cost - bi
           o == later.cost - i
           q2 == 2 * Quantum
<1>1. /\ b.in \in Nat /\ b.out \in Nat /\ c.in \in Nat /\ c.out \in Nat
      /\ b.inCost \in Nat /\ b.outCost \in Nat /\ c.cost \in Nat
  BY DEF PeriodHolds
<1>2. /\ bi \in Nat /\ i \in Nat /\ bo \in Nat /\ o \in Nat /\ Quantum \in Nat /\ q2 \in Nat
      /\ 2 * b.inCost <= 2 * bi + Quantum /\ 2 * b.outCost <= 2 * bo + q2
      /\ 2 * (i + o) <= 2 * c.cost + Quantum
  BY QuantumIsNat DEF RoundingHolds
<1>3. ~Fell(bi, b.in, i, c.in) /\ ~Fell(bo, b.out, o, c.out)
  OBVIOUS
<1> HIDE DEF bi, i, bo, o, q2
<1>4. /\ in.num \in Nat /\ in.den \in Nat
      /\ 2 * in.num <= 2 * (i * in.den) + Quantum * c.in
  BY <1>1, <1>2, <1>3, StoredRateBound
<1>5. /\ out.num \in Nat /\ out.den \in Nat
      /\ 2 * out.num <= 2 * (o * out.den) + q2 * c.out
  BY <1>1, <1>2, <1>3, StoredRateBound
<1>6. /\ Sav!Normalized(b, c).num
            = (in.num * out.den + out.num * in.den) - c.cost * (in.den * out.den)
      /\ RoundingSlack(b, c)
            = Quantum * (c.in * out.den + 2 * (c.out * in.den) + in.den * out.den)
  BY DEF Sav!Normalized, Sav!CurrentAtBaselineRate, RoundingSlack
<1> DEFINE x == in.num
           d == in.den
           y == out.num
           e == out.den
           cost == c.cost
           m == c.in
           n == c.out
<1>7. /\ x \in Nat /\ d \in Nat /\ y \in Nat /\ e \in Nat /\ cost \in Nat /\ m \in Nat /\ n \in Nat
      /\ 2 * x <= 2 * (i * d) + Quantum * m /\ 2 * y <= 2 * (o * e) + (2 * Quantum) * n
      /\ 2 * (i + o) <= 2 * cost + Quantum
  BY <1>1, <1>2, <1>4, <1>5 DEF q2
<1>8. /\ Sav!Normalized(b, c).num = (x * e + y * d) - cost * (d * e)
      /\ RoundingSlack(b, c) = Quantum * (m * e + 2 * (n * d) + d * e)
  BY <1>6
<1> HIDE DEF x, d, y, e, cost, m, n
<1> QED
  BY <1>2, <1>7, <1>8, PooledWithin

(* The figure's denominator and the headline's unit are positive.          *)
LEMMA NormalizedHolds ==
    ASSUME NEW b, PeriodHolds(b), NEW c, PeriodHolds(c)
    PROVE  LET n == Sav!Normalized(b, c)
           IN  n.num \in Int /\ n.den * Sav!Cent \in Nat /\ n.den * Sav!Cent > 0
<1> DEFINE in == Sav!AtRate(b.inCost, b.in, c.in)
           out == Sav!AtRate(b.outCost, b.out, c.out)
           n == Sav!Normalized(b, c)
<1>1. /\ b.in \in Nat /\ b.out \in Nat /\ c.in \in Nat /\ c.out \in Nat
      /\ b.inCost \in Nat /\ b.outCost \in Nat /\ c.cost \in Nat
  BY DEF PeriodHolds
<1>2. ASSUME NEW cost \in Nat, NEW tok \in Nat, NEW now \in Nat
      PROVE  LET r == Sav!AtRate(cost, tok, now)
             IN  r.num \in Nat /\ r.den \in Nat /\ r.den > 0
  BY DEF Sav!AtRate
<1>3. /\ in.num \in Nat /\ in.den \in Nat /\ in.den > 0
      /\ out.num \in Nat /\ out.den \in Nat /\ out.den > 0
  BY <1>1, <1>2
<1>4. /\ n.num = (in.num * out.den + out.num * in.den) - c.cost * (in.den * out.den)
      /\ n.den = in.den * out.den
  BY DEF Sav!Normalized, Sav!CurrentAtBaselineRate
<1> DEFINE x == in.num
           d == in.den
           y == out.num
           e == out.den
           cost == c.cost
           de == d * e
<1>5. /\ x \in Nat /\ d \in Nat /\ d > 0 /\ y \in Nat /\ e \in Nat /\ e > 0 /\ cost \in Nat
      /\ n.num = (x * e + y * d) - cost * de /\ n.den = de
  BY <1>1, <1>3, <1>4
<1> HIDE DEF n, x, d, y, e, cost
<1>6. de \in Nat /\ de > 0
  BY <1>5
<1>7. n.num \in Int
  BY <1>5, <1>6
<1> HIDE DEF de
<1>8. de * Sav!Cent \in Nat /\ de * Sav!Cent > 0
  <2>1. Sav!Cent \in Nat /\ Sav!Cent > 0
    BY QuantumIsNat DEF Sav!Cent
  <2> DEFINE cent == Sav!Cent
  <2>2. cent \in Nat /\ cent > 0
    BY <2>1
  <2> HIDE DEF cent
  <2>3. de * cent \in Nat /\ de * cent > 0
    BY <1>6, <2>2
  <2> QED
    BY <2>3 DEF cent
<1> QED
  BY <1>5, <1>7, <1>8 DEF n

(* Whatever two dashboards hold, a proof made of them verifies, claims a   *)
(* saving only where the stored tokens of a class cost less than they did  *)
(* and more than rounding can make only where the tokens themselves did,   *)
(* and does not verify over another baseline's figures.                    *)
THEOREM SavingsAlwaysReal ==
    ASSUME NEW before, Dashboard(before), NEW later, Dashboard(later)
    PROVE  ProofIsReal(before, later)
<1> DEFINE baseline == Sav!BuildBaseline(before, "k")
           b == Sav!ToPeriodSummary(before)
           c == Sav!ToPeriodSummary(later)
           proof == Sav!ProveSavings(baseline, later, "k")
           savings == Sav!ComputeSavings(b, c)
           swapped == [baseline EXCEPT !.content.period = c]
           other == Sav!ProveSavings(swapped, later, "k")
<1>1. /\ PeriodHolds(b) /\ PeriodHolds(c)
      /\ RoundingHolds(before, b) /\ RoundingHolds(later, c)
  BY DashboardsHold
<1>2. /\ baseline.content.period = b /\ baseline.content.hash = b
      /\ baseline.key = "k" /\ baseline.signed = baseline.content
  BY DEF Sav!BuildBaseline, Sav!SignedWith
<1>3. /\ proof.content.period = b /\ proof.content.hash = b /\ proof.content.current = c
      /\ proof.content.savings = savings /\ proof.key = "k" /\ proof.signed = proof.content
  BY <1>2 DEF Sav!ProveSavings, Sav!SignedWith
<1>4. other.content.period = c /\ other.content.hash = b
  BY DEF Sav!BuildBaseline, Sav!ProveSavings, Sav!SignedWith
<1>5. b.v1 = FALSE /\ c.v1 = FALSE
  BY <1>1 DEF PeriodHolds
<1> HIDE DEF baseline, b, c, proof, savings, swapped, other
<1>6. Sav!VerifyBaseline(baseline, {"k"}) /\ Sav!VerifySavingsProof(proof, {"k"})
  BY <1>2, <1>3, <1>5 DEF Sav!VerifyBaseline, Sav!VerifySavingsProof, Sav!CheckSig, Sav!HasClassFields, savings
<1>7. Sav!VerifySavingsProof(other, {"k"}) => b = c
  BY <1>4 DEF Sav!VerifySavingsProof
<1>8. savings.normalized > 0 =>
         Fell(b.inCost, b.in, c.inCost, c.in) \/ Fell(b.outCost, b.out, c.outCost, c.out)
  <2> DEFINE n == Sav!Normalized(b, c)
  <2>1. savings.normalized = Sav!Round(n.num, n.den * Sav!Cent)
    BY DEF Sav!ComputeSavings, savings
  <2>2. n.num \in Int /\ n.den * Sav!Cent \in Nat /\ n.den * Sav!Cent > 0
    BY <1>1, NormalizedHolds
  <2> DEFINE num == n.num
             unit == n.den * Sav!Cent
  <2>3. num \in Int /\ unit \in Nat /\ unit > 0 /\ savings.normalized = Sav!Round(num, unit)
    BY <2>1, <2>2
  <2> HIDE DEF num, unit
  <2>4. savings.normalized > 0 => num > 0
    BY <2>3, RoundedIsPositive
  <2> QED
    BY <1>1, <2>4, SavingsNeedAFall DEF num
<1>9. 2 * Sav!Normalized(b, c).num > RoundingSlack(b, c) =>
         \/ Fell(Sav!InputCost(before), b.in, Sav!InputCost(later), c.in)
         \/ Fell(before.cost - Sav!InputCost(before), b.out, later.cost - Sav!InputCost(later), c.out)
  BY <1>1, SlackCoversRounding
<1> QED
  BY <1>2, <1>3, <1>6, <1>7, <1>8, <1>9 DEF ProofIsReal, baseline, proof, other, swapped
=============================================================================

-------------------------------- MODULE Savings --------------------------------
(***************************************************************************)
(* Savings proofs (src/cost/savings.ts): a period summarized per token     *)
(* class, a signed baseline, a signed proof that compares a later period   *)
(* with it, and the verifiers.  A signature is the key and the content it  *)
(* signs, a hash the content.  Stored costs are rounded to Quantum and the *)
(* headline to a hundred of them, as the code rounds to 4 and to 2 decimals*)
(* of a dollar; rates are fractions, compared without the code's division; *)
(* the rounding of the displayed rates, to 12 decimals, is left out.       *)
(***************************************************************************)
EXTENDS CostReport

CONSTANT Quantum   \* $0.0001 in the unit prices are given in

Cent == 100 * Quantum

(* round(x, 4)                                                             *)
Stored(x) == Round(x, Quantum) * Quantum

(* splitCostByClass: a model's recorded cost is apportioned by the priced  *)
(* weight of its two classes.                                              *)
SplitCost(models, m) ==
    LET wIn  == models[m].stat.in * Price[m].in
        wOut == models[m].stat.out * Price[m].out
    IN  IF wIn + wOut = 0 THEN 0 ELSE (models[m].stat.cost * wIn) \div (wIn + wOut)

SumModels(models, F(_)) ==
    FoldFunctionOnSet(+, 0, [m \in DOMAIN models |-> F(m)], {m \in DOMAIN models : Priced(m)})

(* splitCostByClass: what the input tokens of a dashboard cost, before it  *)
(* is rounded.                                                             *)
InputCost(s) == SumModels(s.models, LAMBDA m : SplitCost(s.models, m))

(* toPeriodSummary: priced models only; the costs are rounded, and re-sum  *)
(* because the second class is given what the first leaves.                *)
ToPeriodSummary(s) ==
    LET cost   == Stored(s.cost)
        inCost == Stored(InputCost(s))
    IN  [v1 |-> FALSE, requests |-> s.requests, cost |-> cost,
         in  |-> SumModels(s.models, LAMBDA m : s.models[m].stat.in),
         out |-> SumModels(s.models, LAMBDA m : s.models[m].stat.out),
         inCost |-> inCost, outCost |-> cost - inCost]

(* sign and checkSig: canonical bytes of everything but the signature      *)
SignedWith(key, content) == [content |-> content, key |-> key, signed |-> content]
CheckSig(doc, keys) == doc.key \in keys /\ doc.signed = doc.content

BuildBaseline(summary, key) ==
    LET period == ToPeriodSummary(summary)
    IN  SignedWith(key, [period |-> period, hash |-> period])

HasClassFields(period) == ~period.v1

(* ratePerToken times n tokens, as [num, den]                              *)
AtRate(cost, tokens, n) ==
    IF tokens > 0 THEN [num |-> cost * n, den |-> tokens] ELSE [num |-> 0, den |-> 1]

(* Mutant: the pooled rate of schema 1.0.                                  *)
CurrentAtPooledRate(baseline, current) ==
    AtRate(baseline.cost, baseline.in + baseline.out, current.in + current.out)

(* currentAtBaselineRate: the current volume of each class at the rate the *)
(* baseline's stored costs give that class                                 *)
CurrentAtBaselineRate(baseline, current) ==
    LET in  == AtRate(baseline.inCost, baseline.in, current.in)
        out == AtRate(baseline.outCost, baseline.out, current.out)
    IN  [num |-> in.num * out.den + out.num * in.den, den |-> in.den * out.den]

(* ... less what it cost                                                   *)
Normalized(baseline, current) ==
    LET r == CurrentAtBaselineRate(baseline, current)
    IN  [num |-> r.num - current.cost * r.den, den |-> r.den]

(* computeSavings: the headline in cents, what the percentage is of, and   *)
(* the difference of the two bills.                                        *)
ComputeSavings(baseline, current) ==
    LET n == Normalized(baseline, current)
    IN  [normalized |-> Round(n.num, n.den * Cent),
         base       |-> CurrentAtBaselineRate(baseline, current),
         delta      |-> baseline.cost - current.cost]

(* proveSavings: throws for a baseline without the split, which is outside *)
(* its domain; otherwise signs.  The baseline's hash is copied, unchecked. *)
ProveSavings(baseline, summary, key) ==
    LET period  == baseline.content.period
        current == ToPeriodSummary(summary)
    IN  SignedWith(key, [period  |-> period,
                         hash    |-> baseline.content.hash,
                         current |-> current,
                         savings |-> ComputeSavings(period, current)])

VerifyBaseline(b, keys) == CheckSig(b, keys) /\ b.content.hash = b.content.period

(* verifySavingsProof: signature, baseline hash, and every figure redone.  *)
VerifySavingsProof(p, keys) ==
    /\ CheckSig(p, keys)
    /\ p.content.hash = p.content.period
    /\ HasClassFields(p.content.period) /\ HasClassFields(p.content.current)
    /\ p.content.savings = ComputeSavings(p.content.period, p.content.current)
=============================================================================

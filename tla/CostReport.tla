------------------------------ MODULE CostReport ------------------------------
(***************************************************************************)
(* The cost dashboard (src/cost/pricing.ts, ingest.ts, dashboard.ts): a    *)
(* usage bill read into workload rows, the same rows expanded to receipts, *)
(* and the two summaries made of them, one per path, with the over-tiering *)
(* suggestions.  Dollars are integers (a price is per token, in the unit   *)
(* that makes it one), a model is "vendor:model", and the order of lists,  *)
(* which only rendering uses, is left out.                                 *)
(***************************************************************************)
EXTENDS Integers, Sequences, FiniteSets, SequencesExt

CONSTANTS Price,        \* PRICING: model -> [in, out]; other models are unpriced
          Downshift,    \* DOWNSHIFT: model -> [to, sameFamily]
          LightOutput, LightInput,
          Cap           \* maxReceipts

CostAssumption ==
    /\ \A m \in DOMAIN Price : Price[m].in \in Nat /\ Price[m].out \in Nat
    /\ Cap \in Nat \ {0}
-----------------------------------------------------------------------------
SumOver(rows, F(_)) == FoldLeft(LAMBDA acc, row : acc + F(row), 0, rows)

(* Math.round of a / b for b > 0 and a >= 0                                *)
Round(a, b) == (2 * a + b) \div (2 * b)

Priced(m) == m \in DOMAIN Price

(* costUsd(priceFor(m), tokens), and 0 where there is no price             *)
Cost(m, in, out) == IF Priced(m) THEN in * Price[m].in + out * Price[m].out ELSE 0
-----------------------------------------------------------------------------
(* Reading the bill.  A model id is the sequence of its words: Version     *)
(* stands for a run of digits, dots and dashes.                            *)
VersionTail(words) == \A i \in DOMAIN words : words[i] = "version"

FirstAt(words, base, from) ==
    LET found == {i \in from .. Len(words) - Len(base) + 1 :
                    SubSeq(words, i, i + Len(base) - 1) = base}
    IN  IF found = {} THEN 0 ELSE CHOOSE i \in found : \A j \in found : i <= j

(* Mutant: the base matches whatever follows it.                           *)
TierMatchAnyTail(words, base) == FirstAt(words, base, 1) # 0

(* tierMatch: the base is there, and only version noise follows it.        *)
TierMatch(words, base) ==
    LET i == FirstAt(words, base, 1)
    IN  i # 0 /\ VersionTail(SubSeq(words, i + Len(base), Len(words)))

(* geminiTier: the tier word comes somewhere after the family.             *)
GeminiTier(words, tier) ==
    LET i == FirstAt(words, <<"gemini">>, 1)
        j == IF i = 0 THEN 0 ELSE FirstAt(words, <<tier>>, i + 1)
    IN  j # 0 /\ VersionTail(SubSeq(words, j + 1, Len(words)))

(* normalizeModel: the first pattern that matches, most specific first.    *)
NormalizeModel(words) ==
    CASE TierMatch(words, <<"gpt-5", "nano">>)  -> "gpt-5-nano"
      [] TierMatch(words, <<"gpt-5", "mini">>)  -> "gpt-5-mini"
      [] TierMatch(words, <<"gpt-5">>)          -> "gpt-5"
      [] TierMatch(words, <<"gpt-4o", "mini">>) -> "gpt-4o-mini"
      [] TierMatch(words, <<"gpt-4o">>)         -> "gpt-4o"
      [] TierMatch(words, <<"opus">>)           -> "opus"
      [] TierMatch(words, <<"sonnet">>)         -> "sonnet"
      [] TierMatch(words, <<"haiku">>)          -> "haiku"
      [] GeminiTier(words, "flash")             -> "gemini-flash"
      [] GeminiTier(words, "pro")               -> "gemini-pro"
      [] TierMatch(words, <<"gemini">>)         -> "gemini-pro"
      [] OTHER                                  -> "unknown"

(* firstNum: the first positive candidate of a field's spellings           *)
FirstNum(candidates) ==
    LET positive == SelectSeq(candidates, LAMBDA n : n > 0)
    IN  IF positive = <<>> THEN 0 ELSE positive[1]

(* parseUsageExport: rows without a positive request count are skipped.    *)
ParseUsageExport(rawRows) ==
    SelectSeq([i \in DOMAIN rawRows |->
                 [model    |-> NormalizeModel(rawRows[i].id),
                  app      |-> rawRows[i].app,
                  requests |-> FirstNum(rawRows[i].requests),
                  in       |-> FirstNum(rawRows[i].in),
                  out      |-> FirstNum(rawRows[i].out),
                  at       |-> rawRows[i].at]],
              LAMBDA w : w.requests > 0)
-----------------------------------------------------------------------------
(* Mutant: every receipt carries the row's rounded average.                *)
SplitByAverage(total, n, i) == Round(total, n)

(* splitEvenly: the i-th of n parts (i from 0), by cumulative floors       *)
SplitEvenly(total, n, i) == ((i + 1) * total) \div n - (i * total) \div n

(* One receipt of an imported row: unsigned, in production, no decision.   *)
MkReceipt(w, in, out) ==
    [model |-> w.model, app |-> w.app, env |-> "production", in |-> in, out |-> out,
     at |-> w.at, governed |-> FALSE, signed |-> FALSE, evidence |-> FALSE]

(* receiptsFromWorkloads: above the cap each row keeps a share of its      *)
(* receipts, at least one; scale = total / emitted recovers the totals.    *)
ReceiptsFromWorkloads(workloads) ==
    LET live    == SelectSeq(workloads, LAMBDA w : w.requests > 0)
        total   == SumOver(live, LAMBDA w : w.requests)
        Count(w) == IF total > Cap
                    THEN LET n == Round(w.requests * Cap, total) IN IF n > 1 THEN n ELSE 1
                    ELSE w.requests
        emitted == SumOver(live, Count)
        Share(x) == IF emitted > 0 THEN Round(x * emitted, total) ELSE x
        Expand(w) == [i \in 1 .. Count(w) |->
                        MkReceipt(w, SplitEvenly(Share(w.in), Count(w), i - 1),
                                     SplitEvenly(Share(w.out), Count(w), i - 1))]
    IN  [receipts |-> FlattenSeq([k \in DOMAIN live |-> Expand(live[k])]),
         totalRequests |-> total, emitted |-> emitted, sampled |-> total > Cap]
-----------------------------------------------------------------------------
(* The sums both summaries keep of a run of rows, per model, app, group... *)
Stat(rows) ==
    [requests |-> SumOver(rows, LAMBDA w : w.requests),
     in       |-> SumOver(rows, LAMBDA w : w.in),
     out      |-> SumOver(rows, LAMBDA w : w.out),
     cost     |-> SumOver(rows, LAMBDA w : Cost(w.model, w.in, w.out))]

StatBy(rows, Key(_)) ==
    [k \in {Key(rows[i]) : i \in DOMAIN rows} |-> Stat(SelectSeq(rows, LAMBDA w : Key(w) = k))]

ModelOf(w) == w.model
AppOf(w)   == w.app
EnvOf(w)   == w.env
GroupOf(w) == [model |-> w.model, app |-> w.app]

(* The same tokens on the cheaper tier                                     *)
AltCost(to, g) == Cost(to, g.in, g.out)

(* buildSuggestions: light priced groups that a cheaper tier would serve   *)
(* for less; confident only within a family and without heavy contexts.    *)
Suggestions(groups) ==
    LET avgOut(k) == Round(groups[k].out, groups[k].requests)
        avgIn(k)  == Round(groups[k].in, groups[k].requests)
        flagged   == {k \in DOMAIN groups :
                        /\ Priced(k.model) /\ k.model \in DOMAIN Downshift
                        /\ groups[k].requests >= 3 /\ groups[k].cost > 0
                        /\ avgOut(k) <= LightOutput
                        /\ Priced(Downshift[k.model].to)
                        /\ groups[k].cost > AltCost(Downshift[k.model].to, groups[k])}
    IN  {[group      |-> k,
          to         |-> Downshift[k.model].to,
          requests   |-> groups[k].requests,
          estSavings |-> groups[k].cost - AltCost(Downshift[k.model].to, groups[k]),
          confidence |-> IF Downshift[k.model].sameFamily /\ avgIn(k) <= LightInput
                         THEN "high" ELSE "review"] : k \in flagged}

SavingsAt(suggestions, confidence) ==
    FoldFunctionOnSet(+, 0, [s \in suggestions |-> s.estSavings],
                      {s \in suggestions : s.confidence = confidence})

(* The app whose group of the model has most requests, first come on ties. *)
TopApp(rows, groups, m) ==
    LET mine == SelectSeq(rows, LAMBDA w : w.model = m)
        Size(i) == groups[GroupOf(mine[i])].requests
    IN  IF mine = <<>> THEN "none"
        ELSE mine[CHOOSE i \in DOMAIN mine :
                    \A j \in DOMAIN mine : Size(i) > Size(j) \/ (Size(i) = Size(j) /\ i <= j)].app

(* byModel: a model's figures, its average answer and its top app          *)
ByModel(models, rows, groups) ==
    [m \in DOMAIN models |-> [stat   |-> models[m],
                              avgOut |-> Round(models[m].out, models[m].requests),
                              topApp |-> TopApp(rows, groups, m)]]

Totals(all, priced) ==
    all @@ [pricedRequests   |-> priced.requests,
            unpricedRequests |-> all.requests - priced.requests,
            pricedTokens     |-> priced.in + priced.out]

OverTiering(found) ==
    [suggestions      |-> found,
     potentialSavings |-> SavingsAt(found, "high"),
     reviewSavings    |-> SavingsAt(found, "review")]

(* What summarizeReceipts and summarizeWorkloads compute alike.  rows: the *)
(* AI calls; ungoverned: those that over-tiering is judged on.             *)
Summary(rows, ungoverned) ==
    LET groups == StatBy(ungoverned, GroupOf)
    IN  Totals(Stat(rows), Stat(SelectSeq(rows, LAMBDA w : Priced(w.model))))
          @@ OverTiering(Suggestions(groups))
          @@ [models       |-> ByModel(StatBy(rows, ModelOf), ungoverned, groups),
              apps         |-> StatBy(rows, AppOf),
              environments |-> StatBy(rows, EnvOf),
              period       |-> {w.at : w \in ToSet(rows)}]

(* summarizeReceipts: a receipt with a model is one request; receipts with *)
(* a decision stay out of the groups; other receipts are only counted.     *)
SummarizeReceipts(receipts) ==
    LET calls == SelectSeq(receipts, LAMBDA r : r.model # "none")
        rows  == [i \in DOMAIN calls |-> calls[i] @@ [requests |-> 1]]
        base  == Summary(rows, SelectSeq(rows, LAMBDA r : ~r.governed))
    IN  [base EXCEPT !.period = {r.at : r \in ToSet(receipts)}]
          @@ [receipts |-> Len(receipts),
              signed   |-> Len(SelectSeq(receipts, LAMBDA r : r.signed)),
              evidence |-> Len(SelectSeq(receipts, LAMBDA r : r.evidence))]

(* summarizeWorkloads: a row is as many requests as it says.               *)
SummarizeWorkloads(workloads) ==
    LET live == SelectSeq(workloads, LAMBDA w : w.requests > 0)
        rows == [i \in DOMAIN live |-> live[i] @@ [env |-> "production"]]
    IN  Summary(rows, rows)
          @@ [receipts |-> SumOver(rows, LAMBDA w : w.requests), signed |-> 0, evidence |-> 0]

(* scaleSummary by num / den: extensive figures are scaled, counts and     *)
(* tokens rounded; dollars are not, and are given in units of 1 / den.     *)
ScaleSummary(s, num, den) ==
    LET n(x)   == Round(x * num, den)
        st(x)  == [requests |-> n(x.requests), in |-> n(x.in), out |-> n(x.out), cost |-> x.cost * num]
        sts(f) == [k \in DOMAIN f |-> st(f[k])]
    IN  IF num <= den THEN s
        ELSE [s EXCEPT !.receipts = n(@), !.requests = n(@), !.in = n(@), !.out = n(@),
                       !.pricedRequests = n(@), !.unpricedRequests = n(@), !.pricedTokens = n(@),
                       !.cost = @ * num, !.potentialSavings = @ * num, !.reviewSavings = @ * num,
                       !.signed = n(@), !.evidence = n(@),
                       !.models = [m \in DOMAIN @ |-> [@[m] EXCEPT !.stat = st(@)]],
                       !.apps = sts(@), !.environments = sts(@),
                       !.suggestions = {[g EXCEPT !.requests = n(@), !.estSavings = @ * num] : g \in @}]
=============================================================================

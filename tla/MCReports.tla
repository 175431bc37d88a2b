------------------------------ MODULE MCReports ------------------------------
(***************************************************************************)
(* The functions that read a ledger, a bill or a receipt and answer about  *)
(* it: cost dashboard, savings proof, advice, workflow graph, queries and  *)
(* alerts, workpaper, evidence pack, assurance level and rules, time-stamp *)
(* query, and in five languages the canonical form and the verifier.       *)
(* A behaviour chooses a topic and grows an input for it, item by item in  *)
(* every order; the properties speak of what is computed from the input.   *)
(***************************************************************************)
EXTENDS CostAdvisor, FiniteSetsExt

CONSTANTS SpikeFactor, SpikeFloor, Unset, Keys, Genesis, Empty, Absent, NoHeight, NoReceipt,
          NoIntegrity, NoSignatures, NoPredecessor, Malformed, Bits,
          Scale, ErrorLimit, FlagLimit, SampleSize, EvidenceSize, NotANumber,
          Quantum, Inherited

VARIABLES topic, input

vars == <<topic, input>>

MCPrice == ("opus"       :> [in |-> 5, out |-> 9]) @@ ("sonnet"     :> [in |-> 3, out |-> 6]) @@
           ("gpt-5"      :> [in |-> 2, out |-> 7]) @@ ("gpt-5-mini" :> [in |-> 1, out |-> 2])

MCDownshift == ("opus"  :> [to |-> "sonnet",     sameFamily |-> TRUE]) @@
               ("gpt-5" :> [to |-> "gpt-5-mini", sameFamily |-> FALSE])

MCPlanners  == [plan |-> "gpt-5-mini", code |-> "sonnet"]
MCExecutors == [plan |-> "gpt-5",      code |-> "opus"]
MCCacheRead == "opus" :> 1
MCCheaper   == ("opus" :> "sonnet") @@ ("gpt-5" :> "gpt-5-mini")
MCEnergy    == ("opus" :> [wh |-> 3, grid |-> 1]) @@ ("gpt-5" :> [wh |-> 1, grid |-> 2])

Sav  == INSTANCE Savings
Flow == INSTANCE WorkflowGraph
Port == INSTANCE PortVerifiers
Form == INSTANCE CanonicalForms
Docs == INSTANCE Evidence
Rung == INSTANCE Assurance
Ask  == INSTANCE ReceiptQuery
           WITH PartOf    <- {<<"gpt-5", "gpt-5-mini">>},
                LowerCase <- ("web" :> "web") @@ ("Ops" :> "ops")

(* Signatures by a known and an unknown key.                               *)
SignatureItems ==
    [alg : {"EdDSA"}, kid : {"k"}, good : {TRUE}, text : {"standard", "newline", "unpadded", "urlsafe"}]
    \cup [alg : {"EdDSA", "none"}, kid : {"k", "stranger"}, good : BOOLEAN, text : {"standard"}]

Heights == {Absent} \cup ({"int", "float", "half"} \X (0 .. 2))

(* The envelopes that have all of their parts.                             *)
WholeEnvelopes ==
    [hash : {"right", "wrong", Absent}, sigs : Seq(SignatureItems),
     height : {Absent} \cup ({"int", "float", "half"} \X Int),
     prev : {Genesis, "h", Empty, Absent}, imprint : {"none", "match", "mismatch"}]

ASSUME ReportsAssumption ==
    CostAssumption /\ AdvisorAssumption /\ Quantum \in Nat \ {0} /\ Port!PortAssumption /\ Docs!EvidenceAssumption
    /\ Rung!AssuranceAssumption
    /\ {NoReceipt, NoIntegrity, NoSignatures} \cap WholeEnvelopes = {}
-----------------------------------------------------------------------------
(* Rows of a usage bill: a model id as words, the spellings of each count. *)
BillItems ==
    {[id |-> <<"opus", "version">>, app |-> "web", requests |-> <<3>>, in |-> <<0, 7>>, out |-> <<4>>, at |-> 1],
     [id |-> <<"claude", "opus">>,  app |-> "Ops", requests |-> <<2>>, in |-> <<5>>,    out |-> <<1>>, at |-> 2],
     [id |-> <<"gpt-5", "version">>, app |-> "web", requests |-> <<5>>, in |-> <<3>>,    out |-> <<8>>, at |-> 1],
     [id |-> <<"gpt-5", "mini">>,   app |-> "web", requests |-> <<1>>, in |-> <<2>>,    out |-> <<0>>, at |-> 3],
     [id |-> <<"gpt-5", "audio">>,  app |-> "Ops", requests |-> <<0, 4>>, in |-> <<9>>, out |-> <<9>>, at |-> 2],
     [id |-> <<"sonnet">>,          app |-> "web", requests |-> <<0>>, in |-> <<6>>,    out |-> <<6>>, at |-> 1]}

(* A row of one of two periods, as the dashboard would have summed it.     *)
PeriodItems ==
    [late : BOOLEAN, model : {"opus", "gpt-5-mini", "unknown"}, in : {0, 100}, out : {1, 100}]

(* Samples of usage, of one use case.                                      *)
SampleItems ==
    [use : {"u"}, model : {"opus", "gpt-5-mini"}, in : {0, 5}, out : {3}, hit : {FALSE},
     cascade : {"none", "approved", "rejected"}]

(* Runs of the cascade: two stages' usage, and when they were recorded.    *)
CascadeItems ==
    [rule     : [intent : {"plan", "code"}, risk : {"low"}, tokens : {1, 2}]
                \cup [intent : {"code"}, risk : {"high"}, tokens : {2}],
     planned  : {[in |-> 1, out |-> 2, cached |-> 0], [in |-> 0, out |-> 3, cached |-> 4]},
     executed : {[in |-> 2, out |-> 3, cached |-> 1]},
     approved : BOOLEAN, at : {1, 2}]

(* Receipts of two tenants' workflows that share a name: the first is the  *)
(* highest of its chain; parents may be missing, or the receipt itself.     *)
GraphItems ==
    [id : 1..3, tenant : {"t1", "t2"},
     parents : {<<>>, <<1>>, <<2>>, <<3>>, <<1, 2>>, <<3, 1>>, <<1, 1>>, <<9>>}]

LedgerItems ==
    LET Row(m, a, dd, cl, n, s) ==
            [model |-> m, app |-> a, env |-> "production", decision |-> dd, class |-> cl, in |-> n,
             out |-> 2, at |-> n, governed |-> dd # "none", signed |-> s, evidence |-> FALSE]
    IN  {Row("opus", "web", "none", "none", 1, TRUE),   Row("opus", "Ops", "block", "pii", 4, TRUE),
         Row("gpt-5", "web", "none", "none", 6, FALSE), Row("gpt-5-mini", "Ops", "flag", "none", 2, TRUE),
         Row("unknown", "web", "none", "pii", 4, TRUE), Row("none", "web", "allow", "none", 0, TRUE),
         Row("unknown", "Ops", "block", "none", 0, FALSE), Row("opus", "web", "none", "none", 9, TRUE)}

(* An envelope, and in the second place a predecessor.                     *)
EnvelopeItems ==
    IF input = <<>>
    THEN {NoReceipt, NoIntegrity, NoSignatures} \cup
         [hash : {"right", "wrong", Absent}, sigs : {<<>>} \cup {<<s>> : s \in SignatureItems},
          height : Heights, prev : {Genesis, "h", Empty, Absent}, imprint : {"none", "match", "mismatch"}]
    ELSE {Malformed} \cup [hash : {"h", "other", Empty, Absent}, height : Heights]

Digits == {"0", "1", "5", "9"}

IntegerOf(digits) ==
    FoldLeft(LAMBDA v, d : 10 * v + (CHOOSE i \in 0 .. 9 : ToString(i) = d), 0, digits)

(* Letters, escapes, HTML, a private-use and a supplementary character.    *)
Characters == {98, 10, 31, 34, 60, 233, 57345, 128513}

(* Receipts of a quarter: two models and two use cases, an error, a flag,  *)
(* a guardrail's block that was reviewed, two that cite no policy.         *)
WorkItems ==
    LET Row(m, u, dd, o, cites) ==
            [id |-> Len(input) + 1, tenant |-> "t1", model |-> m, use |-> u, decision |-> dd,
             outcome |-> o, policies |-> cites, reviewer |-> IF dd = "block" THEN "ann" ELSE "pending"]
    IN  {Row("m1", "u1", "allow", "success", {}),            Row("m1", "u2", "flag", "success", {"p"}),
         Row("m1", "u1", "block", "guardrail_block", {"p"}), Row("m2", "u1", "allow", "error", {"p"}),
         Row("m1", "u2", "allow", "error", {})}

(* Receipts of a pack: two that share an id, one by another's key, one     *)
(* whose content was changed after it was hashed.                          *)
PackItems ==
    LET Row(id, body, sealed, kid) ==
            [id |-> id, body |-> body, sealed |-> sealed, linked |-> TRUE,
             sigs |-> {[kid |-> kid, body |-> body]}]
    IN  {Row(1, "a", "a", "ours"), Row(2, "a", "a", "ours"), Row(1, "b", "b", "ours"),
         Row(2, "b", "b", "theirs"), Row(3, "b", "a", "ours")}

Comparison(field, op, text, num) ==
    [kind |-> "comparison", field |-> field, op |-> op, text |-> text, num |-> num]

(* Rules: on a number, on a text, on a name every object has; with an empty*)
(* or unreadable expression, with none; and with two, of which the form is *)
(* the one that counts.                                                    *)
RuleItems ==
    LET Score == Comparison("score", ">=", "5", 5)
        None  == Rung!NoExpression
    IN  [form : {None}, expression : {Score, Comparison("region", "!=", "UK", NotANumber),
                                      Comparison("toString", "!=", "UK", NotANumber), [kind |-> "unparsed"], None}]
        \cup [form : {Comparison("region", "==", "EU", NotANumber), [kind |-> "empty"]},
              expression : {Score}]

Adds(items, most) == Len(input) < most /\ \E x \in items : input' = Append(input, x)

Init == topic \in {"bill", "periods", "samples", "runs", "budget", "graph", "ledger", "envelope",
                  "number", "text", "workpaper", "pack", "rules", "bytes"} /\ input = <<>>

Next ==
    /\ \/ topic = "bill"    /\ Adds(BillItems, 3)
       \/ topic = "periods" /\ Adds(PeriodItems, 3)
       \/ topic = "samples" /\ Adds(SampleItems, 4)
       \/ topic = "runs"    /\ Adds(CascadeItems, 2)
       \/ topic = "budget"  /\ Adds(0 .. 3, 4)
       \/ topic = "graph"   /\ Adds({x \in GraphItems : \A i \in DOMAIN input : input[i].id # x.id}, 3)
       \/ topic = "ledger"  /\ Adds(LedgerItems, 4)
       \/ topic = "envelope" /\ Adds(EnvelopeItems, 2)
       \/ topic = "number"  /\ Adds(Digits, 3)
       \/ topic = "text"    /\ Adds(Characters, 4)
       \/ topic = "workpaper" /\ Adds(WorkItems, 5)
       \/ topic = "pack"    /\ Adds(PackItems, 3)
       \/ topic = "rules"   /\ Adds(RuleItems, 3)
       \/ topic = "bytes"   /\ Adds({0, 1, 127, 128, 255}, 3)
    /\ UNCHANGED topic

Spec == Init /\ [][Next]_vars
-----------------------------------------------------------------------------
Within(x, y, halves) == 2 * (IF x > y THEN x - y ELSE y - x) <= halves

(* The dashboard of a bill's rows and the one of the receipts made of them.*)
PathsAgree(made, exact, receipts, slack) ==
    LET scaled == ScaleSummary(receipts, made.totalRequests, made.emitted)
    IN  /\ ~made.sampled => receipts = exact
        /\ made.sampled => /\ scaled.requests = exact.requests
                           /\ Within(scaled.in, exact.in, slack)
                           /\ Within(scaled.out, exact.out, slack)
        /\ exact.unpricedRequests =
             SumOver(SelectSeq(input, LAMBDA r : r.id = <<"gpt-5", "audio">>),
                     LAMBDA r : FirstNum(r.requests))

ImportAgrees(workloads, made) ==
    PathsAgree(made, SummarizeWorkloads(workloads), SummarizeReceipts(made.receipts),
               Len(workloads) * (made.totalRequests \div made.emitted + 1) + 1)

(* Importing a bill row by row or expanded to receipts gives one dashboard:*)
(* all of its figures when no receipt was left out, otherwise the same     *)
(* requests, and tokens within the rounding of each row's share.  And no   *)
(* dollar is attached to a model the prices do not name.                   *)
ScanAndProveAgree ==
    topic = "bill" =>
        LET workloads == ParseUsageExport(input)
        IN  ImportAgrees(workloads, ReceiptsFromWorkloads(workloads))

(* A period's rows, which are workloads of one app, summed.                *)
PeriodOf(late) ==
    SummarizeWorkloads(LET mine == SelectSeq(input, LAMBDA x : x.late = late)
                       IN  [i \in DOMAIN mine |-> [model |-> mine[i].model, app |-> "web", at |-> 1,
                                                   requests |-> 1, in |-> mine[i].in, out |-> mine[i].out]])

(* A dashboard's total is that of its models.                              *)
AddsUp(s) == s.cost = Sav!SumModels(s.models, LAMBDA m : s.models[m].stat.cost)

(* A class of tokens costs less per token than it did.                     *)
Fell(before, tokens, later, laterTokens) ==
    tokens > 0 /\ laterTokens > 0 /\ later * tokens < before * laterTokens

(* Twice what the rounding of the stored costs can add to a figure: half a *)
(* unit of the baseline's input cost and a whole one of its output cost,   *)
(* each grown as its tokens grew, and half a unit of the current cost.  It *)
(* is over the denominator of Normalized(b, c).                            *)
RoundingSlack(b, c) ==
    LET d == Sav!AtRate(b.inCost, b.in, c.in).den
        e == Sav!AtRate(b.outCost, b.out, c.out).den
    IN  Quantum * (c.in * e + 2 * (c.out * d) + d * e)

(* What the dashboards of a baseline and of a later period may prove.      *)
ProofIsReal(before, later) ==
    LET baseline == Sav!BuildBaseline(before, "k")
        proof    == Sav!ProveSavings(baseline, later, "k")
        b        == baseline.content.period
        c        == proof.content.current
        bIn      == Sav!InputCost(before)
        cIn      == Sav!InputCost(later)
    IN  /\ proof.content.savings.normalized > 0 =>
              Fell(b.inCost, b.in, c.inCost, c.in) \/ Fell(b.outCost, b.out, c.outCost, c.out)
        /\ 2 * Sav!Normalized(b, c).num > RoundingSlack(b, c) =>
              Fell(bIn, b.in, cIn, c.in) \/ Fell(before.cost - bIn, b.out, later.cost - cIn, c.out)
        /\ Sav!VerifyBaseline(baseline, {"k"}) /\ Sav!VerifySavingsProof(proof, {"k"})
        /\ LET swapped == [baseline EXCEPT !.content.period = c]
           IN  Sav!VerifySavingsProof(Sav!ProveSavings(swapped, later, "k"), {"k"}) => b = c

(* Savings are proved only where a price fell: if the stored costs of      *)
(* neither class are less per token than the baseline's, then no volume and*)
(* no mix of classes yields a positive figure; and if the costs before they*)
(* were rounded are not, then the figure is within RoundingSlack (which    *)
(* grows with the volume: see GrowthIsNoSaving).  The proof verifies only  *)
(* with the baseline its hash names, and the dashboards compared add up.   *)
NoPhantomSavings ==
    topic = "periods" =>
        /\ \A late \in BOOLEAN : AddsUp(PeriodOf(late))
        /\ ProofIsReal(PeriodOf(FALSE), PeriodOf(TRUE))

(* "a team that simply ran more calls cannot show a "saving" it did not    *)
(* earn" (savings.ts:14-15): at one list of prices, a period that grew in  *)
(* every count by one factor proves no saving.  Refuted: the 4 decimals a  *)
(* baseline's cost is stored with (savings.ts:164-166) are part of the rate*)
(* the later volume is multiplied by.                                      *)
GrowthIsNoSaving ==
    topic = "periods" =>
        LET before == PeriodOf(FALSE)
            later  == PeriodOf(TRUE)
            proof  == Sav!ProveSavings(Sav!BuildBaseline(before, "k"), later, "k")
            Grew(n) == /\ DOMAIN later.models = DOMAIN before.models
                       /\ \A m \in DOMAIN later.models :
                             /\ later.models[m].stat.in = n * before.models[m].stat.in
                             /\ later.models[m].stat.out = n * before.models[m].stat.out
        IN  (\E n \in 1 .. 100 : Grew(n)) => proof.content.savings.normalized <= 0

(* Taken together the recommendations never promise more than was spent:   *)
(* no group of calls is advised both to move and to cascade, and a cascade *)
(* is advised only where the planner on every call and the executor on     *)
(* half of them cost less than the executor alone.                         *)
AdviceIsAffordable ==
    topic = "samples" =>
        LET ags      == Aggregate(input)
            advice   == Recommend(input)
            Spend(k) == Cost(k.model, ags[k].in, ags[k].out)
        IN  /\ \A k \in DOMAIN ags :
                  MapThenSumSet(LAMBDA a : a.twice, {a \in advice : a.for = k}) <= 2 * Spend(k)
            /\ \A a \in advice : a.kind = "enable_cascade" =>
                  2 * Cost(MCCheaper[a.for.model], ags[a.for].in, ags[a.for].out) + Spend(a.for)
                     < 2 * Spend(a.for)

(* What calls sent one after the other through the budget's gate spend.    *)
SpentBy(limits, calls) ==
    LET spent[i \in 0 .. Len(calls)] ==
            IF i = 0 THEN 0
            ELSE IF Decide(limits, spent[i - 1], calls[i]) = "deny" THEN spent[i - 1]
            ELSE spent[i - 1] + calls[i]
    IN  spent[Len(calls)]

BudgetHolds(limits, calls) ==
    LET spent == SpentBy(limits, calls)
    IN  /\ spent > 0 => spent * 100 < limits.deny * limits.monthly
        /\ limits.monthly > 0 => RemainingBudget(limits, spent, 0) > 0

(* Calls sent one after the other through the budget's gate never reach    *)
(* its deny threshold, so something of the budget always remains.          *)
GateKeepsBudget ==
    topic = "budget" =>
        \A limits \in [monthly : {0, 4, 5}, warn : {50}, throttle : {80}, deny : {60, 100}] :
            BudgetHolds(limits, input)

(* What the cascade's ledger reports since a moment is what its runs saved *)
(* or lost, in total and by intent, and comes of runs whose preview was on *)
(* the cheaper model: on the executor throughout, nothing is saved or lost.*)
LedgerBalances ==
    topic = "runs" =>
        LET Choice(i) == ChooseCascade(input[i].rule)
            ledger == [i \in DOMAIN input |->
                LedgerEntry([rule |-> input[i].rule, choice |-> Choice(i), approved |-> input[i].approved,
                             plannerModel  |-> Choice(i).planner,  plannerUsage  |-> input[i].planned,
                             executorModel |-> Choice(i).executor, executorUsage |-> input[i].executed],
                            input[i].at)]
        IN  \A since \in 1 .. 3 :
                LET r == Rollup(ledger, since)
                    counted == {i \in DOMAIN input : input[i].at >= since}
                IN  /\ r.savings = r.baseline - r.spent
                    /\ r.savings = MapThenSumSet(LAMBDA n : r.byIntent[n].savings, DOMAIN r.byIntent)
                    /\ r.count = MapThenSumSet(LAMBDA n : r.byIntent[n].count, DOMAIN r.byIntent)
                    /\ r.count = Cardinality(counted)
                    /\ r.savings # 0 => \E i \in counted : Choice(i).planner # Choice(i).executor

(* A carbon figure depends on the tokens, not on the number of events they *)
(* came in: merging a model's events leaves it as it is.                   *)
CarbonIsMeasured ==
    topic = "samples" =>
        LET ags    == Aggregate(input)
            events == [i \in DOMAIN input |->
                         [model |-> input[i].model, tokens |-> input[i].in + input[i].out]]
            merged == SetToSeq({[model |-> k.model, tokens |-> ags[k].in + ags[k].out] : k \in DOMAIN ags})
        IN  RollupCarbon(events, 7) = RollupCarbon(merged, 7)

(* The receipts so far that pass a test.                                   *)
Those(Test(_)) == {r \in ToSet(input) : Test(r)}

(* Ids of the given receipts, as many as may be cited.                     *)
Cites(ids, receipts, most) ==
    /\ ToSet(ids) \subseteq {r.id : r \in receipts}
    /\ Cardinality(ToSet(ids)) = Min({most, Cardinality(receipts)})

(* The receipts of a kind that a model has, against the total of the kind, *)
(* the model's rate, and the findings: one where the share is above the    *)
(* limit by half a unit, and none where it is not above it.                *)
RatesAreFound(w, kind, total, rate, limit, Hit(_)) ==
    LET Mine(m) == Cardinality({r \in Those(Hit) : r.model = m})
        Size(m) == w.models[m].invocations
        found   == {f \in w.findings : f.kind = kind}
    IN  /\ total = MapThenSumSet(Mine, DOMAIN w.models)
        /\ \A m \in DOMAIN w.models :
              /\ 2 * Scale * Mine(m) - 2 * Size(m) * rate[m] \in -Size(m) .. Size(m)
              /\ m \in {f.model : f \in found} => Scale * Mine(m) > limit * Size(m)
              /\ 2 * Scale * Mine(m) >= (2 * limit + 1) * Size(m) => m \in {f.model : f \in found}
        /\ \A f \in found :
              /\ Cites(f.evidence, {r \in Those(Hit) : r.model = f.model}, EvidenceSize)
              /\ f.evidence # <<>>

(* A workpaper adds up: its two inventories and its totals are of the same *)
(* receipts and name each other; rates are shares, and findings stand and  *)
(* fall with them and cite receipts of their model; and completeness of    *)
(* citations is only asserted of receipts that all cite a policy.          *)
WorkpaperAddsUp ==
    topic = "workpaper" =>
        LET w   == Docs!BuildWorkpaper(input)
            all == w.monitoring
            c   == w.validation.citation
            Rates(field(_)) == [m \in DOMAIN w.models |-> field(w.models[m])]
        IN  /\ all.total = MapThenSumSet(LAMBDA m : w.models[m].invocations, DOMAIN w.models)
            /\ all.total = MapThenSumSet(LAMBDA u : w.uses[u].invocations, DOMAIN w.uses)
            /\ \A m \in DOMAIN w.models, u \in DOMAIN w.uses :
                  u \in w.models[m].uses <=> m \in w.uses[u].models
            /\ RatesAreFound(w, "error", all.errors, Rates(LAMBDA m : m.error), ErrorLimit, Docs!Errored)
            /\ RatesAreFound(w, "flag", all.flags, Rates(LAMBDA m : m.flag), FlagLimit, Docs!Flagged)
            /\ c.finding = "complete" => all.coverage = Scale /\ Those(Docs!Uncited) = {}
            /\ c.finding = "lacking" <=> Those(Docs!Uncited) # {}
            /\ c.finding = "lacking" => Cites(c.evidence, Those(Docs!Uncited), SampleSize)

(* What is said of money, carbon and model risk is there: on a dashboard,  *)
(* in a proof, as advice, behind the budget's gate, in the ledger, in the  *)
(* roll-up and in the workpaper.                                           *)
FiguresAreReal ==
    /\ ScanAndProveAgree /\ NoPhantomSavings /\ AdviceIsAffordable /\ GateKeepsBudget
    /\ LedgerBalances /\ CarbonIsMeasured /\ WorkpaperAddsUp

(* What is rebuilt of the workflow w of tenant t1 from a ledger.           *)
OrderIsExact(rs) ==
    LET mine == {rs[i] : i \in {j \in DOMAIN rs : rs[j].wf = "w" /\ rs[j].tenant = "t1"}}
        ids  == {r.id : r \in mine}
        Parents(r) == ToSet(r.parents) \cap ids
        Repeats(r) == \E i, j \in DOMAIN r.parents :
                         i # j /\ r.parents[i] = r.parents[j] /\ r.parents[i] \in ids
        asked == [wf |-> "w", tenant |-> "t1"]
        got   == Flow!Reconstruct(rs, asked)
        At(k) == CHOOSE r \in mine : r.id = got.order[k]
        Placed(k) == {got.order[i] : i \in 1 .. k - 1}
        Least(r, k) == \A q \in mine :
            q.id \notin Placed(k) /\ Parents(q) \subseteq Placed(k) /\ ~Repeats(q) =>
                r.height < q.height \/ (r.height = q.height /\ r.id <= q.id)
    IN  /\ ToSet(got.order) \subseteq ids /\ IsInjective(got.order)
        /\ \A k \in DOMAIN got.order : Parents(At(k)) \subseteq Placed(k) /\ Least(At(k), k)
        /\ got.acyclic <=> ~\E group \in SUBSET mine :
              group # {} /\ \A r \in group : Parents(r) \cap {q.id : q \in group} # {} \/ Repeats(r)
        /\ \A bad \in {0} \cup {rs[i].id : i \in DOMAIN rs} :
              Flow!VerifyWorkflow([i \in DOMAIN rs |-> [rs[i] EXCEPT !.sound = rs[i].id # bad]], asked).valid
                <=> /\ bad \notin ids /\ Len(got.order) = Len(rs)
                    /\ \A r \in mine : ToSet(r.parents) \subseteq ids

(* A workflow's receipts are put, each once, in the order in which parents *)
(* come first and, of those whose parents are placed, the least height    *)
(* and then the least id goes next, in whatever order they were loaded and *)
(* whatever other tenants hold.  It is called acyclic exactly when no group*)
(* of its receipts has a parent in the group each and none lists a parent  *)
(* twice (which the code takes for a cycle).  It verifies exactly when all *)
(* the receipts are in the order, hold, and have their parents there.      *)
WorkflowOrderIsExact ==
    topic = "graph" =>
        OrderIsExact([i \in DOMAIN input |->
            [id |-> input[i].id, tenant |-> input[i].tenant, parents |-> input[i].parents,
             wf |-> "w", sound |-> TRUE, height |-> IF input[i].id = 1 THEN 2 ELSE 1]])

(* What a language model may make of a question: conditions, a limit.      *)
Replies ==
    [parses : {FALSE}]
    \cup [parses : {TRUE},
          json : [intent : {Unset}, metric : {Unset}, groupBy : {Unset}, limit : {Unset, 0},
                  filter : {[Ask!NoFilter EXCEPT !.decision = d, !.signed = s] :
                              d \in {Unset, "block", "flag"}, s \in {Unset, TRUE}}]]

(* Whatever a language model replies, its reading of a question that only  *)
(* adds conditions finds no more than the offline parser's, and a grouped  *)
(* answer shows a group wherever something matches, however few are asked. *)
RepliesOnlyNarrow ==
    \A said \in {{"how many"}, {"how many", "denied"}, {"by model", "cost"}}, reply \in Replies :
        LET base == Ask!ParseQuery(said, 0, 1, 9)
            off  == Ask!RunQuery(input, base)
            got  == Ask!RunQuery(input, Ask!ParseQueryLLM(base, reply))
            overrides == reply.parses /\ \E k \in Ask!FilterKeys :
                            base.filter[k] # Unset /\ reply.json.filter[k] \notin {Unset, base.filter[k]}
        IN  /\ ~overrides => got.matched <= off.matched
            /\ base.groupBy # Unset /\ got.matched > 0 => DOMAIN got.groups # {}

(* Answers of the offline parser against a dashboard and its alerts.       *)
AnswersMatch(shown, alerts) ==
    LET Answer(said, amount) == Ask!RunQuery(input, Ask!ParseQuery(said, amount, 1, 9))
        Spent(total)   == total.value = shown.cost /\ (total.caveat <=> shown.unpricedRequests > 0)
        CostBy(groups) == \A m \in DOMAIN shown.models : groups[m] = shown.models[m].stat.cost
        Count(id) == MapThenSumSet(LAMBDA a : a.count, {a \in alerts : a.id = id})
    IN  /\ Spent(Answer({"total", "cost"}, 0))
        /\ CostBy(Answer({"by model", "cost"}, 0).groups)
        /\ Answer({"total", "cost", "denied"}, 0).caveat <=>
              \E r \in ToSet(input) : r.decision = "block" /\ r.model = "unknown"
        /\ \A x \in {<<"blocked-decisions", "denied">>, <<"sensitive-data", "pii">>,
                      <<"unsigned-receipts", "unsigned">>} :
              Count(x[1]) = Answer({"how many", x[2]}, 0).value
        /\ Answer({"over n", "n tokens"}, 6).matched =
              Len(SelectSeq(input, LAMBDA r : r.in + r.out >= 6))

(* One ledger, one answer: what a question asks about money is what the    *)
(* dashboard shows, with a caveat exactly when the dashboard has unpriced  *)
(* calls; what the alerts count is what the matching question finds; a     *)
(* question about tokens compares tokens; and a language model that reads  *)
(* the question finds nothing more.                                        *)
OneLedgerOneAnswer ==
    topic = "ledger" =>
        AnswersMatch(SummarizeReceipts(input), Ask!RunAlerts(input)) /\ RepliesOnlyNarrow

(* What an SDK writes: every part there, heights as integers, base64 as it *)
(* is encoded, text for hashes.                                            *)
Written(e, pred) ==
    /\ ~Port!Broken(e)
    /\ e.hash # Absent /\ e.prev # Absent /\ e.height # Absent /\ e.height[1] = "int"
    /\ \A i \in DOMAIN e.sigs : e.sigs[i].text = "standard"
    /\ pred # NoPredecessor => /\ pred # Malformed
                               /\ pred.hash # Absent /\ pred.height # Absent /\ pred.height[1] = "int"

(* A predecessor without a hash, or without an integer for its height.     *)
Vague(pred) ==
    /\ pred # NoPredecessor
    /\ \/ pred = Malformed
       \/ pred.hash \in {Empty, Absent}
       \/ pred.height = Absent
       \/ pred.height[1] # "int"

VerifiersAgreeOn(e, pred) ==
    LET Says(l) == Port!Verify(l, e, pred)
        stale   == ~Port!Broken(e) /\ e.imprint = "mismatch"
    IN  /\ Written(e, pred) /\ ~stale => \A l \in Port!Languages : Says(l) = Says("ts")
        /\ Says("ts") # "valid" /\ ~stale /\ ~Vague(pred) =>
              \A l \in Port!Languages : Says(l) # "valid"
        /\ Says("ts") = "valid" => \A l \in Port!Languages : Says(l) = "throws" => Vague(pred)
        /\ Says("ts") = "valid" /\ (\A i \in DOMAIN e.sigs : e.sigs[i].text = "standard") =>
              Says("go") = "valid"

(* The five verifiers answer alike on whatever an SDK may have written and *)
(* anyone altered, but for the timestamps only TypeScript looks at; and on *)
(* any envelope, none takes one that TypeScript rejects, except when the   *)
(* predecessor lacks a hash or an integer for its height.                  *)
VerifiersAgree ==
    topic = "envelope" /\ input # <<>> =>
        VerifiersAgreeOn(input[1], IF Len(input) = 2 THEN input[2] ELSE NoPredecessor)

(* A time-stamp query is DER that reads back as what was meant: version 1, *)
(* SHA-256 and the imprint, the nonce as a number that is neither negative *)
(* nor longer than it must be, and the wish for a certificate; and every   *)
(* length and number is written as a reader of DER takes it.               *)
QueryReadsBack ==
    topic = "bytes" /\ input # <<>> =>
        LET imprint  == [i \in 1 .. 32 |-> 7 * i]
            query    == Rung!Parsed(Rung!buildTimeStampReq(imprint, input))
            fields   == Rung!Parsed(query[1].contents)
            hashed   == Rung!Parsed(fields[2].contents)
            longer   == [i \in 1 .. 60 * Len(input) |-> input[(i % Len(input)) + 1]]
            number   == Rung!Value(input)
            integer  == Rung!Parsed(Rung!derInteger(number))
        IN  /\ Len(query) = 1 /\ query[1].tag = 48
            /\ [i \in DOMAIN fields |-> fields[i].tag] = <<2, 48, 2, 1>>
            /\ fields[1].contents = <<1>>
            /\ Rung!IsNatural(fields[3]) /\ Rung!Value(fields[3].contents) = number
            /\ Rung!Parsed(hashed[1].contents)
                  = <<[tag |-> 6, contents |-> <<96, 134, 72, 1, 101, 3, 4, 2, 1>>],
                      [tag |-> 5, contents |-> <<>>]>>
            /\ hashed[2] = [tag |-> 4, contents |-> imprint]
            /\ Rung!IsNatural(integer[1]) /\ Rung!Value(integer[1].contents) = number
            /\ Rung!Parsed(Rung!derWrap(4, longer)) = <<[tag |-> 4, contents |-> longer]>>
            /\ \A n \in {1, 127, 128, 255, 256, 65535, 65536, 16777215} :
                  Rung!LengthOf(<<4>> \o Rung!derLen(n)) = [octets |-> Len(Rung!derLen(n)), length |-> n]

(* Every number, string and order of keys has one canonical form, whichever*)
(* SDK writes it; and in the range TypeScript signs, a receipt signed by   *)
(* any SDK has its hash confirmed by every other, and denied when the      *)
(* number is another one.  And the DER of a time-stamp query is read back. *)
CanonicalFormsAgree ==
    LET Trimmed == input # <<>> /\ input[1] # "0" /\ input[Len(input)] # "0"
        Value   == IntegerOf(input)
        SDKs    == {"ts", "go", "go int", "java", "rust", "python"}
    IN  /\ topic = "number" /\ Trimmed =>
              \A n \in -9 .. 24 : {Form!GoNumber(input, n), Form!RustNumber(input, n),
                                   Form!JavaNumber(input, n), Form!PythonNumber(input, n)}
                                    = {Form!EcmaText(input, n)}
        /\ topic = "number" =>
              \A a, b \in SDKs : Form!Signs("ts", Value) /\ Form!Signs(a, Value) =>
                  \A w \in 0 .. 2 ^ Bits - 1 :
                      Form!HashMatches(a, Value, b, w) <=> w = Form!Wire(a, Value)
        /\ topic = "text" =>
              /\ Form!GoString(input) = Form!Flat(Form!Escape, input)
              /\ \A i \in 0 .. Len(input) :
                    LET a == SubSeq(input, 1, i)  b == SubSeq(input, i + 1, Len(input))
                    IN  {Form!GoKeyBefore(a, b), Form!PythonKeyBefore(a, b)} = {Form!KeyBefore(a, b)}
        /\ QueryReadsBack

Pack == Docs!BuildEvidencePack("meta", input, {"ours"})

(* Changes of a pack's parts.                                              *)
Altered(pack) ==
    {[pack EXCEPT !.meta = "other"], [pack EXCEPT !.trusted = {"theirs"}], [pack EXCEPT !.count = 0],
     [pack EXCEPT !.receipts = Tail(@)], [pack EXCEPT !.receipts = Reverse(@)],
     [pack EXCEPT !.merkle.root = Docs!Leaf(pack.receipts[1])]}
    \cup {[pack EXCEPT !.receipts[1] = r] : r \in PackItems}

(* Proofs over the nodes of a tree.                                        *)
OtherProofs(rs) ==
    LET nodes == {Docs!NotAHash} \cup UNION {ToSet(level) : level \in ToSet(Docs!BatchLevels(Docs!Leaves(rs)))}
    IN  [index : 0 .. 3, size : 1 .. 3, path : BoundedSeq(nodes, 2)]

(* A pack of one's own receipt and proof, under another's root, sealed.    *)
Forged(pack, r, proof) ==
    LET merkle == [root |-> pack.merkle.root, proofs |-> [id \in {r.id} |-> proof]]
    IN  [meta |-> pack.meta, trusted |-> pack.trusted, merkle |-> merkle, receipts |-> <<r>>,
         count |-> 1, hash |-> Docs!Core(pack.meta, pack.trusted, merkle, <<r>>)]

Valid(pack, keys) == Docs!VerifyEvidencePack(pack, keys).valid

BuiltAsSigned(pack, rs, keys) ==
    Valid(pack, keys) <=>
       /\ keys # {}
       /\ \A r \in ToSet(rs) : Docs!Verifies(r, keys)
       /\ \A r, q \in ToSet(rs) : r.id = q.id => Docs!Leaf(r) = Docs!Leaf(q)

AlterationShows(pack, p, keys) == Valid(p, keys) => [p EXCEPT !.count = pack.count] = pack

ForgeryShows(pack, rs, r, proof, keys) ==
    Valid(Forged(pack, r, proof), keys) =>
       /\ Docs!Verifies(r, keys)
       /\ \E i \in DOMAIN rs : /\ Docs!Leaf(rs[i]) = Docs!Leaf(r)
                              /\ proof.path = Docs!BatchPath(Docs!Leaves(rs), i - 1)

(* A pack verifies exactly when every receipt does with the caller's keys  *)
(* and ids are not used twice; altered, but for the count beside it, it    *)
(* does not; and one sealed anew under the same root holds no receipt that *)
(* was not there, nor with another path than the receipt's own.            *)
PackIsExact ==
    topic = "pack" /\ input # <<>> =>
        \A keys \in {{}, {"ours"}, {"ours", "theirs"}} :
           /\ BuiltAsSigned(Pack, input, keys)
           /\ \A p \in Altered(Pack) : AlterationShows(Pack, p, keys)
           /\ \A r \in PackItems, proof \in OtherProofs(input) :
                 ForgeryShows(Pack, input, r, proof, keys)

(* What the ladder's caller brings: keys, attested kids, a verified anchor.*)
LadderOptions == [keys : BOOLEAN, attested : SUBSET {"k", "stranger"}, anchor : BOOLEAN]

(* What is said of an envelope with these tokens and options, when s is    *)
(* added to its signatures.                                                *)
LevelIsEarned(e, tokens, opts, s) ==
    LET Level(f) == Rung!AssuranceLevel(f, tokens, opts)
        level    == Level(e)
        more     == Level([e EXCEPT !.sigs = Append(@, s)])
        seen     == IF Port!Broken(e) THEN e ELSE [e EXCEPT !.imprint = Rung!Imprint(tokens)]
    IN  /\ level > 0 <=> opts.keys /\ Port!Verify("ts", seen, NoPredecessor) = "valid"
        /\ level > 1 => \E i \in DOMAIN e.sigs : e.sigs[i].kid \in opts.attested
        /\ level = 3 => opts.anchor /\ tokens # <<>>
        /\ \A client \in {"stub", "tsa", "late"} :
              Rung!AssuranceLevel(e, Rung!TimestampReceipt(tokens, client), opts)
                = IF level = 2 /\ opts.anchor /\ client # "late" THEN 3 ELSE level
        /\ ~Port!Broken(e) => /\ more >= level
                              /\ level = 0 /\ more > 0 => s.good /\ s.kid \in Keys
                              /\ level = 1 /\ more > 1 => s.kid \in opts.attested

(* A receipt's level is earned: above 0 exactly when it verifies with the  *)
(* caller's keys, 2 only with an attested key, 3 only with a token and a   *)
(* verified anchor.  A token that is added lifts level 2 to 3 for a caller *)
(* that verified it, and changes no other; a signature that is added never *)
(* lowers the level, and lifts it only if it is good or attested.          *)
(*                                                                         *)
(* These are the levels of assuranceLevel and of the comment above it      *)
(* (assurance.ts:46-51).  The header of the file gives them other contents *)
(* (13-17): "L1 + the policy that applied is recorded + a timestamp" for   *)
(* 2, "rules checked and passed, or an external proof bound" for 3.  The   *)
(* code looks at neither policies nor rules for a level, and a level 2     *)
(* needs no timestamp: what is shown here says nothing of that reading.    *)
LadderIsEarned ==
    topic = "envelope" /\ Len(input) = 1 =>
        \A tokens \in {<<>>, <<"own">>, <<"der">>, <<"own", "other">>}, opts \in LadderOptions :
            \A s \in SignatureItems : LevelIsEarned(input[1], tokens, opts, s)

(* What a decision may have been made of.                                  *)
Facts ==
    {<<>>, [score |-> [text |-> "5", num |-> 5]],
     [score |-> [text |-> "4", num |-> 4], region |-> [text |-> "EU", num |-> NotANumber]]}

Opposites == {<<">=", "<">>, <<"<=", ">">>, <<"==", "!=">>}

(* A list of rules by its members, and a comparison by its opposite.       *)
RuleIsDecided(rules, values, f, opposite, text, num) ==
    LET Verified(list) == Rung!CheckRules(list, values).status = "verified"
        Passes(op) == Verified(<<[form |-> Rung!NoExpression, expression |-> Comparison(f, op, text, num)]>>)
        decided    == \/ /\ f \in DOMAIN values
                         /\ opposite[1] = "==" \/ NotANumber \notin {values[f].num, num}
                      \/ f \in Inherited \ DOMAIN values /\ opposite[1] = "=="
    IN  /\ Verified(rules) <=> rules # <<>> /\ \A i \in DOMAIN rules : Verified(<<rules[i]>>)
        /\ Cardinality({op \in {opposite[1], opposite[2]} : Passes(op)}) = IF decided THEN 1 ELSE 0

(* A decision is verified exactly when there are rules and each of them    *)
(* alone would be; and of a comparison and its opposite exactly one holds, *)
(* unless its value is missing or an order is asked of what is no number:  *)
(* then neither does, so that nothing is verified for want of data.  The   *)
(* exception is a missing value whose name every object has, constructor or*)
(* toString: `field in values` (assurance.ts:154) finds what the object    *)
(* inherits, and compares its text, so that a "!=" passes.                 *)
RulesAreDecided ==
    topic = "rules" =>
        \A values \in Facts, f \in {"score", "region", "toString"}, opposite \in Opposites,
           literal \in {<<"5", 5>>, <<"5", NotANumber>>, <<"EU", NotANumber>>} :
            RuleIsDecided(input, values, f, opposite, literal[1], literal[2])

(* What is put before an auditor is what was verified: the evidence pack,  *)
(* the assurance level and the rules.                                      *)
EvidenceIsExact == PackIsExact /\ LadderIsEarned /\ RulesAreDecided

(* TypeScript confirms the hash of whatever Python signs, however large the *)
(* integers of the event: "Receipts signed here verify with the TS verifier *)
(* and vice versa" (python-sdk/src/askledger/receipts/receipt.py:2-3).      *)
PythonVerifiesInTS ==
    topic = "number" =>
        Form!HashMatches("python", IntegerOf(input), "ts", Form!Wire("python", IntegerOf(input)))
=============================================================================

------------------------------ MODULE CostAdvisor ------------------------------
(***************************************************************************)
(* The advising half of src/cost: the planner/executor cascade and its     *)
(* cost, the savings ledger, the budget decision, the recommendations, the *)
(* carbon roll-up.  Probabilities and ratios are fractions of 100.         *)
(***************************************************************************)
EXTENDS CostReport

CONSTANTS Planners, Executors,  \* DEFAULT_PLANNERS and DEFAULT_EXECUTORS
          CacheRead,            \* price of a cached token, where there is one
          Premium, CheaperAlt,
          SmallInput, MinRuns, MinCalls, MinCacheCalls, \* 200, 20, 50, 100
          Energy                \* Wh and grid grams per model with a profile

AdvisorAssumption ==
    /\ DOMAIN Planners = DOMAIN Executors
    /\ Premium \subseteq DOMAIN Price /\ DOMAIN Energy \subseteq DOMAIN Price
-----------------------------------------------------------------------------
(* costUsd with the cached tokens that are billed where a price exists     *)
UsageCost(m, u) ==
    Cost(m, u.in, u.out) + (IF m \in DOMAIN CacheRead THEN u.cached * CacheRead[m] ELSE 0)

(* chooseCascade: risky or small tasks run on the executor throughout.     *)
ChooseCascade(rule) ==
    [planner  |-> IF rule.risk = "high" \/ rule.tokens < SmallInput
                  THEN Executors[rule.intent] ELSE Planners[rule.intent],
     executor |-> Executors[rule.intent]]

NoUsage == [in |-> 0, out |-> 0, cached |-> 0]

(* Mutant: cached tokens, which are billed, are left out of the sum.       *)
PlusUsageUncached(u, v) == [in |-> u.in + v.in, out |-> u.out + v.out, cached |-> 0]

PlusUsage(u, v) == [in |-> u.in + v.in, out |-> u.out + v.out, cached |-> u.cached + v.cached]

(* runCost: the stages at their own prices against both at the executor's; *)
(* the saving may be a loss.                                               *)
RunCost(run) ==
    LET executed == IF run.approved THEN UsageCost(run.executorModel, run.executorUsage) ELSE 0
        total    == UsageCost(run.plannerModel, run.plannerUsage) + executed
        used     == PlusUsage(run.plannerUsage, IF run.approved THEN run.executorUsage ELSE NoUsage)
        baseline == UsageCost(run.choice.executor, used)
    IN  [total |-> total, baseline |-> baseline, savings |-> baseline - total]

(* recordCascade                                                           *)
LedgerEntry(run, ts) ==
    [ts |-> ts, intent |-> run.rule.intent, approved |-> run.approved] @@ RunCost(run)

(* rollup of the entries since a moment                                    *)
Rollup(entries, since) ==
    LET es == SelectSeq(entries, LAMBDA e : e.ts >= since)
        Of(i) == SelectSeq(es, LAMBDA e : e.intent = i)
    IN  [count    |-> Len(es),
         approved |-> Len(SelectSeq(es, LAMBDA e : e.approved)),
         spent    |-> SumOver(es, LAMBDA e : e.total),
         baseline |-> SumOver(es, LAMBDA e : e.baseline),
         savings  |-> SumOver(es, LAMBDA e : e.savings),
         byIntent |-> [i \in {es[j].intent : j \in DOMAIN es} |->
                         [count |-> Len(Of(i)), savings |-> SumOver(Of(i), LAMBDA e : e.savings)]]]
-----------------------------------------------------------------------------
(* Mutant: the call that is about to be made does not count.               *)
DecideOnSpent(limits, spent, pending) ==
    IF spent * 100 >= limits.deny * limits.monthly THEN "deny" ELSE "allow"

(* decide: the strictest threshold that spent + pending reaches; with no   *)
(* budget at all the ratio is 1.                                           *)
Decide(limits, spent, pending) ==
    LET Reached(pct) == IF limits.monthly = 0 THEN 100 >= pct
                        ELSE (spent + pending) * 100 >= pct * limits.monthly
    IN  IF Reached(limits.deny) THEN "deny"
        ELSE IF Reached(limits.throttle) THEN "throttle"
        ELSE IF Reached(limits.warn) THEN "warn" ELSE "allow"

RemainingBudget(limits, spent, pending) ==
    IF limits.monthly > spent + pending THEN limits.monthly - spent - pending ELSE 0
-----------------------------------------------------------------------------
(* aggregate: samples of one use case and model                            *)
Aggregate(samples) ==
    LET Key(s) == [use |-> s.use, model |-> s.model]
        Agg(ss) == [count |-> Len(ss), in |-> SumOver(ss, LAMBDA s : s.in),
                    out |-> SumOver(ss, LAMBDA s : s.out),
                    runs |-> Len(SelectSeq(ss, LAMBDA s : s.cascade # "none")),
                    approvals |-> Len(SelectSeq(ss, LAMBDA s : s.cascade = "approved")),
                    hits |-> Len(SelectSeq(ss, LAMBDA s : s.hit))]
    IN  [k \in {Key(samples[i]) : i \in DOMAIN samples} |->
           Agg(SelectSeq(samples, LAMBDA s : Key(s) = k))]

HasAlt(m) == m \in Premium /\ m \in DOMAIN CheaperAlt /\ Priced(CheaperAlt[m])

(* Mutant: the planner is charged only on the calls it satisfies.          *)
CascadeSavingTwiceOptimistic(spend, alt) == 2 * spend - alt - spend

(* Twice the saving of a cascade in which half the calls escalate: the     *)
(* planner on every call, the executor on half of them.                    *)
CascadeSavingTwice(spend, alt) == 2 * spend - 2 * alt - spend

(* recommend, per period; amounts are doubled to stay integers.            *)
Recommend(samples) ==
    LET ags      == Aggregate(samples)
        Spend(k) == Cost(k.model, ags[k].in, ags[k].out)
        Alt(k)   == Cost(CheaperAlt[k.model], ags[k].in, ags[k].out)
        spending == {k \in DOMAIN ags : Spend(k) # 0}
        cheaper  == {k \in spending : HasAlt(k.model) /\ ags[k].runs >= MinRuns
                                      /\ ags[k].approvals * 100 >= 80 * ags[k].runs}
        cascade  == {k \in spending : HasAlt(k.model) /\ ags[k].runs = 0 /\ ags[k].count >= MinCalls
                                      /\ CascadeSavingTwice(Spend(k), Alt(k)) > 0}
        cache    == {k \in spending : ags[k].count >= MinCacheCalls
                                      /\ ags[k].hits * 100 < 5 * ags[k].count}
    IN  {[kind |-> "use_cheaper_model", for |-> k, twice |-> 2 * (Spend(k) - Alt(k))] : k \in cheaper}
          \cup {[kind |-> "enable_cascade", for |-> k,
                 twice |-> CascadeSavingTwice(Spend(k), Alt(k))] : k \in cascade}
          \cup {[kind |-> "enable_dedup_cache", for |-> k, twice |-> 0] : k \in cache}
-----------------------------------------------------------------------------
(* rollupCarbon: raw figures are summed and rounded once (to a unit).      *)
RollupCarbon(events, unit) ==
    Round(SumOver(events, LAMBDA e : IF e.model \in DOMAIN Energy
                                     THEN e.tokens * Energy[e.model].wh * Energy[e.model].grid
                                     ELSE 0), unit)
=============================================================================

------------------------------ MODULE ReceiptQuery ------------------------------
(***************************************************************************)
(* Questions about a ledger (src/query): the parser of a question, the     *)
(* model-assisted parser merged with it, the execution of the query, and   *)
(* the alert rules.  A question is the set of phrases the parser's         *)
(* patterns look for, an amount and a number of days; a receipt is the     *)
(* dashboard's (CostReport) with its decision, data class and day.         *)
(***************************************************************************)
EXTENDS CostReport

CONSTANTS SpikeFactor,  \* 3, the cost of a day against the median day
          SpikeFloor,   \* $0.01, which a spike exceeds
          PartOf,       \* <<part, name>>: a model name inside another
          LowerCase,    \* toLowerCase of the application names
          Unset         \* a filter key that is absent
-----------------------------------------------------------------------------
(* flattenReceipt: the row of a receipt, with its cost and tokens          *)
Flatten(r) ==
    r @@ [cost   |-> IF r.model = "none" THEN 0 ELSE Cost(r.model, r.in, r.out),
          tokens |-> r.in + r.out,
          priced |-> r.model # "none" /\ Priced(r.model)]

Rows(receipts) == [i \in DOMAIN receipts |-> Flatten(receipts[i])]

Sensitive(row) == row.class \in {"pii", "pci", "mnpi"}

FilterKeys == {"model", "app", "decision", "env", "since", "until", "minCost", "maxCost",
               "minTokens", "sensitive", "evidence", "signed"}

NoFilter == [k \in FilterKeys |-> Unset]

(* matches: every key that is set holds.  A model is matched by a part of  *)
(* its name, an app by its name in lower case (so are event types and the  *)
(* free text); a vendor is part of the model's name here.                  *)
Matches(row, f) ==
    /\ f.model = Unset    \/ f.model = row.model \/ <<f.model, row.model>> \in PartOf
    /\ f.app = Unset      \/ f.app = LowerCase[row.app]
    /\ f.decision = Unset \/ f.decision = row.decision
    /\ f.env = Unset      \/ f.env = row.env
    /\ f.since = Unset    \/ f.since <= row.at
    /\ f.until = Unset    \/ row.at <= f.until
    /\ f.minCost = Unset  \/ f.minCost <= row.cost
    /\ f.maxCost = Unset  \/ row.cost <= f.maxCost
    /\ f.minTokens = Unset \/ f.minTokens <= row.tokens
    /\ f.evidence = Unset \/ f.evidence = row.evidence
    /\ f.signed = Unset   \/ f.signed = row.signed
    /\ f.sensitive = TRUE => Sensitive(row)
-----------------------------------------------------------------------------
(* parseRelativeSince: whole days back from now, none for other phrases    *)
RelativeSince(said, days, now) ==
    IF "today" \in said THEN now - 1
    ELSE IF "last week" \in said THEN now - 7
    ELSE IF "last month" \in said THEN now - 30
    ELSE IF "last n days" \in said THEN now - days
    ELSE Unset

(* Mutant: an amount is a threshold whatever the question is about.       *)
AmountOf(said, phrase, amount) == IF phrase \in said THEN amount ELSE Unset

(* amountAt: a cost threshold only in a question about money, and not when *)
(* the word tokens follows the number.                                     *)
CostAmount(said, phrase, amount) ==
    IF phrase \in said /\ "cost" \in said /\ "n tokens" \notin said THEN amount ELSE Unset

FirstSaid(said, pairs) ==
    LET found == SelectSeq(pairs, LAMBDA p : p[1] \in said)
    IN  IF found = <<>> THEN Unset ELSE found[1][2]

AtLeastOne(n) == IF n > 1 THEN n ELSE 1

(* parseQuery: later patterns override earlier ones.  A limit is read from *)
(* "top n" and from "last n", which the phrase "last n days" contains.     *)
ParseQuery(said, amount, days, now) ==
    LET groupBy == FirstSaid(said, <<<<"by model", "model">>, <<"by app", "app">>,
                                     <<"by decision", "decision">>, <<"by day", "day">>>>)
        intent  == IF groupBy # Unset \/ "total" \in said THEN "aggregate"
                   ELSE IF "how many" \in said THEN "count" ELSE "list"
    IN  [intent  |-> intent,
         metric  |-> IF "cost" \in said THEN "cost" ELSE IF "tokens" \in said THEN "tokens" ELSE "count",
         groupBy |-> groupBy,
         limit   |-> IF "last n days" \in said THEN AtLeastOne(days)
                     ELSE IF "top n" \in said THEN AtLeastOne(amount)
                     ELSE IF intent = "list" THEN 20 ELSE 50,
         wantsAlerts |-> "problems" \in said,
         filter  |-> [NoFilter EXCEPT
            !.model     = FirstSaid(said, <<<<"opus", "opus">>, <<"mini", "gpt-5-mini">>, <<"gpt-5", "gpt-5">>>>),
            !.decision  = FirstSaid(said, <<<<"denied", "block">>, <<"flagged", "flag">>,
                                            <<"pending", "require-approval">>, <<"approved", "allow">>>>),
            !.sensitive = IF "pii" \in said THEN TRUE ELSE Unset,
            !.evidence  = FirstSaid(said, <<<<"no evidence", FALSE>>, <<"with evidence", TRUE>>>>),
            !.signed    = IF "unsigned" \in said THEN FALSE ELSE Unset,
            !.env       = FirstSaid(said, <<<<"production", "production">>, <<"staging", "staging">>>>),
            !.minCost   = CostAmount(said, "over n", amount),
            !.maxCost   = CostAmount(said, "under n", amount),
            !.minTokens = IF {"over n", "n tokens"} \subseteq said THEN amount ELSE Unset,
            !.since     = RelativeSince(said, days, now)]]

(* Mutant: the model's filter takes the place of the parser's.             *)
CoerceReplacing(base, raw) == [base EXCEPT !.filter = raw.filter]

(* coerce: the well-formed keys of a model's answer override the parser's; *)
(* a malformed one is Unset here and dropped, the limit is clamped.        *)
Coerce(base, raw) ==
    LET Take(new, old) == IF new = Unset THEN old ELSE new
        Clamp(n) == IF n < 1 THEN 1 ELSE IF n > 500 THEN 500 ELSE n
    IN  [base EXCEPT
           !.intent  = Take(raw.intent, @), !.metric = Take(raw.metric, @),
           !.groupBy = Take(raw.groupBy, @),
           !.limit   = IF raw.limit = Unset THEN @ ELSE Clamp(raw.limit),
           !.filter  = [k \in FilterKeys |-> Take(raw.filter[k], @[k])]]

(* parseQueryLLM: an answer without a JSON object leaves the offline parse.*)
ParseQueryLLM(base, answer) == IF answer.parses THEN Coerce(base, answer.json) ELSE base
-----------------------------------------------------------------------------
MetricOf(row, metric) ==
    IF metric = "cost" THEN row.cost ELSE IF metric = "tokens" THEN row.tokens ELSE 1

(* groupKey                                                                *)
KeyOf(row, by) ==
    CASE by = "model" -> row.model [] by = "app" -> row.app
      [] by = "decision" -> row.decision [] by = "day" -> row.at

(* Mutant: the caveat looks at every row, not at the matching ones.        *)
UnpricedOfAll(rows, f) == SelectSeq(rows, LAMBDA r : r.model # "none" /\ ~r.priced)

UnpricedHits(rows, f) ==
    SelectSeq(rows, LAMBDA r : Matches(r, f) /\ r.model # "none" /\ ~r.priced)

(* runQuery: the groups are cut to the limit, the greatest first.          *)
RunQuery(receipts, q) ==
    LET rows    == Rows(receipts)
        hits    == SelectSeq(rows, LAMBDA r : Matches(r, q.filter))
        Value(rs) == SumOver(rs, LAMBDA r : MetricOf(r, q.metric))
        all     == [k \in {KeyOf(hits[i], q.groupBy) : i \in DOMAIN hits} |->
                      Value(SelectSeq(hits, LAMBDA r : KeyOf(r, q.groupBy) = k))]
        order   == SetToSortSeq(DOMAIN all, LAMBDA a, b : all[a] > all[b])
        kept    == {order[i] : i \in {j \in DOMAIN order : j <= q.limit}}
        grouped == q.intent = "aggregate" /\ q.groupBy # Unset
    IN  [matched |-> Len(hits), scanned |-> Len(rows),
         groups  |-> IF grouped THEN [k \in kept |-> all[k]] ELSE <<>>,
         value   |-> IF grouped THEN 0 ELSE IF q.intent = "count" THEN Len(hits) ELSE Value(hits),
         caveat  |-> /\ q.intent = "aggregate" /\ q.metric = "cost"
                     /\ UnpricedHits(rows, q.filter) # <<>>]
-----------------------------------------------------------------------------
(* DEFAULT_RULES: the rows each rule matches                               *)
BlockedRows(rows)   == SelectSeq(rows, LAMBDA r : r.decision = "block")
SensitiveRows(rows) == SelectSeq(rows, Sensitive)
UnsignedRows(rows)  == SelectSeq(rows, LAMBDA r : ~r.signed)
UnboundRows(rows)   == SelectSeq(rows, LAMBDA r : r.decision \in {"block", "require-approval"}
                                                  /\ ~r.evidence)
PendingRows(rows)   == SelectSeq(rows, LAMBDA r : r.decision \in {"flag", "require-approval"})

(* over-tiering: the rows of the workloads the dashboard suggests to move; *)
(* model and app, so that receipts with a decision are among them.         *)
OverTieredRows(receipts) ==
    LET found   == SummarizeReceipts(receipts).suggestions
        top     == CHOOSE s \in found : \A o \in found :
                      IF s.confidence = o.confidence THEN s.estSavings >= o.estSavings
                      ELSE s.confidence = "high"
        matched == SelectSeq(Rows(receipts), LAMBDA r :
                      \E s \in found : s.group.model = r.model /\ s.group.app = r.app)
    IN  IF found = {} \/ matched # <<>> THEN matched
        ELSE SelectSeq(Rows(receipts), LAMBDA r :
                r.model = top.group.model \/ <<r.model, top.group.model>> \in PartOf)

(* cost-spike: the first day above SpikeFactor medians and SpikeFloor, of  *)
(* at least three                                                          *)
SpikeRows(rows) ==
    LET days   == SetToSortSeq({rows[i].at : i \in DOMAIN rows}, <)
        Of(d)  == SelectSeq(rows, LAMBDA r : r.at = d)
        cost   == [d \in ToSet(days) |-> SumOver(Of(d), LAMBDA r : r.cost)]
        sorted == SortSeq([i \in DOMAIN days |-> cost[days[i]]], <)
        median == sorted[(Len(sorted) \div 2) + 1]
        spikes == SelectSeq(days, LAMBDA d :
                     median > 0 /\ cost[d] > SpikeFactor * median /\ cost[d] > SpikeFloor)
    IN  IF Len(days) < 3 \/ spikes = <<>> THEN <<>> ELSE Of(spikes[1])

(* runAlerts: every rule that matches something, with its severity         *)
RunAlerts(receipts) ==
    LET rows == Rows(receipts)
        Alert(id, severity, matched) ==
            IF matched = <<>> THEN {}
            ELSE {[id |-> id, severity |-> severity, count |-> Len(matched)]}
    IN  Alert("blocked-decisions", "high", BlockedRows(rows))
          \cup Alert("sensitive-data", "high", SensitiveRows(rows))
          \cup Alert("unsigned-receipts", "high", UnsignedRows(rows))
          \cup Alert("high-stakes-no-evidence", "medium", UnboundRows(rows))
          \cup Alert("flagged-and-pending", "medium", PendingRows(rows))
          \cup Alert("over-tiering", "medium", OverTieredRows(receipts))
          \cup Alert("cost-spike", "medium", SpikeRows(rows))
=============================================================================

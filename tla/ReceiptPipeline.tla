--------------------------- MODULE ReceiptPipeline ---------------------------
(***************************************************************************)
(* runPipeline (src/workflows/receipt-pipeline.ts): capture, policy, sign, *)
(* timestamp, persist, notify - several runs at once in one process, for   *)
(* one tenant, on the file chain of signReceipt, which is atomic within a  *)
(* process.  The policy client signs a decision receipt of its own on the  *)
(* same chain (src/zta/opa-client.ts).                                     *)
(*                                                                         *)
(* A run's state machine state is its control state: every `await          *)
(* sm.transition` lets other runs go on.                                   *)
(***************************************************************************)
EXTENDS Integers, Sequences, FiniteSets

CONSTANTS Runs,
          Options       \* sets of configured options a run may have, of
                        \* {"policy", "tsa", "store", "notify"}

PipelineAssumption ==
    Options \subseteq SUBSET {"policy", "tsa", "store", "notify"}

VARIABLES
    opts,       \* opts[p]: what the run is configured with
    state,      \* state[p]: sm.state
    trace,      \* trace[p]: the states entered (sm.log)
    returned,   \* returned[p]: runPipeline has returned a result
    verdict,    \* verdict[p]: decision.decision, "none" without a policy
    chain,      \* the tenant's receipts in height order: [run, kind]
    token,      \* token[p]: the receipt carries its RFC 3161 token
    stored      \* history: what store() wrote, as [run, token]

vars == <<opts, state, trace, returned, verdict, chain, token, stored>>
-----------------------------------------------------------------------------
(* Mutant: the edge a failing TSA needs is missing.                        *)
FailingNoTsa == {"policy_evaluating", "signing", "persisting", "notifying"}

(* The states TRANSITIONS leads to "failed" from.                          *)
Failing == {"policy_evaluating", "signing", "timestamping", "persisting", "notifying"}

(* TRANSITIONS                                                             *)
Transitions ==
    {<<"captured", "policy_evaluating">>, <<"captured", "signing">>,
     <<"policy_evaluating", "policy_decided">>, <<"policy_decided", "signing">>,
     <<"signing", "signed">>, <<"signed", "timestamping">>, <<"signed", "persisting">>,
     <<"timestamping", "timestamped">>, <<"timestamped", "persisting">>,
     <<"persisting", "persisted">>, <<"persisting", "persist_skipped">>,
     <<"persist_skipped", "notifying">>, <<"persist_skipped", "done">>,
     <<"persisted", "notifying">>, <<"persisted", "done">>, <<"notifying", "done">>}
    \cup (Failing \X {"failed"})

Init ==
    /\ opts     \in [Runs -> Options]
    /\ state    = [p \in Runs |-> "captured"]
    /\ trace    = [p \in Runs |-> {"captured"}]
    /\ returned = [p \in Runs |-> FALSE]
    /\ verdict  = [p \in Runs |-> "none"]
    /\ chain    = <<>>
    /\ token    = [p \in Runs |-> FALSE]
    /\ stored   = {}

Enters(p, to) == /\ state' = [state EXCEPT ![p] = to]
                 /\ trace' = [trace EXCEPT ![p] = @ \cup {to}]

(* The catch block: transition to failed if the table allows, and return.  *)
Catches(p, from) ==
    /\ state[p] = from /\ ~returned[p]
    /\ IF <<from, "failed">> \in Transitions
       THEN Enters(p, "failed")
       ELSE UNCHANGED <<state, trace>>
    /\ returned' = [returned EXCEPT ![p] = TRUE]

(* transition `to` and carry on; one the table lacks throws.               *)
Moves(p, from, to) ==
    IF <<from, to>> \in Transitions
    THEN /\ state[p] = from /\ ~returned[p]
         /\ Enters(p, to)
         /\ returned' = [returned EXCEPT ![p] = to = "done"]
    ELSE Catches(p, from)
-----------------------------------------------------------------------------
(* 1. Policy                                                               *)
Start(p) ==
    /\ Moves(p, "captured", IF "policy" \in opts[p] THEN "policy_evaluating" ELSE "signing")
    /\ UNCHANGED <<opts, verdict, chain, token, stored>>

(* decide() signs the decision receipt; a failure to do so is swallowed.   *)
DecisionReceipt(p) == \/ chain' = Append(chain, [run |-> p, kind |-> "decision"])
                      \/ UNCHANGED chain

PolicyAllows(p) ==
    /\ Moves(p, "policy_evaluating", "policy_decided")
    /\ verdict' = [verdict EXCEPT ![p] = "allow"]
    /\ DecisionReceipt(p)
    /\ UNCHANGED <<opts, token, stored>>

(* Mutant: a denial is noted but does not end the run.                     *)
PolicyDeniesGoesOn(p) ==
    /\ Moves(p, "policy_evaluating", "policy_decided")
    /\ verdict' = [verdict EXCEPT ![p] = "block"]
    /\ DecisionReceipt(p)
    /\ UNCHANGED <<opts, token, stored>>

PolicyDenies(p) ==
    /\ Catches(p, "policy_evaluating")
    /\ verdict' = [verdict EXCEPT ![p] = "block"]
    /\ DecisionReceipt(p)
    /\ UNCHANGED <<opts, token, stored>>

Decided(p) ==
    /\ Moves(p, "policy_decided", "signing")
    /\ UNCHANGED <<opts, verdict, chain, token, stored>>

(* 2. Sign: signReceipt appends to the chain.                              *)
Sign(p) ==
    /\ Moves(p, "signing", "signed")
    /\ chain' = Append(chain, [run |-> p, kind |-> "event"])
    /\ UNCHANGED <<opts, verdict, token, stored>>

(* Mutant: timestamping is put off until after the receipt is stored.      *)
AfterSigningPersistFirst(p) ==
    /\ Moves(p, "signed", "persisting")
    /\ UNCHANGED <<opts, verdict, chain, token, stored>>

(* 3. Timestamp, or skip                                                   *)
AfterSigning(p) ==
    /\ Moves(p, "signed", IF "tsa" \in opts[p] THEN "timestamping" ELSE "persisting")
    /\ UNCHANGED <<opts, verdict, chain, token, stored>>

Timestamp(p) ==
    /\ Moves(p, "timestamping", "timestamped")
    /\ token' = [token EXCEPT ![p] = TRUE]
    /\ UNCHANGED <<opts, verdict, chain, stored>>

Timestamped(p) ==
    /\ Moves(p, "timestamped", "persisting")
    /\ UNCHANGED <<opts, verdict, chain, token, stored>>

(* 4. Persist, or say that nothing was                                     *)
Writes(p) == stored' = stored \cup {[run |-> p, token |-> token[p]]}

Persist(p) ==
    /\ "store" \in opts[p]
    /\ Moves(p, "persisting", "persisted")
    /\ Writes(p)
    /\ UNCHANGED <<opts, verdict, chain, token>>

PersistSkipped(p) ==
    /\ "store" \notin opts[p]
    /\ Moves(p, "persisting", "persist_skipped")
    /\ UNCHANGED <<opts, verdict, chain, token, stored>>

(* Mutant: without a notifier the run is not taken to done.                *)
AfterPersistingNotifyOnly(p) ==
    /\ "notify" \in opts[p]
    /\ \E from \in {"persisted", "persist_skipped"} : Moves(p, from, "notifying")
    /\ UNCHANGED <<opts, verdict, chain, token, stored>>

(* 5. Notify, or skip                                                      *)
AfterPersisting(p) ==
    /\ \E from \in {"persisted", "persist_skipped"} :
          Moves(p, from, IF "notify" \in opts[p] THEN "notifying" ELSE "done")
    /\ UNCHANGED <<opts, verdict, chain, token, stored>>

Notify(p) ==
    /\ Moves(p, "notifying", "done")
    /\ UNCHANGED <<opts, verdict, chain, token, stored>>

(* An awaited call rejects: the policy engine, signReceipt, the TSA, the   *)
(* notifier.                                                               *)
StepFails(p) ==
    /\ \E from \in {"policy_evaluating", "signing", "timestamping", "notifying"} :
          Catches(p, from)
    /\ UNCHANGED <<opts, verdict, chain, token, stored>>

(* store() rejects, before or after it wrote the receipt.                  *)
StoreFails(p) ==
    /\ "store" \in opts[p]
    /\ Catches(p, "persisting")
    /\ Writes(p) \/ UNCHANGED stored
    /\ UNCHANGED <<opts, verdict, chain, token>>

Step(p) == \/ Start(p) \/ PolicyAllows(p) \/ PolicyDenies(p) \/ Decided(p) \/ Sign(p)
           \/ AfterSigning(p) \/ Timestamp(p) \/ Timestamped(p) \/ Persist(p)
           \/ PersistSkipped(p) \/ AfterPersisting(p) \/ Notify(p)
           \/ StepFails(p) \/ StoreFails(p)

Next == \E p \in Runs : Step(p)

Spec == Init /\ [][Next]_vars

(* Every awaited call resolves or rejects.                                 *)
FairSpec == Spec /\ \A p \in Runs : WF_vars(Step(p))
-----------------------------------------------------------------------------
EventReceipts(p) == {i \in DOMAIN chain : chain[i] = [run |-> p, kind |-> "event"]}

(* "Failures at any step transition to `failed`" (line 12), "never throws":*)
(* a result never reports a state in the middle of the pipeline.           *)
EndsDoneOrFailed == \A p \in Runs : returned[p] => state[p] \in {"done", "failed"}

(* What the audit trace claims happened (lines 37-46): persisted means the *)
(* store has the receipt, with its timestamp token if a TSA is configured. *)
TraceIsTruthful ==
    \A p \in Runs : "persisted" \in trace[p] =>
        \E w \in stored : w.run = p /\ ("tsa" \in opts[p] => w.token)

(* A run puts at most one event receipt on the chain, and none if it was   *)
(* denied; whatever is stored is on the chain.                             *)
ChainHoldsWhatItShould ==
    \A p \in Runs :
        /\ Cardinality(EventReceipts(p)) <= 1
        /\ EventReceipts(p) # {} => "signed" \in trace[p] /\ verdict[p] # "block"
        /\ \A w \in stored : w.run = p => EventReceipts(p) # {}

(* What a run has returned, traced, signed and stored tells one story      *)
(* (receipt-pipeline.ts:113-202).                                          *)
OutcomeIsTruthful == EndsDoneOrFailed /\ TraceIsTruthful /\ ChainHoldsWhatItShould

(* Every run returns.                                                      *)
EveryRunReturns == \A p \in Runs : <>returned[p]
=============================================================================

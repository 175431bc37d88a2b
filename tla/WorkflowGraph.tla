----------------------------- MODULE WorkflowGraph -----------------------------
(***************************************************************************)
(* Rebuilding a workflow from its receipts (src/workflow-graph.ts): the    *)
(* receipts of one workflow and tenant, ordered by their recorded parents  *)
(* with Kahn's algorithm, ties broken by chain height and id, and the      *)
(* verification of the whole.  Receipts come in a sequence, in whatever    *)
(* order they were loaded: [id, wf, tenant, height, parents, sound], where *)
(* sound says that hash, signature and timestamp imprint hold.             *)
(***************************************************************************)
EXTENDS Integers, Sequences, FiniteSets, FiniteSetsExt, SequencesExt

None == "none"

(* The workflow asked for, else that of the first receipt.                 *)
TargetWorkflow(rs, asked) ==
    IF asked.wf # None THEN asked.wf ELSE IF rs = <<>> THEN None ELSE rs[1].wf

(* The tenant asked for, else that of the first receipt of the workflow.   *)
TargetTenant(rs, asked) ==
    LET ofWf == {i \in DOMAIN rs : rs[i].wf = TargetWorkflow(rs, asked)}
    IN  IF asked.tenant # None THEN asked.tenant ELSE IF ofWf = {} THEN None ELSE rs[Min(ofWf)].tenant

(* filter: what a sequence has at some of its places, in order.            *)
Kept(s, places) ==
    LET kept[i \in 0 .. Len(s)] ==
            IF i = 0 THEN <<>> ELSE IF i \in places THEN Append(kept[i - 1], s[i]) ELSE kept[i - 1]
    IN  kept[Len(s)]

(* Mutant: membership is by workflow id alone.                             *)
InRunAnyTenant(rs, asked) == Kept(rs, {i \in DOMAIN rs : rs[i].wf = TargetWorkflow(rs, asked)})

InRun(rs, asked) ==
    LET wf == TargetWorkflow(rs, asked)
        t  == TargetTenant(rs, asked)
    IN  Kept(rs, {i \in DOMAIN rs : rs[i].wf = wf /\ (t = None \/ rs[i].tenant = t)})

Ids(rs) == {rs[i].id : i \in DOMAIN rs}

(* byId: the last receipt of an id                                         *)
ById(rs, id) == rs[Max({i \in DOMAIN rs : rs[i].id = id})]

(* Where a receipt lists parents that are there; a parent may be listed    *)
(* more than once.                                                         *)
PresentParents(rs, id) ==
    LET listed == ById(rs, id).parents IN {j \in DOMAIN listed : listed[j] \in Ids(rs)}

MissingParents(rs) == (UNION {ToSet(rs[i].parents) : i \in DOMAIN rs}) \ Ids(rs)

(* Mutant: ties are left in the order the receipts came in.                *)
FirstReadyAsLoaded(rs, ready) == ready[1]

(* ready.sort(cmp) and shift: least height, then least id                  *)
FirstReady(rs, ready) ==
    CHOOSE a \in ToSet(ready) : \A b \in ToSet(ready) :
        \/ ById(rs, a).height < ById(rs, b).height
        \/ ById(rs, a).height = ById(rs, b).height /\ a <= b

(* The children of id lose one of their missing parents per entry of the   *)
(* run, whatever the number of times they list it; at zero they are ready. *)
Settle(rs, st, id, i) ==
    LET child == rs[i].id
        left  == st.indeg[child] - 1
    IN  IF id \notin ToSet(ById(rs, child).parents) THEN st
        ELSE [st EXCEPT !.indeg[child] = left,
                        !.ready = IF left = 0 THEN Append(@, child) ELSE @]

(* The first ready entry goes from ready to the order.                     *)
Shift(rs, st) ==
    LET id == FirstReady(rs, st.ready)
        at == CHOOSE i \in DOMAIN st.ready : st.ready[i] = id
    IN  [ready |-> RemoveAt(st.ready, at), order |-> Append(st.order, id), indeg |-> st.indeg]

(* One turn of Kahn's loop                                                 *)
KahnTurn(rs, st) ==
    LET id == FirstReady(rs, st.ready)
        settled[i \in 0 .. Len(rs)] ==
            IF i = 0 THEN Shift(rs, st) ELSE Settle(rs, settled[i - 1], id, i)
    IN  IF st.ready = <<>> THEN st ELSE settled[Len(rs)]

(* Before the loop: what lists no parent that is there is ready.           *)
Loaded(rs) ==
    LET indeg == [id \in Ids(rs) |-> Cardinality(PresentParents(rs, id))]
    IN  [ready |-> Kept([i \in DOMAIN rs |-> rs[i].id], {i \in DOMAIN rs : indeg[rs[i].id] = 0}),
         order |-> <<>>, indeg |-> indeg]

(* The loop: a turn takes one of the entries that became ready, at most as *)
(* many as the run has and as many again.                                  *)
Kahn(rs, start) ==
    LET turned[i \in 0 .. 2 * Len(rs)] == IF i = 0 THEN start ELSE KahnTurn(rs, turned[i - 1])
    IN  turned[2 * Len(rs)]

(* reconstructWorkflow                                                     *)
Reconstruct(receipts, asked) ==
    LET rs    == InRun(receipts, asked)
        order == Kahn(rs, Loaded(rs)).order
        isParent(id) == \E i \in DOMAIN rs : id \in ToSet(rs[i].parents)
    IN  [workflow |-> TargetWorkflow(receipts, asked),
         order    |-> order,
         roots    |-> ToSet(Loaded(rs).ready),
         leaves   |-> {id \in Ids(rs) : ~isParent(id)},
         missing  |-> MissingParents(rs),
         acyclic  |-> Len(order) = Len(rs)]

(* verifyWorkflow: a receipt of the workflow from another tenant is kept   *)
(* out of the run, and makes the verification fail.                        *)
VerifyWorkflow(receipts, asked) ==
    LET g       == Reconstruct(receipts, asked)
        t       == TargetTenant(receipts, asked)
        rs      == InRun(receipts, asked)
        foreign == {i \in DOMAIN receipts : receipts[i].wf = g.workflow /\ t # None
                                            /\ receipts[i].tenant # t}
    IN  [valid |-> /\ \A i \in DOMAIN rs : rs[i].sound
                   /\ g.missing = {} /\ g.acyclic
                   /\ \A i \in DOMAIN receipts : receipts[i].wf = g.workflow
                   /\ foreign = {},
         order |-> g.order]
=============================================================================

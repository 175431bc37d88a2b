----------------------------- MODULE MCWorkflows -----------------------------
(***************************************************************************)
(* The workflows of src/workflows: the state machine, with guards and      *)
(* actions that are awaited and may fail, over the approval table; the     *)
(* approval workflow on that machine, which this module extends; the       *)
(* receipt pipeline.  They share no state, so a behaviour exercises the one*)
(* it chooses at the start, and the others stay as they began.             *)
(***************************************************************************)
EXTENDS Approval

CONSTANTS Callers, MaxHistory, Runs,
          States, InitialState, Table,      \* of the state machine
          Options                           \* of the pipeline

VARIABLES
    part,       \* the workflow this behaviour exercises
    machineState, machineHistory, machineQueue, target, phase,
    opts, runState, trace, returned, verdict, chain, token, stored

(* The table of approval.ts, which the runs have the state machine use.    *)
ApprovalTable == {edge \in States \X States : Permitted(edge[1], edge[2])}

Machine  == INSTANCE StateMachine
               WITH state <- machineState, history <- machineHistory, queue <- machineQueue
Pipeline == INSTANCE ReceiptPipeline WITH state <- runState

ASSUME WorkflowsAssumption ==
    Machine!MachineAssumption /\ ApprovalAssumption /\ Pipeline!PipelineAssumption

machineVars  == <<machineState, machineHistory, machineQueue, target, phase>>
pipelineVars == <<opts, runState, trace, returned, verdict, chain, token, stored>>

workflowsVars == <<part, machineVars, vars, pipelineVars>>
-----------------------------------------------------------------------------
(* Only the pipeline looks at the options.                                 *)
WorkflowsInit ==
    /\ part \in {"machine", "approval", "pipeline"}
    /\ Machine!Init /\ Init /\ Pipeline!Init
    /\ part # "pipeline" => opts = [p \in Runs |-> CHOOSE o \in Options : TRUE]

WorkflowsNext ==
    \/ /\ part = "machine" /\ Machine!Next
       /\ UNCHANGED <<part, vars, pipelineVars>>
    \/ /\ part = "approval" /\ Next
       /\ UNCHANGED <<part, machineVars, pipelineVars>>
    \/ /\ part = "pipeline" /\ Pipeline!Next
       /\ UNCHANGED <<part, machineVars, vars>>

WorkflowsSpec == WorkflowsInit /\ [][WorkflowsNext]_workflowsVars

(* The fairness of the workflows' own specifications: awaited calls settle *)
(* and promise callbacks run.  The guard keeps it to the exercised one.    *)
FairWorkflows ==
    /\ WorkflowsSpec
    /\ \A c \in Callers :
          /\ WF_machineVars(part = "machine" /\ Machine!Validate(c))
          /\ WF_machineVars(part = "machine" /\ (Machine!GuardBlocks(c) \/ Machine!GuardPasses(c)))
          /\ WF_machineVars(part = "machine" /\ (Machine!ActionThrows(c) \/ Machine!Commit(c)))
    /\ WF_vars(part = "approval" /\ Turn)
    /\ \A c \in Calls : WF_vars(part = "approval" /\ Continue(c))
    /\ \A p \in Runs : WF_pipelineVars(part = "pipeline" /\ Pipeline!Step(p))
-----------------------------------------------------------------------------
(* State machine: the audit history is a path of the table.                *)
HistoryIsPath == Machine!HistoryIsPath

(* Pipeline: a run ends done or failed, and what its trace says was done   *)
(* is on the chain and in the store.                                       *)
OutcomeIsTruthful == Pipeline!OutcomeIsTruthful

(* Everything started comes to its end: a requested transition settles,    *)
(* whatever fails before it in the queue; a decision that settles a request*)
(* closes it; a pipeline returns.                                          *)
WorkflowsSettle ==
    /\ Machine!EveryTransitionSettles
    /\ DecidedIsClosed
    /\ part = "pipeline" => Pipeline!EveryRunReturns
=============================================================================

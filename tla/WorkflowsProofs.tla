---------------------------- MODULE WorkflowsProofs ---------------------------
(***************************************************************************)
(* Proofs about MCWorkflows: first about the approval workflow it extends, *)
(* for any number of calls, any approvers and any threshold; then that what*)
(* is proved of the state machine alone holds in the composition, for any  *)
(* table; then about the pipeline, for any number of runs and any options. *)
(***************************************************************************)
EXTENDS MCWorkflows, FiniteSetTheorems, TLAPS

Verdicts == {"approved", "rejected", "expired"}

(* The states entered so far are those on the way to the current one.      *)
HistoryFitsState ==
    \/ state = "pending" /\ Len(history) = 0
    \/ state \in Verdicts /\ Len(history) = 1 /\ history[1] = state
    \/ state = "done" /\ Len(history) = 2 /\ history[1] \in Verdicts /\ history[2] = "done"

(* "approved" is asked for only once a quorum is recorded, however long the*)
(* transition then waits behind others.                                    *)
AskedHadQuorumFirst ==
    \A i \in 1..Len(queue) : queue[i].to = "approved" => QuorumFirst(decisions)

IInv == /\ TypeOK
        /\ HistoryFitsState
        /\ AskedHadQuorumFirst
        /\ ApprovedHadQuorumFirst
-----------------------------------------------------------------------------
Decision == [approver : Approvers, decision : {"approve", "reject"}]
Target   == Verdicts \cup {"done"}
Asked    == [call : Calls, to : Target]

(* A later decision takes nothing from an earlier quorum.                  *)
LEMMA QuorumFirstLasts ==
    ASSUME NEW ds \in Seq(Decision), NEW x \in Decision, QuorumFirst(ds)
    PROVE  QuorumFirst(Append(ds, x))
<1>1. PICK n \in 0..Len(ds) : /\ Cardinality(Deciders(SubSeq(ds, 1, n), "approve")) >= Threshold
                              /\ Deciders(SubSeq(ds, 1, n), "reject") = {}
  BY DEF QuorumFirst
<1>2. n \in 0..Len(Append(ds, x))
  OBVIOUS
<1>3. SubSeq(Append(ds, x), 1, n) = SubSeq(ds, 1, n)
  OBVIOUS
<1> QED
  BY <1>1, <1>2, <1>3 DEF QuorumFirst

(* A verdict of approval is reached with a quorum and no rejection.        *)
LEMMA VerdictHasQuorum ==
    ASSUME NEW ds \in Seq(Decision), Verdict(ds) = "approved"
    PROVE  QuorumFirst(ds)
<1>1. Deciders(ds, "reject") = {} /\ Cardinality(Deciders(ds, "approve")) >= Threshold
  BY DEF Verdict
<1>2. SubSeq(ds, 1, Len(ds)) = ds /\ Len(ds) \in 0..Len(ds)
  OBVIOUS
<1> QED
  BY <1>1, <1>2 DEF QuorumFirst

(* Asking for a transition puts it behind those already asked for.         *)
LEMMA AskAppends ==
    ASSUME queue \in Seq(Asked), NEW c \in Calls, NEW to \in Target, Asks(c, to)
    PROVE  /\ queue' \in Seq(Asked)
           /\ Len(queue') = Len(queue) + 1
           /\ \A i \in 1..Len(queue) : queue'[i] = queue[i]
           /\ queue'[Len(queue) + 1].to = to
<1> DEFINE x == [call |-> c, to |-> to]
<1>1. x \in Asked /\ x.to = to
  BY DEF Asked
<1>2. queue' = Append(queue, x)
  BY DEF Asks
<1> HIDE DEF x
<1> QED
  BY <1>1, <1>2

LEMMA AskKeepsQuorum ==
    ASSUME queue \in Seq(Asked), AskedHadQuorumFirst, NEW c \in Calls, NEW to \in Target,
           Asks(c, to), to = "approved" => QuorumFirst(decisions'),
           QuorumFirst(decisions) => QuorumFirst(decisions')
    PROVE  AskedHadQuorumFirst'
<1> SUFFICES ASSUME NEW i \in 1..Len(queue'), queue'[i].to = "approved"
             PROVE  QuorumFirst(decisions')
  BY DEF AskedHadQuorumFirst
<1>1. i \in 1..Len(queue) \/ i = Len(queue) + 1
  BY AskAppends
<1> QED
  BY <1>1, AskAppends DEF AskedHadQuorumFirst

LEMMA InitIInv == Init => IInv
<1> SUFFICES ASSUME Init PROVE IInv
  OBVIOUS
<1>1. TypeOK
  <2>1. /\ history \in Seq({"approved", "rejected", "expired", "done"})
        /\ queue \in Seq([call : Calls, to : {"approved", "rejected", "expired", "done"}])
        /\ decisions \in Seq([approver : Approvers, decision : {"approve", "reject"}])
    BY DEF Init
  <2> QED
    BY <2>1 DEF Init, TypeOK
<1>2. HistoryFitsState /\ AskedHadQuorumFirst /\ ApprovedHadQuorumFirst
  BY DEF Init, HistoryFitsState, AskedHadQuorumFirst, ApprovedHadQuorumFirst, Entered
<1> QED
  BY <1>1, <1>2 DEF IInv

LEMMA TypesOf == TypeOK => queue \in Seq(Asked) /\ decisions \in Seq(Decision)
BY DEF TypeOK, Asked, Target, Verdicts, Decision

LEMMA SubmitKeepsIInv ==
    ASSUME IInv, NEW c \in Calls, NEW a \in Approvers, NEW d \in {"approve", "reject"},
           Submit(c, a, d)
    PROVE  IInv'
<1> USE DEF IInv
<1> DEFINE x == [approver |-> a, decision |-> d]
<1>1. x \in Decision /\ decisions \in Seq(Decision) /\ queue \in Seq(Asked)
  BY TypesOf DEF Decision
<1>2. decisions' = Append(decisions, x) /\ UNCHANGED <<state, history, late>>
  BY DEF Submit
<1> HIDE DEF x
<1>3. decisions' \in Seq(Decision)
  BY <1>1, <1>2
<1>4. QuorumFirst(decisions) => QuorumFirst(decisions')
  BY <1>1, <1>2, QuorumFirstLasts
<1>5. Verdict(decisions') \in {"none", "approved", "rejected"}
  BY DEF Verdict
<1>6. CASE Verdict(decisions') = "none"
  <2>1. UNCHANGED queue /\ Goes(c, "returned")
    BY <1>6 DEF Submit
  <2> QED
    BY <2>1, <1>2, <1>3, <1>4 DEF TypeOK, Decision, Goes, HistoryFitsState, AskedHadQuorumFirst,
       ApprovedHadQuorumFirst, Entered
<1>7. CASE Verdict(decisions') # "none"
  <2>1. Asks(c, Verdict(decisions')) /\ Goes(c, "verdict")
    BY <1>7 DEF Submit
  <2>2. Verdict(decisions') \in Target
    BY <1>5, <1>7 DEF Target, Verdicts
  <2>3. queue' \in Seq(Asked)
    BY <2>1, <2>2, <1>1, AskAppends
  <2>4. AskedHadQuorumFirst'
    BY <2>1, <2>2, <1>1, <1>3, <1>4, AskKeepsQuorum, VerdictHasQuorum
  <2> QED
    BY <2>1, <2>3, <2>4, <1>2, <1>3, <1>4 DEF TypeOK, Decision, Asked, Target, Verdicts, Goes,
       HistoryFitsState, ApprovedHadQuorumFirst, Entered
<1> QED
  BY <1>6, <1>7

(* Asking for another transition than an approval.                         *)
LEMMA AskKeepsIInv ==
    ASSUME IInv, NEW c \in Calls, NEW to \in Target \ {"approved"}, NEW at,
           at \in {"new", "verdict", "decided", "closing", "returned", "threw"},
           Asks(c, to), Goes(c, at), UNCHANGED <<state, history, decisions, late>>
    PROVE  IInv'
<1> USE DEF IInv
<1>1. queue \in Seq(Asked)
  BY TypesOf
<1>2. queue' \in Seq(Asked)
  BY <1>1, AskAppends
<1>3. AskedHadQuorumFirst'
  BY <1>1, AskKeepsQuorum
<1> QED
  BY <1>2, <1>3 DEF TypeOK, Asked, Target, Verdicts, Goes, HistoryFitsState,
     ApprovedHadQuorumFirst, Entered

(* A turn follows the table, and approves only what was asked with a quorum*)
LEMMA TurnKeepsIInv ==
    ASSUME IInv, Turn
    PROVE  IInv'
<1> USE DEF IInv
<1>1. queue \in Seq(Asked) /\ queue # <<>> /\ queue' = Tail(queue)
  BY TypesOf DEF Turn
<1>2. queue[1] \in Asked
  BY <1>1
<1>3. queue[1].call \in Calls /\ queue[1].to \in Target
  BY <1>2 DEF Asked
<1>4. queue' \in Seq(Asked) /\ \A i \in 1..Len(queue') : i + 1 \in 1..Len(queue) /\ queue'[i] = queue[i + 1]
  BY <1>1
<1>5. UNCHANGED <<decisions, late>>
  BY DEF Turn
<1>6. AskedHadQuorumFirst'
  BY <1>4, <1>5 DEF AskedHadQuorumFirst
<1>7. CASE Permitted(state, queue[1].to)
  <2> DEFINE to == queue[1].to
  <2>1. /\ state' = to /\ history' = Append(history, to)
        /\ Goes(queue[1].call, IF to = "done" THEN "returned" ELSE "decided")
    BY <1>7 DEF Turn
  <2>2. to = "approved" => QuorumFirst(decisions)
    BY <1>1 DEF AskedHadQuorumFirst
  <2>3. \/ Len(history) = 0 /\ to \in Verdicts
        \/ Len(history) = 1 /\ history[1] \in Verdicts /\ to = "done"
    BY <1>7 DEF Permitted, HistoryFitsState, Verdicts
  <2> HIDE DEF to
  <2>4. HistoryFitsState' /\ history' \in Seq(Target)
    <3>1. history \in Seq(Target) /\ to \in Target
      BY <2>3 DEF TypeOK, Target, Verdicts
    <3>2. /\ history' \in Seq(Target)
          /\ Len(history') = Len(history) + 1
          /\ \A i \in 1..Len(history) : history'[i] = history[i]
          /\ history'[Len(history) + 1] = to
      BY <2>1, <3>1
    <3> QED
      BY <2>1, <2>3, <3>2 DEF HistoryFitsState
  <2>5. ApprovedHadQuorumFirst'
    <3> SUFFICES ASSUME NEW i \in 1..Len(history'), history'[i] = "approved"
                 PROVE  QuorumFirst(decisions)
      BY <1>5 DEF ApprovedHadQuorumFirst, Entered
    <3>1. i \in 1..Len(history) \/ i = Len(history) + 1
      BY <2>1 DEF TypeOK
    <3>2. CASE i \in 1..Len(history)
      <4>1. history[i] = "approved"
        BY <3>2, <2>1 DEF TypeOK
      <4> QED
        BY <3>2, <4>1 DEF ApprovedHadQuorumFirst, Entered
    <3>3. CASE i = Len(history) + 1
      <4>1. to = "approved"
        BY <3>3, <2>1 DEF TypeOK
      <4> QED
        BY <4>1, <2>2
    <3> QED
      BY <3>1, <3>2, <3>3
  <2>6. to \in Target
    BY <1>3 DEF to
  <2> QED
    BY <2>1, <2>4, <2>5, <2>6, <1>3, <1>4, <1>5, <1>6 DEF TypeOK, Goes, Asked, Target, Verdicts
<1>8. CASE ~Permitted(state, queue[1].to)
  <2>1. Goes(queue[1].call, "threw") /\ UNCHANGED <<state, history>>
    BY <1>8 DEF Turn
  <2> QED
    BY <2>1, <1>3, <1>4, <1>5, <1>6 DEF TypeOK, Goes, Asked, Target, Verdicts, HistoryFitsState,
       ApprovedHadQuorumFirst, Entered
<1> QED
  BY <1>7, <1>8

LEMMA NextKeepsIInv == IInv /\ [Next]_vars => IInv'
<1> SUFFICES ASSUME IInv, [Next]_vars PROVE IInv'
  OBVIOUS
<1> USE DEF Target, Verdicts
<1>1. ASSUME NEW c \in Calls, NEW a \in Approvers \cup Outsiders, SubmitRefused(c, a) PROVE IInv'
  BY <1>1 DEF SubmitRefused, IInv, TypeOK, Goes, HistoryFitsState, AskedHadQuorumFirst,
     ApprovedHadQuorumFirst, Entered
<1>2. ASSUME NEW c \in Calls, SubmitLate(c) PROVE IInv'
  BY <1>2, AskKeepsIInv DEF SubmitLate
<1>3. ASSUME NEW c \in Calls, Expire(c) PROVE IInv'
  <2>1. CASE state = "pending"
    BY <1>3, <2>1, AskKeepsIInv DEF Expire
  <2>2. CASE state # "pending"
    BY <1>3, <2>2 DEF Expire, IInv, TypeOK, Goes, HistoryFitsState, AskedHadQuorumFirst,
       ApprovedHadQuorumFirst, Entered
  <2> QED
    BY <2>1, <2>2
<1>4. ASSUME NEW c \in Calls, Continue(c) PROVE IInv'
  BY <1>4, AskKeepsIInv DEF Continue
<1>5. CASE Deadline
  BY <1>5 DEF Deadline, IInv, TypeOK, HistoryFitsState, AskedHadQuorumFirst,
     ApprovedHadQuorumFirst, Entered
<1>6. CASE UNCHANGED vars
  BY <1>6 DEF vars, IInv, TypeOK, HistoryFitsState, AskedHadQuorumFirst,
     ApprovedHadQuorumFirst, Entered
<1> QED
  BY <1>1, <1>2, <1>3, <1>4, <1>5, <1>6, SubmitKeepsIInv, TurnKeepsIInv DEF Next

LEMMA IInvHasOneVerdict == IInv => OneVerdictThenDone
<1> SUFFICES ASSUME HistoryFitsState PROVE OneVerdictThenDone
  BY DEF IInv
<1>1. CASE Len(history) = 0
  BY <1>1 DEF OneVerdictThenDone
<1>2. CASE Len(history) = 1 /\ history[1] \in Verdicts
  BY <1>2 DEF OneVerdictThenDone, Verdicts
<1>3. CASE Len(history) = 2 /\ history[1] \in Verdicts /\ history[2] = "done"
  BY <1>3 DEF OneVerdictThenDone, Verdicts
<1> QED
  BY <1>1, <1>2, <1>3 DEF HistoryFitsState

(* However many calls of submit and expire race with each other and the    *)
(* deadline, the request gets one verdict, is closed after it, and is      *)
(* approved only if a quorum was recorded before any rejection             *)
(* (approval.ts:67-108).                                                   *)
THEOREM VerdictIsAlwaysSound == Spec => []VerdictIsSound
<1>1. IInv => VerdictIsSound
  BY IInvHasOneVerdict DEF IInv, VerdictIsSound
<1> QED
  BY <1>1, InitIInv, NextKeepsIInv, PTL DEF Spec
-----------------------------------------------------------------------------
(* What is proved of the state machine holds of it in the composition.     *)
MachineProofs == INSTANCE StateMachineProofs
              WITH state <- machineState, history <- machineHistory, queue <- machineQueue

(* A step of the composition is one of the state machine, or none.         *)
LEMMA StepIsMachineStep ==
    [WorkflowsNext]_workflowsVars => [MachineProofs!Next]_MachineProofs!vars
<1>1. [WorkflowsNext]_workflowsVars => [Machine!Next]_machineVars
  BY DEF WorkflowsNext, workflowsVars
<1>2. Machine!Next => MachineProofs!Next
  BY DEF Machine!Next, Machine!Request, Machine!ItsTurn, Machine!Fails,
         Machine!Validate, Machine!GuardBlocks, Machine!GuardPasses,
         Machine!ActionThrows, Machine!Commit, MachineProofs!Next,
         MachineProofs!Request, MachineProofs!ItsTurn, MachineProofs!Fails,
         MachineProofs!Validate, MachineProofs!GuardBlocks,
         MachineProofs!GuardPasses, MachineProofs!ActionThrows,
         MachineProofs!Commit
<1>3. UNCHANGED machineVars => UNCHANGED MachineProofs!vars
  BY DEF machineVars, MachineProofs!vars
<1> QED
  BY <1>1, <1>2, <1>3

(* The state machine in the composition has its history follow its table,  *)
(* while guards and actions are awaited (state-machine.ts:88-120).         *)
THEOREM WorkflowHistoryIsPath == WorkflowsSpec => []HistoryIsPath
<1>1. WorkflowsInit => MachineProofs!Init
  BY DEF WorkflowsInit, Machine!Init, MachineProofs!Init
<1>2. [WorkflowsNext]_workflowsVars => [MachineProofs!Next]_MachineProofs!vars
  BY StepIsMachineStep
<1>3. MachineProofs!Spec => []MachineProofs!HistoryIsPath
  BY WorkflowsAssumption, MachineProofs!HistoryIsAlwaysPath
     DEF Machine!MachineAssumption, MachineProofs!MachineAssumption
<1>4. MachineProofs!HistoryIsPath => HistoryIsPath
  BY DEF HistoryIsPath, MachineProofs!HistoryIsPath, Machine!HistoryIsPath
<1> QED
  BY <1>1, <1>2, <1>3, <1>4, PTL DEF WorkflowsSpec, MachineProofs!Spec

-----------------------------------------------------------------------------
(* The pipeline: what a run has returned, traced, signed and stored tells  *)
(* one story.  The states before the event receipt is on the chain, and    *)
(* after.                                                                  *)
Before == {"captured", "policy_evaluating", "policy_decided", "signing"}
After  == {"signed", "timestamping", "timestamped", "persisting", "persisted",
           "persist_skipped", "notifying", "done"}
ChainEntry  == [run : Runs, kind : {"decision", "event"}]

PipelineType ==
    /\ opts     \in [Runs -> SUBSET {"policy", "tsa", "store", "notify"}]
    /\ runState    \in [Runs -> Before \cup After \cup {"failed"}]
    /\ trace    \in [Runs -> SUBSET (Before \cup After \cup {"failed"})]
    /\ returned \in [Runs -> BOOLEAN]
    /\ verdict  \in [Runs -> {"none", "allow", "block"}]
    /\ chain    \in Seq(ChainEntry)
    /\ token    \in [Runs -> BOOLEAN]
    /\ stored   \subseteq [run : Runs, token : BOOLEAN]

(* One run's part of the property, and what its control state says of the  *)
(* chain, the token and the verdict.                                       *)
RunInv(p) ==
    /\ returned[p] => runState[p] \in {"done", "failed"}
    /\ "persisted" \in trace[p] =>
          \E w \in stored : w.run = p /\ ("tsa" \in opts[p] => w.token)
    /\ \A i, j \in Pipeline!EventReceipts(p) : i = j
    /\ Pipeline!EventReceipts(p) # {} => "signed" \in trace[p] /\ verdict[p] # "block"
    /\ \A w \in stored : w.run = p => Pipeline!EventReceipts(p) # {}
    /\ runState[p] \in Before => Pipeline!EventReceipts(p) = {}
    /\ runState[p] \in After => Pipeline!EventReceipts(p) # {}
    /\ runState[p] = "timestamped" => token[p]
    /\ runState[p] = "persisting" /\ "tsa" \in opts[p] => token[p]
    /\ verdict[p] = "block" => returned[p]

PipelineInv == PipelineType /\ \A p \in Runs : RunInv(p)
-----------------------------------------------------------------------------
(* A transition of the table is taken.                                     *)
LEMMA MovesAlong ==
    ASSUME PipelineType, NEW p \in Runs, NEW from, NEW to, <<from, to>> \in Pipeline!Transitions,
           Pipeline!Moves(p, from, to)
    PROVE  /\ runState[p] = from /\ ~returned[p]
           /\ runState' = [runState EXCEPT ![p] = to] /\ runState'[p] = to
           /\ trace' = [trace EXCEPT ![p] = trace[p] \cup {to}]
           /\ trace'[p] = trace[p] \cup {to}
           /\ returned' = [returned EXCEPT ![p] = to = "done"]
           /\ returned'[p] = (to = "done")
           /\ to # "done" => returned' = returned
<1>1. /\ runState[p] = from /\ ~returned[p]
      /\ runState' = [runState EXCEPT ![p] = to]
      /\ trace' = [trace EXCEPT ![p] = trace[p] \cup {to}]
      /\ returned' = [returned EXCEPT ![p] = to = "done"]
  BY DEF Pipeline!Moves, Pipeline!Enters
<1>2. to # "done" => returned' = returned
  BY <1>1 DEF PipelineType
<1> QED
  BY <1>1, <1>2 DEF PipelineType

(* The catch block ends a run in failed.                                   *)
LEMMA CatchesEnds ==
    ASSUME PipelineType, NEW p \in Runs, NEW from \in Pipeline!Failing, Pipeline!Catches(p, from)
    PROVE  /\ runState[p] = from /\ ~returned[p]
           /\ runState' = [runState EXCEPT ![p] = "failed"] /\ runState'[p] = "failed"
           /\ trace' = [trace EXCEPT ![p] = trace[p] \cup {"failed"}]
           /\ trace'[p] = trace[p] \cup {"failed"}
           /\ returned' = [returned EXCEPT ![p] = TRUE]
           /\ returned'[p] = TRUE
<1>1. <<from, "failed">> \in Pipeline!Transitions
  BY DEF Pipeline!Transitions
<1> QED
  BY <1>1 DEF Pipeline!Catches, Pipeline!Enters, PipelineType

(* The event receipts of a run on a longer chain.                          *)
LEMMA EventsAfterAppend ==
    ASSUME NEW ch \in Seq(ChainEntry), NEW e \in ChainEntry, NEW event \in ChainEntry
    PROVE  LET old == {i \in DOMAIN ch : ch[i] = event}
               new == {i \in DOMAIN Append(ch, e) : Append(ch, e)[i] = event}
           IN  /\ e # event => new = old
               /\ e = event => new = old \cup {Len(ch) + 1}
<1> DEFINE longer == Append(ch, e)
<1>1. DOMAIN ch = 1..Len(ch) /\ Len(ch) \in Nat /\ DOMAIN longer = 1..(Len(ch) + 1)
  OBVIOUS
<1>2. longer[Len(ch) + 1] = e /\ \A i \in 1..Len(ch) : longer[i] = ch[i]
  OBVIOUS
<1> HIDE DEF longer
<1>3. DOMAIN longer = DOMAIN ch \cup {Len(ch) + 1} /\ Len(ch) + 1 \notin DOMAIN ch
  BY <1>1
<1> QED
  BY <1>1, <1>2, <1>3 DEF longer

(* What one run does leaves the others' story as it was.                   *)
LEMMA OthersKeep ==
    ASSUME PipelineType, NEW p \in Runs, NEW q \in Runs \ {p}, RunInv(q),
           opts' = opts, runState'[q] = runState[q], trace'[q] = trace[q],
           returned'[q] = returned[q], verdict'[q] = verdict[q], token'[q] = token[q],
           chain' = chain \/ \E kind \in {"decision", "event"} :
                                chain' = Append(chain, [run |-> p, kind |-> kind]),
           stored \subseteq stored', \A w \in stored' \ stored : w.run = p
    PROVE  RunInv(q)'
<1>1. Pipeline!EventReceipts(q)' = Pipeline!EventReceipts(q)
  <2>1. CASE chain' = chain
    BY <2>1 DEF Pipeline!EventReceipts
  <2>2. ASSUME NEW kind \in {"decision", "event"},
               chain' = Append(chain, [run |-> p, kind |-> kind])
        PROVE  Pipeline!EventReceipts(q)' = Pipeline!EventReceipts(q)
    <3> DEFINE e     == [run |-> p, kind |-> kind]
               event == [run |-> q, kind |-> "event"]
    <3>1. e \in ChainEntry /\ event \in ChainEntry /\ e # event /\ chain \in Seq(ChainEntry)
      <4>1. e.run # event.run
        OBVIOUS
      <4> QED
        BY <4>1 DEF ChainEntry, PipelineType
    <3> HIDE DEF e
    <3>2. chain' = Append(chain, e)
      BY <2>2 DEF e
    <3> QED
      BY <3>1, <3>2, EventsAfterAppend DEF Pipeline!EventReceipts
  <2> QED
    BY <2>1, <2>2
<1>2. \A w \in stored' : w.run = q => w \in stored
  OBVIOUS
<1> QED
  BY <1>1, <1>2 DEF RunInv

(* A run whose step signs and stores nothing.                              *)
LEMMA OwnKept ==
    ASSUME NEW p \in Runs, RunInv(p), opts' = opts, Pipeline!EventReceipts(p)' = Pipeline!EventReceipts(p),
           UNCHANGED <<stored, token>>, verdict'[p] = verdict[p],
           ~returned[p], NEW to, runState'[p] = to, trace'[p] = trace[p] \cup {to},
           to # "persisted", returned'[p] => to \in {"done", "failed"},
           to \in Before => runState[p] \in Before,
           to \in After => runState[p] \in After,
           to = "timestamped" => token[p],
           to = "persisting" /\ "tsa" \in opts[p] => token[p]
    PROVE  RunInv(p)'
<1>1. "persisted" \in trace'[p] => "persisted" \in trace[p]
  OBVIOUS
<1>2. "signed" \in trace[p] => "signed" \in trace'[p]
  OBVIOUS
<1> QED
  BY <1>1, <1>2 DEF RunInv
-----------------------------------------------------------------------------
LEMMA InitPipeline == Pipeline!PipelineAssumption /\ Pipeline!Init => PipelineInv
<1> SUFFICES ASSUME Pipeline!PipelineAssumption, Pipeline!Init PROVE PipelineInv
  OBVIOUS
<1>1. opts \in [Runs -> SUBSET {"policy", "tsa", "store", "notify"}]
  BY DEF Pipeline!Init, Pipeline!PipelineAssumption
<1>2. chain = <<>> /\ chain \in Seq(ChainEntry)
  BY DEF Pipeline!Init
<1>3. PipelineType
  BY <1>1, <1>2 DEF Pipeline!Init, PipelineType, Before
<1>4. ASSUME NEW p \in Runs PROVE RunInv(p)
  <2>1. Pipeline!EventReceipts(p) = {}
    BY <1>2 DEF Pipeline!EventReceipts
  <2>2. /\ runState[p] = "captured" /\ trace[p] = {"captured"} /\ ~returned[p]
        /\ verdict[p] = "none" /\ stored = {}
    BY DEF Pipeline!Init
  <2> QED
    BY <2>1, <2>2 DEF RunInv, After
<1> QED
  BY <1>3, <1>4 DEF PipelineInv
-----------------------------------------------------------------------------
(* A step that only moves along an edge of the table.                      *)
LEMMA PlainMove ==
    ASSUME PipelineInv, NEW p \in Runs, NEW from, NEW to, <<from, to>> \in Pipeline!Transitions,
           Pipeline!Moves(p, from, to), UNCHANGED <<opts, verdict, chain, token, stored>>,
           to # "persisted", to \in Before => from \in Before, to \in After => from \in After,
           to \in Before \cup After,
           to = "timestamped" => token[p],
           to = "persisting" /\ "tsa" \in opts[p] => token[p]
    PROVE  PipelineInv'
<1>1. PipelineType /\ RunInv(p)
  BY DEF PipelineInv
<1>2. /\ runState[p] = from /\ ~returned[p]
      /\ runState' = [runState EXCEPT ![p] = to] /\ runState'[p] = to
      /\ trace' = [trace EXCEPT ![p] = trace[p] \cup {to}]
      /\ trace'[p] = trace[p] \cup {to}
      /\ returned' = [returned EXCEPT ![p] = to = "done"]
      /\ returned'[p] = (to = "done")
  BY <1>1, MovesAlong
<1>3. PipelineType'
  BY <1>1, <1>2 DEF PipelineType
<1>4. Pipeline!EventReceipts(p)' = Pipeline!EventReceipts(p)
  BY DEF Pipeline!EventReceipts
<1>5. RunInv(p)'
  BY <1>1, <1>2, <1>4, OwnKept
<1>6. ASSUME NEW q \in Runs \ {p} PROVE RunInv(q)'
  <2>1. runState'[q] = runState[q] /\ trace'[q] = trace[q] /\ returned'[q] = returned[q]
    BY <1>1, <1>2 DEF PipelineType
  <2>2. RunInv(q)
    BY DEF PipelineInv
  <2> QED
    BY <1>1, <2>1, <2>2, OthersKeep
<1> QED
  BY <1>3, <1>5, <1>6 DEF PipelineInv

(* A step that ends in the catch block and signs nothing for the run.      *)
LEMMA CatchKeeps ==
    ASSUME PipelineInv, NEW p \in Runs, NEW from \in Pipeline!Failing, Pipeline!Catches(p, from),
           UNCHANGED <<opts, token>>,
           \/ verdict' = verdict
           \/ from = "policy_evaluating" /\ verdict' = [verdict EXCEPT ![p] = "block"],
           chain' = chain \/ chain' = Append(chain, [run |-> p, kind |-> "decision"]),
           \/ stored' = stored
           \/ from = "persisting" /\ stored' = stored \cup {[run |-> p, token |-> token[p]]}
    PROVE  PipelineInv'
<1>1. PipelineType /\ RunInv(p)
  BY DEF PipelineInv
<1>2. /\ runState[p] = from /\ ~returned[p]
      /\ runState' = [runState EXCEPT ![p] = "failed"] /\ runState'[p] = "failed"
      /\ trace' = [trace EXCEPT ![p] = trace[p] \cup {"failed"}]
      /\ trace'[p] = trace[p] \cup {"failed"}
      /\ returned' = [returned EXCEPT ![p] = TRUE] /\ returned'[p] = TRUE
  BY <1>1, CatchesEnds
<1>3. PipelineType'
  <2>1. chain' \in Seq(ChainEntry)
    <3>1. [run |-> p, kind |-> "decision"] \in ChainEntry /\ chain \in Seq(ChainEntry)
      BY <1>1 DEF PipelineType, ChainEntry
    <3> QED
      BY <3>1
  <2>2. verdict' \in [Runs -> {"none", "allow", "block"}] /\ stored' \subseteq [run : Runs, token : BOOLEAN]
    BY <1>1 DEF PipelineType
  <2> QED
    BY <1>1, <1>2, <2>1, <2>2 DEF PipelineType
<1>4. Pipeline!EventReceipts(p)' = Pipeline!EventReceipts(p)
  <2>1. CASE chain' = chain
    BY <2>1 DEF Pipeline!EventReceipts
  <2>2. CASE chain' = Append(chain, [run |-> p, kind |-> "decision"])
    <3> DEFINE e     == [run |-> p, kind |-> "decision"]
               event == [run |-> p, kind |-> "event"]
    <3>1. e \in ChainEntry /\ event \in ChainEntry /\ e # event /\ chain \in Seq(ChainEntry)
      <4>1. e.kind # event.kind
        OBVIOUS
      <4> QED
        BY <1>1, <4>1 DEF ChainEntry, PipelineType
    <3> HIDE DEF e
    <3>2. chain' = Append(chain, e)
      BY <2>2 DEF e
    <3> QED
      BY <3>1, <3>2, EventsAfterAppend DEF Pipeline!EventReceipts
  <2> QED
    BY <2>1, <2>2
<1>5. RunInv(p)'
  <2>1. "persisted" \in trace'[p] => "persisted" \in trace[p]
    BY <1>2
  <2>2. "signed" \in trace[p] => "signed" \in trace'[p]
    BY <1>2
  <2>3. Pipeline!EventReceipts(p) # {} => verdict'[p] # "block"
    BY <1>1, <1>2 DEF RunInv, PipelineType, Before
  <2>4. \A w \in stored' : w.run = p => Pipeline!EventReceipts(p) # {}
    BY <1>1, <1>2 DEF RunInv, After
  <2>5. stored \subseteq stored'
    OBVIOUS
  <2>6. "failed" \notin Before \cup After
    BY DEF Before, After
  <2> QED
    BY <1>1, <1>2, <1>4, <2>1, <2>2, <2>3, <2>4, <2>5, <2>6 DEF RunInv
<1>6. ASSUME NEW q \in Runs \ {p} PROVE RunInv(q)'
  <2>1. /\ runState'[q] = runState[q] /\ trace'[q] = trace[q] /\ returned'[q] = returned[q]
        /\ verdict'[q] = verdict[q] /\ token'[q] = token[q]
    BY <1>1, <1>2 DEF PipelineType
  <2>2. RunInv(q)
    BY DEF PipelineInv
  <2>3. stored \subseteq stored' /\ \A w \in stored' \ stored : w.run = p
    OBVIOUS
  <2> QED
    BY <1>1, <2>1, <2>2, <2>3, OthersKeep
<1> QED
  BY <1>3, <1>5, <1>6 DEF PipelineInv
-----------------------------------------------------------------------------
LEMMA PolicyAllowsKeeps ==
    ASSUME PipelineInv, NEW p \in Runs, Pipeline!PolicyAllows(p) PROVE PipelineInv'
<1>0. <<"policy_evaluating", "policy_decided">> \in Pipeline!Transitions
  BY DEF Pipeline!Transitions
<1>1. PipelineType /\ RunInv(p)
  BY DEF PipelineInv
<1>2. /\ runState[p] = "policy_evaluating" /\ ~returned[p]
      /\ runState' = [runState EXCEPT ![p] = "policy_decided"] /\ runState'[p] = "policy_decided"
      /\ trace' = [trace EXCEPT ![p] = trace[p] \cup {"policy_decided"}]
      /\ trace'[p] = trace[p] \cup {"policy_decided"}
      /\ returned' = returned
  BY <1>0, <1>1, MovesAlong DEF Pipeline!PolicyAllows
<1>3. /\ verdict' = [verdict EXCEPT ![p] = "allow"] /\ UNCHANGED <<opts, token, stored>>
      /\ chain' = chain \/ chain' = Append(chain, [run |-> p, kind |-> "decision"])
  BY DEF Pipeline!PolicyAllows, Pipeline!DecisionReceipt
<1>4. PipelineType'
  <2>1. chain' \in Seq(ChainEntry)
    <3>1. [run |-> p, kind |-> "decision"] \in ChainEntry /\ chain \in Seq(ChainEntry)
      BY <1>1 DEF PipelineType, ChainEntry
    <3> QED
      BY <1>3, <3>1
  <2> QED
    BY <1>1, <1>2, <1>3, <2>1 DEF PipelineType, Before
<1>5. Pipeline!EventReceipts(p)' = Pipeline!EventReceipts(p)
  <2>1. CASE chain' = chain
    BY <2>1 DEF Pipeline!EventReceipts
  <2>2. CASE chain' = Append(chain, [run |-> p, kind |-> "decision"])
    <3> DEFINE e     == [run |-> p, kind |-> "decision"]
               event == [run |-> p, kind |-> "event"]
    <3>1. e \in ChainEntry /\ event \in ChainEntry /\ e # event /\ chain \in Seq(ChainEntry)
      <4>1. e.kind # event.kind
        OBVIOUS
      <4> QED
        BY <1>1, <4>1 DEF ChainEntry, PipelineType
    <3> HIDE DEF e
    <3>2. chain' = Append(chain, e)
      BY <2>2 DEF e
    <3> QED
      BY <3>1, <3>2, EventsAfterAppend DEF Pipeline!EventReceipts
  <2> QED
    BY <1>3, <2>1, <2>2
<1>6. RunInv(p)'
  <2>1. verdict'[p] = "allow" /\ Pipeline!EventReceipts(p) = {}
    BY <1>1, <1>2, <1>3 DEF RunInv, PipelineType, Before
  <2>2. "persisted" \in trace'[p] => "persisted" \in trace[p]
    BY <1>2
  <2> QED
    BY <1>1, <1>2, <1>3, <1>5, <2>1, <2>2 DEF RunInv, After
<1>7. ASSUME NEW q \in Runs \ {p} PROVE RunInv(q)'
  <2>1. /\ runState'[q] = runState[q] /\ trace'[q] = trace[q] /\ returned'[q] = returned[q]
        /\ verdict'[q] = verdict[q] /\ token'[q] = token[q]
    BY <1>1, <1>2, <1>3 DEF PipelineType
  <2>2. RunInv(q)
    BY DEF PipelineInv
  <2> QED
    BY <1>1, <1>3, <2>1, <2>2, OthersKeep
<1> QED
  BY <1>4, <1>6, <1>7 DEF PipelineInv

LEMMA SignKeeps ==
    ASSUME PipelineInv, NEW p \in Runs, Pipeline!Sign(p) PROVE PipelineInv'
<1>0. <<"signing", "signed">> \in Pipeline!Transitions
  BY DEF Pipeline!Transitions
<1>1. PipelineType /\ RunInv(p)
  BY DEF PipelineInv
<1>2. /\ runState[p] = "signing" /\ ~returned[p]
      /\ runState' = [runState EXCEPT ![p] = "signed"] /\ runState'[p] = "signed"
      /\ trace' = [trace EXCEPT ![p] = trace[p] \cup {"signed"}]
      /\ trace'[p] = trace[p] \cup {"signed"}
      /\ returned' = returned
  BY <1>0, <1>1, MovesAlong DEF Pipeline!Sign
<1> DEFINE event == [run |-> p, kind |-> "event"]
<1>3. chain' = Append(chain, event) /\ UNCHANGED <<opts, verdict, token, stored>>
  BY DEF Pipeline!Sign
<1>4. event \in ChainEntry /\ chain \in Seq(ChainEntry)
  BY <1>1 DEF ChainEntry, PipelineType
<1>5. PipelineType'
  <2>1. chain' \in Seq(ChainEntry)
    BY <1>3, <1>4
  <2> QED
    BY <1>1, <1>2, <1>3, <2>1 DEF PipelineType, After
<1>6. Pipeline!EventReceipts(p) = {} /\ Pipeline!EventReceipts(p)' = {Len(chain) + 1}
  <2>1. Pipeline!EventReceipts(p) = {}
    BY <1>1, <1>2 DEF RunInv, Before
  <2>2. {i \in DOMAIN Append(chain, event) : Append(chain, event)[i] = event}
            = {i \in DOMAIN chain : chain[i] = event} \cup {Len(chain) + 1}
    BY <1>4, EventsAfterAppend
  <2>3. Pipeline!EventReceipts(p)' = Pipeline!EventReceipts(p) \cup {Len(chain) + 1}
    BY <1>3, <2>2 DEF Pipeline!EventReceipts
  <2> QED
    BY <2>1, <2>3
<1>7. RunInv(p)'
  <2>1. verdict[p] # "block"
    BY <1>1, <1>2 DEF RunInv
  <2>2. "persisted" \in trace'[p] => "persisted" \in trace[p]
    BY <1>2
  <2> QED
    BY <1>1, <1>2, <1>3, <1>6, <2>1, <2>2 DEF RunInv, Before
<1>8. ASSUME NEW q \in Runs \ {p} PROVE RunInv(q)'
  <2>1. /\ runState'[q] = runState[q] /\ trace'[q] = trace[q] /\ returned'[q] = returned[q]
    BY <1>1, <1>2 DEF PipelineType
  <2>2. RunInv(q)
    BY DEF PipelineInv
  <2> QED
    BY <1>1, <1>3, <2>1, <2>2, OthersKeep
<1> QED
  BY <1>5, <1>7, <1>8 DEF PipelineInv

LEMMA TimestampKeeps ==
    ASSUME PipelineInv, NEW p \in Runs, Pipeline!Timestamp(p) PROVE PipelineInv'
<1>0. <<"timestamping", "timestamped">> \in Pipeline!Transitions
  BY DEF Pipeline!Transitions
<1>1. PipelineType /\ RunInv(p)
  BY DEF PipelineInv
<1>2. /\ runState[p] = "timestamping" /\ ~returned[p]
      /\ runState' = [runState EXCEPT ![p] = "timestamped"] /\ runState'[p] = "timestamped"
      /\ trace' = [trace EXCEPT ![p] = trace[p] \cup {"timestamped"}]
      /\ trace'[p] = trace[p] \cup {"timestamped"}
      /\ returned' = returned
  BY <1>0, <1>1, MovesAlong DEF Pipeline!Timestamp
<1>3. token' = [token EXCEPT ![p] = TRUE] /\ UNCHANGED <<opts, verdict, chain, stored>>
  BY DEF Pipeline!Timestamp
<1>4. PipelineType' /\ token'[p]
  BY <1>1, <1>2, <1>3 DEF PipelineType, After
<1>5. \A q \in Runs : Pipeline!EventReceipts(q)' = Pipeline!EventReceipts(q)
  BY <1>3 DEF Pipeline!EventReceipts
<1>6. RunInv(p)'
  <2>1. "persisted" \in trace'[p] => "persisted" \in trace[p]
    BY <1>2
  <2> QED
    BY <1>1, <1>2, <1>3, <1>4, <1>5, <2>1 DEF RunInv, Before, After
<1>7. ASSUME NEW q \in Runs \ {p} PROVE RunInv(q)'
  <2>1. /\ runState'[q] = runState[q] /\ trace'[q] = trace[q] /\ returned'[q] = returned[q]
        /\ token'[q] = token[q]
    BY <1>1, <1>2, <1>3 DEF PipelineType
  <2>2. RunInv(q)
    BY DEF PipelineInv
  <2> QED
    BY <1>1, <1>3, <2>1, <2>2, OthersKeep
<1> QED
  BY <1>4, <1>6, <1>7 DEF PipelineInv

LEMMA PersistKeeps ==
    ASSUME PipelineInv, NEW p \in Runs, Pipeline!Persist(p) PROVE PipelineInv'
<1>0. <<"persisting", "persisted">> \in Pipeline!Transitions
  BY DEF Pipeline!Transitions
<1>1. PipelineType /\ RunInv(p)
  BY DEF PipelineInv
<1>2. /\ runState[p] = "persisting" /\ ~returned[p]
      /\ runState' = [runState EXCEPT ![p] = "persisted"] /\ runState'[p] = "persisted"
      /\ trace' = [trace EXCEPT ![p] = trace[p] \cup {"persisted"}]
      /\ trace'[p] = trace[p] \cup {"persisted"}
      /\ returned' = returned
  BY <1>0, <1>1, MovesAlong DEF Pipeline!Persist
<1> DEFINE w == [run |-> p, token |-> token[p]]
<1>3. stored' = stored \cup {w} /\ UNCHANGED <<opts, verdict, chain, token>>
  BY DEF Pipeline!Persist, Pipeline!Writes
<1>4. PipelineType'
  BY <1>1, <1>2, <1>3 DEF PipelineType, After
<1>5. \A q \in Runs : Pipeline!EventReceipts(q)' = Pipeline!EventReceipts(q)
  BY <1>3 DEF Pipeline!EventReceipts
<1>6. RunInv(p)'
  <2>1. w \in stored' /\ w.run = p /\ ("tsa" \in opts[p] => w.token)
    BY <1>1, <1>2, <1>3 DEF RunInv
  <2>2. Pipeline!EventReceipts(p) # {}
    BY <1>1, <1>2 DEF RunInv, After
  <2>3. "signed" \in trace[p] => "signed" \in trace'[p]
    BY <1>2
  <2> HIDE DEF w
  <2> QED
    BY <1>1, <1>2, <1>3, <1>5, <2>1, <2>2, <2>3 DEF RunInv, Before
<1>7. ASSUME NEW q \in Runs \ {p} PROVE RunInv(q)'
  <2>1. /\ runState'[q] = runState[q] /\ trace'[q] = trace[q] /\ returned'[q] = returned[q]
    BY <1>1, <1>2 DEF PipelineType
  <2>2. RunInv(q)
    BY DEF PipelineInv
  <2>3. stored \subseteq stored' /\ \A x \in stored' \ stored : x.run = p
    BY <1>3
  <2> QED
    BY <1>1, <1>3, <2>1, <2>2, <2>3, OthersKeep
<1> QED
  BY <1>4, <1>6, <1>7 DEF PipelineInv
-----------------------------------------------------------------------------
(* The invariant is inductive.                                             *)
LEMMA NextKeepsPipeline == PipelineInv /\ [Pipeline!Next]_pipelineVars => PipelineInv'
<1> SUFFICES ASSUME PipelineInv, [Pipeline!Next]_pipelineVars PROVE PipelineInv'
  OBVIOUS
<1>0. PipelineType /\ \A p \in Runs : RunInv(p)
  BY DEF PipelineInv
<1>1. ASSUME NEW p \in Runs, Pipeline!Start(p) PROVE PipelineInv'
  BY <1>1, PlainMove DEF Pipeline!Start, Pipeline!Transitions, Before, After
<1>2. ASSUME NEW p \in Runs, Pipeline!Decided(p) PROVE PipelineInv'
  BY <1>2, PlainMove DEF Pipeline!Decided, Pipeline!Transitions, Before, After
<1>3. ASSUME NEW p \in Runs, Pipeline!AfterSigning(p) PROVE PipelineInv'
  BY <1>3, PlainMove DEF Pipeline!AfterSigning, Pipeline!Transitions, Before, After
<1>4. ASSUME NEW p \in Runs, Pipeline!Timestamped(p) PROVE PipelineInv'
  <2>1. <<"timestamped", "persisting">> \in Pipeline!Transitions
    BY DEF Pipeline!Transitions
  <2>2. runState[p] = "timestamped"
    BY <1>0, <1>4, <2>1, MovesAlong DEF Pipeline!Timestamped
  <2>3. token[p]
    BY <1>0, <2>2 DEF RunInv
  <2> QED
    BY <1>4, <2>1, <2>3, PlainMove DEF Pipeline!Timestamped, Before, After
<1>5. ASSUME NEW p \in Runs, Pipeline!PersistSkipped(p) PROVE PipelineInv'
  BY <1>5, PlainMove DEF Pipeline!PersistSkipped, Pipeline!Transitions, Before, After
<1>6. ASSUME NEW p \in Runs, Pipeline!AfterPersisting(p) PROVE PipelineInv'
  BY <1>6, PlainMove DEF Pipeline!AfterPersisting, Pipeline!Transitions, Before, After
<1>7. ASSUME NEW p \in Runs, Pipeline!Notify(p) PROVE PipelineInv'
  BY <1>7, PlainMove DEF Pipeline!Notify, Pipeline!Transitions, Before, After
<1>8. ASSUME NEW p \in Runs, Pipeline!PolicyDenies(p) PROVE PipelineInv'
  BY <1>8, CatchKeeps DEF Pipeline!PolicyDenies, Pipeline!DecisionReceipt, Pipeline!Failing
<1>9. ASSUME NEW p \in Runs, Pipeline!StepFails(p) PROVE PipelineInv'
  BY <1>9, CatchKeeps DEF Pipeline!StepFails, Pipeline!Failing
<1>10. ASSUME NEW p \in Runs, Pipeline!StoreFails(p) PROVE PipelineInv'
  BY <1>10, CatchKeeps DEF Pipeline!StoreFails, Pipeline!Writes, Pipeline!Failing
<1>11. CASE UNCHANGED pipelineVars
  <2>1. \A p \in Runs : Pipeline!EventReceipts(p)' = Pipeline!EventReceipts(p)
    BY <1>11 DEF pipelineVars, Pipeline!EventReceipts
  <2> QED
    BY <1>0, <1>11, <2>1 DEF pipelineVars, PipelineInv, PipelineType, RunInv
<1>12. ASSUME NEW p \in Runs, Pipeline!Step(p) PROVE PipelineInv'
  BY <1>1, <1>2, <1>3, <1>4, <1>5, <1>6, <1>7, <1>8, <1>9, <1>10, <1>12, PolicyAllowsKeeps,
     SignKeeps, TimestampKeeps, PersistKeeps, Zenon DEF Pipeline!Step
<1> QED
  BY <1>11, <1>12, Zenon DEF Pipeline!Next

LEMMA SameCardinality == \A S : Pipeline!Cardinality(S) = Cardinality(S)
BY Zenon DEF Pipeline!Cardinality, Cardinality

LEMMA PipelineInvSuffices == PipelineInv => OutcomeIsTruthful
<1> SUFFICES ASSUME PipelineInv PROVE OutcomeIsTruthful
  OBVIOUS
<1>1. ASSUME NEW p \in Runs PROVE Pipeline!Cardinality(Pipeline!EventReceipts(p)) <= 1
  <2>1. CASE Pipeline!EventReceipts(p) = {}
    BY <2>1, FS_EmptySet, SameCardinality
  <2>2. CASE Pipeline!EventReceipts(p) # {}
    <3>1. PICK i \in Pipeline!EventReceipts(p) : TRUE
      BY <2>2
    <3>2. Pipeline!EventReceipts(p) = {i}
      BY <3>1 DEF PipelineInv, RunInv
    <3>3. Cardinality({i}) = 1 /\ Pipeline!Cardinality({i}) = Cardinality({i})
      BY FS_Singleton, SameCardinality
    <3> QED
      BY <3>2, <3>3
  <2> QED
    BY <2>1, <2>2
<1> QED
  BY <1>1 DEF PipelineInv, RunInv, OutcomeIsTruthful, Pipeline!OutcomeIsTruthful,
     Pipeline!EndsDoneOrFailed, Pipeline!TraceIsTruthful, Pipeline!ChainHoldsWhatItShould

(* However governed calls interleave and fail: done or failed is reported  *)
(* only as such, persisted means stored with its token, and a run signs    *)
(* once, after its policy, before it stores (receipt-pipeline.ts:113-202). *)
THEOREM WorkflowOutcomeIsTruthful == WorkflowsSpec => []OutcomeIsTruthful
<1>1. WorkflowsInit => PipelineInv
  BY WorkflowsAssumption, InitPipeline DEF WorkflowsInit
<1>2. [WorkflowsNext]_workflowsVars => [Pipeline!Next]_pipelineVars
  BY DEF WorkflowsNext, workflowsVars
<1> QED
  BY <1>1, <1>2, NextKeepsPipeline, PipelineInvSuffices, PTL DEF WorkflowsSpec
=============================================================================

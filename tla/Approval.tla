------------------------------- MODULE Approval -------------------------------
(***************************************************************************)
(* The human-in-the-loop approval workflow (src/workflows/approval.ts) on  *)
(* the serialized state machine (src/workflows/state-machine.ts).          *)
(*                                                                         *)
(* submit checks and records a decision synchronously; the transitions it  *)
(* asks for run later, one per turn of the state machine's queue.  None of *)
(* this table's transitions has a guard or an action, so one turn is one   *)
(* step.  Each call of submit or expire is a process of the set Calls.     *)
(***************************************************************************)
EXTENDS Integers, Sequences, FiniteSets

CONSTANTS Calls,
          Approvers,    \* request.approvers
          Outsiders,    \* others who may call submit
          Threshold     \* request.threshold

ApprovalAssumption == Threshold \in Nat \ {0}

VARIABLES
    state,      \* the state machine's _state
    history,    \* the states entered, in order
    queue,      \* queued transitions, as [call, to]
    decisions,  \* the decisions recorded, in order, as [approver, decision]
    pc,         \* pc[c]: where call c is
    late        \* Date.now() >= Date.parse(expiresAt)

vars == <<state, history, queue, decisions, pc, late>>
-----------------------------------------------------------------------------
(* Mutant: TRANSITIONS gains an edge between two verdicts.                 *)
PermittedAnyVerdict(from, to) ==
    \/ from \in {"pending", "approved"} /\ to \in {"approved", "rejected", "expired"}
    \/ from \in {"approved", "rejected", "expired"} /\ to = "done"

(* TRANSITIONS                                                             *)
Permitted(from, to) ==
    \/ from = "pending" /\ to \in {"approved", "rejected", "expired"}
    \/ from \in {"approved", "rejected", "expired"} /\ to = "done"

Decided(ds) == {ds[i].approver : i \in DOMAIN ds}

Deciders(ds, d) == {ds[i].approver : i \in {j \in DOMAIN ds : ds[j].decision = d}}

(* Mutant: every decision counts towards the threshold.                    *)
VerdictByCount(ds) ==
    IF Cardinality(Deciders(ds, "approve")) + Cardinality(Deciders(ds, "reject")) >= Threshold
    THEN "approved"
    ELSE IF Deciders(ds, "reject") # {} THEN "rejected" ELSE "none"

(* The transition submit asks for after recording: any rejection decides,  *)
(* else enough approvals do.                                               *)
Verdict(ds) ==
    IF Deciders(ds, "reject") # {} THEN "rejected"
    ELSE IF Cardinality(Deciders(ds, "approve")) >= Threshold THEN "approved"
    ELSE "none"

Init ==
    /\ state     = "pending"
    /\ history   = <<>>
    /\ queue     = <<>>
    /\ decisions = <<>>
    /\ pc        = [c \in Calls |-> "new"]
    /\ late      = FALSE

Goes(c, to) == pc' = [pc EXCEPT ![c] = to]
Asks(c, to) == queue' = Append(queue, [call |-> c, to |-> to])
-----------------------------------------------------------------------------
(* submit by a after the deadline: expired and done, then an error.        *)
SubmitLate(c) ==
    /\ pc[c] = "new" /\ state = "pending" /\ late
    /\ Asks(c, "expired")
    /\ Goes(c, "verdict")
    /\ UNCHANGED <<state, history, decisions, late>>

(* submit throws: not pending, not an approver, or already decided.        *)
SubmitRefused(c, a) ==
    /\ pc[c] = "new"
    /\ \/ state # "pending"
       \/ ~late /\ a \notin Approvers
       \/ ~late /\ a \in Approvers /\ a \in Decided(decisions)
    /\ Goes(c, "threw")
    /\ UNCHANGED <<state, history, queue, decisions, late>>

(* submit records decision d of approver a.                                *)
Submit(c, a, d) ==
    /\ pc[c] = "new" /\ state = "pending" /\ ~late
    /\ a \in Approvers /\ a \notin Decided(decisions)
    /\ decisions' = Append(decisions, [approver |-> a, decision |-> d])
    /\ IF Verdict(decisions') = "none"
       THEN Goes(c, "returned") /\ UNCHANGED queue
       ELSE Goes(c, "verdict") /\ Asks(c, Verdict(decisions'))
    /\ UNCHANGED <<state, history, late>>

(* expire(): it does not look at the deadline itself.                      *)
Expire(c) ==
    /\ pc[c] = "new"
    /\ IF state = "pending"
       THEN Goes(c, "verdict") /\ Asks(c, "expired")
       ELSE Goes(c, "returned") /\ UNCHANGED queue
    /\ UNCHANGED <<state, history, decisions, late>>

(* The state machine takes its next queued transition.                     *)
Turn ==
    /\ queue # <<>>
    /\ queue' = Tail(queue)
    /\ LET c == queue[1].call  to == queue[1].to
       IN  IF Permitted(state, to)
           THEN /\ state'   = to
                /\ history' = Append(history, to)
                /\ Goes(c, IF to = "done" THEN "returned" ELSE "decided")
           ELSE /\ Goes(c, "threw")
                /\ UNCHANGED <<state, history>>
    /\ UNCHANGED <<decisions, late>>

(* Mutant: the call does not close the workflow.                           *)
ContinueWithoutDone(c) ==
    /\ pc[c] = "decided"
    /\ Goes(c, "returned")
    /\ UNCHANGED <<state, history, queue, decisions, late>>

(* The call resumes after its verdict transition and asks for "done".      *)
Continue(c) ==
    /\ pc[c] = "decided"
    /\ Asks(c, "done")
    /\ Goes(c, "closing")
    /\ UNCHANGED <<state, history, decisions, late>>

(* The approval window closes.                                             *)
Deadline ==
    /\ ~late
    /\ late' = TRUE
    /\ UNCHANGED <<state, history, queue, decisions, pc>>

Next == \/ \E c \in Calls :
              \/ \E a \in Approvers, d \in {"approve", "reject"} : Submit(c, a, d)
              \/ \E a \in Approvers \cup Outsiders : SubmitRefused(c, a)
              \/ SubmitLate(c) \/ Expire(c) \/ Continue(c)
        \/ Turn
        \/ Deadline

Spec == Init /\ [][Next]_vars

(* Promise callbacks run.                                                  *)
FairSpec == Spec /\ WF_vars(Turn) /\ \A c \in Calls : WF_vars(Continue(c))
-----------------------------------------------------------------------------
TypeOK ==
    /\ state \in {"pending", "approved", "rejected", "expired", "done"}
    /\ history \in Seq({"approved", "rejected", "expired", "done"})
    /\ queue \in Seq([call : Calls, to : {"approved", "rejected", "expired", "done"}])
    /\ decisions \in Seq([approver : Approvers, decision : {"approve", "reject"}])
    /\ pc \in [Calls -> {"new", "verdict", "decided", "closing", "returned", "threw"}]
    /\ late \in BOOLEAN

(* A quorum approved before anybody rejected.                              *)
QuorumFirst(ds) ==
    \E n \in 0..Len(ds) :
        LET early == SubSeq(ds, 1, n)
        IN  /\ Cardinality(Deciders(early, "approve")) >= Threshold
            /\ Deciders(early, "reject") = {}

Entered(v) == \E i \in 1..Len(history) : history[i] = v

(* One verdict, then done, whichever calls race for it.                    *)
OneVerdictThenDone ==
    /\ Len(history) <= 2
    /\ Len(history) = 2 => history[2] = "done"
    /\ Len(history) >= 1 => history[1] # "done"

(* An approved request had the approvals it needs before any rejection     *)
(* ("rejects on first rejection", test/workflows.test.ts:108): no race,    *)
(* late call or repeated decision stands in for one, and a rejection is    *)
(* without effect only when the quorum was recorded before it.             *)
ApprovedHadQuorumFirst == Entered("approved") => QuorumFirst(decisions)

(* However many calls race, the request gets one verdict, is closed after  *)
(* it, and counts as approved only by a quorum (approval.ts:80-100).       *)
VerdictIsSound == OneVerdictThenDone /\ ApprovedHadQuorumFirst

(* A decision that settles the request closes it: the workflow reaches     *)
(* done, whatever else is queued.                                          *)
DecidedIsClosed == Verdict(decisions) # "none" ~> state = "done"
=============================================================================

----------------------------- MODULE StateMachine -----------------------------
(***************************************************************************)
(* The workflow state machine (src/workflows/state-machine.ts): callers    *)
(* request transitions; each is validated against the current state, its   *)
(* guard and its action are awaited, and then it is committed.  A promise  *)
(* queue runs one requested transition at a time.                          *)
(***************************************************************************)
EXTENDS Integers, Sequences, FiniteSets

CONSTANTS Callers, States, InitialState,
          Table,        \* the permitted transitions, pairs <<from, to>>
          MaxHistory    \* bound: committed transitions

MachineAssumption ==
    /\ InitialState \in States
    /\ Table \subseteq States \X States
    /\ MaxHistory \in Nat

VARIABLES
    state,      \* _state
    history,    \* the transitions recorded, as <<from, to>>
    queue,      \* callers whose transition has not settled, in request order
    target,     \* target[c]: the state caller c asked for
    phase       \* phase[c]: "idle", "queued", "guard" or "action"

vars == <<state, history, queue, target, phase>>
-----------------------------------------------------------------------------
Init ==
    /\ state   = InitialState
    /\ history = <<>>
    /\ queue   = <<>>
    /\ target  = [c \in Callers |-> InitialState]
    /\ phase   = [c \in Callers |-> "idle"]

(* transition(to): chained onto the queue's tail.                          *)
Request(c, to) ==
    /\ phase[c] = "idle"
    /\ Len(history) + Len(queue) < MaxHistory
    /\ queue'  = Append(queue, c)
    /\ target' = [target EXCEPT ![c] = to]
    /\ phase'  = [phase EXCEPT ![c] = "queued"]
    /\ UNCHANGED <<state, history>>

(* Mutant: transitions are not serialized.                                 *)
AnyTurn(c) == TRUE

(* applyTransition of c starts when everything queued before has settled.  *)
ItsTurn(c) == queue[1] = c

(* Mutant: a failed transition poisons the tail of the queue.              *)
FailsAndStays(c) ==
    /\ phase' = [phase EXCEPT ![c] = "idle"]
    /\ UNCHANGED <<state, history, queue, target>>

(* The promise of c rejects; queue = run.catch(...) settles all the same.  *)
Fails(c) ==
    /\ phase' = [phase EXCEPT ![c] = "idle"]
    /\ queue' = Tail(queue)
    /\ UNCHANGED <<state, history, target>>

(* The table lookup: invalid-transition, or on to the guard.               *)
Validate(c) ==
    /\ phase[c] = "queued" /\ ItsTurn(c)
    /\ \/ /\ <<state, target[c]>> \notin Table
          /\ Fails(c)
       \/ /\ <<state, target[c]>> \in Table
          /\ phase' = [phase EXCEPT ![c] = "guard"]
          /\ UNCHANGED <<state, history, queue, target>>

(* The guard resolves: guard-failed (or it throws), or on to the action.   *)
GuardBlocks(c) == phase[c] = "guard" /\ Fails(c)

GuardPasses(c) ==
    /\ phase[c] = "guard"
    /\ phase' = [phase EXCEPT ![c] = "action"]
    /\ UNCHANGED <<state, history, queue, target>>

ActionThrows(c) == phase[c] = "action" /\ Fails(c)

(* The action resolves: the change is recorded and committed.              *)
Commit(c) ==
    /\ phase[c] = "action"
    /\ history' = Append(history, <<state, target[c]>>)
    /\ state'   = target[c]
    /\ phase'   = [phase EXCEPT ![c] = "idle"]
    /\ queue'   = Tail(queue)
    /\ UNCHANGED target

Next == \E c \in Callers :
            \/ \E to \in States : Request(c, to)
            \/ Validate(c) \/ GuardBlocks(c) \/ GuardPasses(c)
            \/ ActionThrows(c) \/ Commit(c)

Spec == Init /\ [][Next]_vars

(* Awaited guards and actions settle.                                      *)
FairSpec == Spec /\ \A c \in Callers :
                       /\ WF_vars(Validate(c))
                       /\ WF_vars(GuardBlocks(c) \/ GuardPasses(c))
                       /\ WF_vars(ActionThrows(c) \/ Commit(c))
-----------------------------------------------------------------------------
(* The audit history is a path of the table from the initial to the current*)
(* state, however many callers race (state-machine.ts:46-56).              *)
HistoryIsPath ==
    /\ \A i \in 1..Len(history) :
          /\ history[i] \in Table
          /\ history[i][1] = IF i = 1 THEN InitialState ELSE history[i-1][2]
    /\ state = IF history = <<>> THEN InitialState ELSE history[Len(history)][2]

(* Every requested transition settles: a failing one blocks nobody.        *)
EveryTransitionSettles == \A c \in Callers : phase[c] = "queued" ~> phase[c] = "idle"
=============================================================================

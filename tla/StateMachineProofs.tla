-------------------------- MODULE StateMachineProofs --------------------------
(***************************************************************************)
(* Proofs about StateMachine, for any table, any number of callers and any *)
(* length of history.                                                      *)
(***************************************************************************)
EXTENDS StateMachine, TLAPS

(* What every variable holds.                                              *)
TypeOK ==
    /\ state \in States
    /\ history \in Seq(States \X States)
    /\ queue \in Seq(Callers)
    /\ target \in [Callers -> States]
    /\ phase \in [Callers -> {"idle", "queued", "guard", "action"}]

(* A caller whose transition has not settled is in the queue, and the one  *)
(* whose guard or action is awaited is at its head, its validation still   *)
(* good: nobody moves the state in the meantime.                           *)
HeadRuns ==
    \A c \in Callers :
        /\ phase[c] # "idle" => \E i \in 1..Len(queue) : queue[i] = c
        /\ phase[c] \in {"guard", "action"} =>
              queue # <<>> /\ queue[1] = c /\ <<state, target[c]>> \in Table

IInv == TypeOK /\ HeadRuns /\ HistoryIsPath
-----------------------------------------------------------------------------
(* Dropping the head leaves everybody else in the queue.                   *)
LEMMA TailKeepsOthers ==
    ASSUME queue \in Seq(Callers), NEW c \in Callers, NEW i \in 1..Len(queue),
           queue[i] = c, queue[1] # c
    PROVE  /\ Tail(queue) \in Seq(Callers)
           /\ \E j \in 1..Len(Tail(queue)) : Tail(queue)[j] = c
<1>1. queue # <<>> /\ i # 1
  OBVIOUS
<1>2. /\ i - 1 \in 1..Len(Tail(queue))
      /\ Tail(queue)[i - 1] = queue[i]
  BY <1>1
<1> QED
  BY <1>1, <1>2

(* Whose turn it is, who has not settled, is at the head of the queue.     *)
LEMMA TurnIsHead ==
    ASSUME IInv, NEW c \in Callers, phase[c] # "idle", ItsTurn(c)
    PROVE  queue # <<>> /\ queue[1] = c
<1>1. PICK i \in 1..Len(queue) : queue[i] = c
  BY DEF IInv, HeadRuns
<1>2. queue # <<>>
  BY <1>1 DEF IInv, TypeOK
<1> QED
  BY <1>2 DEF ItsTurn

LEMMA InitIInv == MachineAssumption /\ Init => IInv
BY DEF MachineAssumption, Init, IInv, TypeOK, HeadRuns, HistoryIsPath

(* A transition that fails leaves the head of the queue to the next.       *)
LEMMA FailsKeepsIInv ==
    ASSUME IInv, NEW c \in Callers, phase[c] # "idle", ItsTurn(c), Fails(c)
    PROVE  IInv'
<1> USE DEF IInv
<1>1. queue # <<>> /\ queue[1] = c
  BY TurnIsHead
<1>2. TypeOK'
  BY <1>1 DEF TypeOK, Fails
<1>3. HistoryIsPath'
  BY DEF HistoryIsPath, Fails
<1>4. HeadRuns'
  <2> SUFFICES ASSUME NEW d \in Callers
               PROVE  /\ phase'[d] # "idle" => \E i \in 1..Len(queue') : queue'[i] = d
                      /\ phase'[d] \notin {"guard", "action"}
    BY DEF HeadRuns
  <2>1. CASE d = c
    BY <2>1 DEF Fails, TypeOK
  <2>2. CASE d # c
    <3>1. phase'[d] = phase[d] /\ queue' = Tail(queue)
      BY <2>2 DEF Fails, TypeOK
    <3>2. phase[d] \notin {"guard", "action"}
      BY <1>1, <2>2 DEF HeadRuns
    <3>3. ASSUME phase[d] # "idle" PROVE \E i \in 1..Len(queue') : queue'[i] = d
      <4>1. PICK i \in 1..Len(queue) : queue[i] = d
        BY <3>3 DEF HeadRuns
      <4> QED
        BY <4>1, <3>1, <1>1, <2>2, TailKeepsOthers DEF TypeOK
    <3> QED
      BY <3>1, <3>2, <3>3
  <2> QED
    BY <2>1, <2>2
<1> QED
  BY <1>2, <1>3, <1>4

LEMMA RequestKeepsIInv ==
    ASSUME IInv, NEW c \in Callers, NEW to \in States, Request(c, to)
    PROVE  IInv'
<1> USE DEF IInv
<1>1. TypeOK'
  BY DEF TypeOK, Request
<1>2. HistoryIsPath'
  BY DEF HistoryIsPath, Request
<1>3. HeadRuns'
  <2> SUFFICES ASSUME NEW d \in Callers
               PROVE  /\ phase'[d] # "idle" => \E i \in 1..Len(queue') : queue'[i] = d
                      /\ phase'[d] \in {"guard", "action"} =>
                            queue' # <<>> /\ queue'[1] = d /\ <<state', target'[d]>> \in Table
    BY DEF HeadRuns
  <2>1. CASE d = c
    <3>1. phase'[d] = "queued" /\ queue'[Len(queue) + 1] = d /\ Len(queue') = Len(queue) + 1
      BY <2>1 DEF Request, TypeOK
    <3>2. Len(queue) + 1 \in 1..Len(queue')
      BY <3>1 DEF TypeOK
    <3> QED
      BY <3>1, <3>2
  <2>2. CASE d # c
    <3>1. phase'[d] = phase[d] /\ target'[d] = target[d] /\ state' = state
      BY <2>2 DEF Request, TypeOK
    <3>2. \A i \in 1..Len(queue) : i \in 1..Len(queue') /\ queue'[i] = queue[i]
      BY DEF Request, TypeOK
    <3>3. queue # <<>> => queue' # <<>> /\ queue'[1] = queue[1]
      BY DEF Request, TypeOK
    <3> QED
      BY <3>1, <3>2, <3>3 DEF HeadRuns
  <2> QED
    BY <2>1, <2>2
<1> QED
  BY <1>1, <1>2, <1>3

(* Committing takes the edge that was validated, from the state it was     *)
(* validated in.                                                           *)
LEMMA CommitKeepsIInv ==
    ASSUME IInv, MachineAssumption, NEW c \in Callers, Commit(c)
    PROVE  IInv'
<1> USE DEF IInv
<1>1. queue # <<>> /\ queue[1] = c /\ <<state, target[c]>> \in Table
  BY DEF Commit, HeadRuns
<1>2. /\ history' = Append(history, <<state, target[c]>>)
      /\ state' = target[c] /\ queue' = Tail(queue) /\ target' = target
      /\ phase' = [phase EXCEPT ![c] = "idle"]
  BY DEF Commit
<1>3. TypeOK'
  BY <1>1, <1>2 DEF TypeOK
<1>4. HistoryIsPath'
  <2> DEFINE edge == <<state, target[c]>>
  <2>0. history \in Seq(States \X States) /\ edge \in States \X States
        /\ history' = Append(history, edge)
    BY <1>2 DEF TypeOK
  <2> HIDE DEF edge
  <2>01. /\ Len(history') = Len(history) + 1
         /\ Len(history) \in Nat
    BY <2>0
  <2>02. \A i \in 1..Len(history) : history'[i] = history[i]
    BY <2>0
  <2>03. history'[Len(history) + 1] = edge
    BY <2>0
  <2>1. /\ Len(history') = Len(history) + 1
        /\ \A i \in 1..Len(history) : history'[i] = history[i]
        /\ history'[Len(history) + 1] = edge
        /\ history' # <<>>
        /\ Len(history) \in Nat
    BY <2>01, <2>02, <2>03
  <2> USE DEF edge
  <2>2. \A i \in 1..Len(history') : history'[i] \in Table
    BY <1>1, <2>1 DEF HistoryIsPath
  <2>3. \A i \in 1..Len(history') :
            history'[i][1] = IF i = 1 THEN InitialState ELSE history'[i-1][2]
    <3> SUFFICES ASSUME NEW i \in 1..Len(history')
                 PROVE  history'[i][1] = IF i = 1 THEN InitialState ELSE history'[i-1][2]
      OBVIOUS
    <3>1. CASE i \in 1..Len(history)
      <4>1. i # 1 => i - 1 \in 1..Len(history)
        BY <3>1, <2>1
      <4> QED
        BY <3>1, <4>1, <2>1 DEF HistoryIsPath
    <3>2. CASE i = Len(history) + 1
      <4>1. history'[i][1] = state
        BY <3>2, <2>1
      <4>2. CASE Len(history) = 0
        BY <4>1, <4>2, <3>2 DEF HistoryIsPath, TypeOK
      <4>3. CASE Len(history) # 0
        <5>1. history # <<>> /\ i # 1 /\ i - 1 = Len(history) /\ Len(history) \in 1..Len(history)
          BY <4>3, <3>2, <2>1
        <5> QED
          BY <4>1, <5>1, <2>1 DEF HistoryIsPath
      <4> QED
        BY <4>2, <4>3
    <3> QED
      BY <3>1, <3>2, <2>1
  <2>4. state' = history'[Len(history')][2]
    BY <1>2, <2>1
  <2> QED
    BY <2>1, <2>2, <2>3, <2>4 DEF HistoryIsPath
<1>5. HeadRuns'
  <2> SUFFICES ASSUME NEW d \in Callers
               PROVE  /\ phase'[d] # "idle" => \E i \in 1..Len(queue') : queue'[i] = d
                      /\ phase'[d] \notin {"guard", "action"}
    BY DEF HeadRuns
  <2>1. CASE d = c
    BY <1>2, <2>1 DEF TypeOK
  <2>2. CASE d # c
    <3>1. phase'[d] = phase[d]
      BY <1>2, <2>2 DEF TypeOK
    <3>2. phase[d] \notin {"guard", "action"}
      BY <1>1, <2>2 DEF HeadRuns
    <3>3. ASSUME phase[d] # "idle" PROVE \E i \in 1..Len(queue') : queue'[i] = d
      <4>1. PICK i \in 1..Len(queue) : queue[i] = d
        BY <3>3 DEF HeadRuns
      <4> QED
        BY <4>1, <1>2, <1>1, <2>2, TailKeepsOthers DEF TypeOK
    <3> QED
      BY <3>1, <3>2, <3>3
  <2> QED
    BY <2>1, <2>2
<1> QED
  BY <1>3, <1>4, <1>5

LEMMA NextKeepsIInv == MachineAssumption /\ IInv /\ [Next]_vars => IInv'
<1> SUFFICES ASSUME MachineAssumption, IInv, [Next]_vars PROVE IInv'
  OBVIOUS
<1>1. ASSUME NEW c \in Callers, Validate(c) PROVE IInv'
  <2>1. CASE Fails(c)
    BY <1>1, <2>1, FailsKeepsIInv DEF Validate
  <2>2. CASE /\ <<state, target[c]>> \in Table
             /\ phase' = [phase EXCEPT ![c] = "guard"]
             /\ UNCHANGED <<state, history, queue, target>>
    <3>1. queue # <<>> /\ queue[1] = c
      BY <1>1, TurnIsHead DEF Validate
    <3> QED
      BY <1>1, <2>2, <3>1 DEF Validate, IInv, TypeOK, HeadRuns, HistoryIsPath
  <2> QED
    BY <1>1, <2>1, <2>2 DEF Validate
<1>2. ASSUME NEW c \in Callers, GuardBlocks(c) \/ ActionThrows(c) PROVE IInv'
  <2>1. phase[c] # "idle" /\ ItsTurn(c) /\ Fails(c)
    BY <1>2 DEF GuardBlocks, ActionThrows, IInv, HeadRuns, ItsTurn
  <2> QED
    BY <2>1, FailsKeepsIInv
<1>3. ASSUME NEW c \in Callers, GuardPasses(c) PROVE IInv'
  BY <1>3 DEF GuardPasses, IInv, TypeOK, HeadRuns, HistoryIsPath
<1>4. CASE UNCHANGED vars
  BY <1>4 DEF vars, IInv, TypeOK, HeadRuns, HistoryIsPath
<1> QED
  BY <1>1, <1>2, <1>3, <1>4, RequestKeepsIInv, CommitKeepsIInv DEF Next

(* The audit history is a path of the table from the initial to the current*)
(* state, although guards and actions are awaited between the validation   *)
(* of a transition and its commit (state-machine.ts:88-120).               *)
THEOREM HistoryIsAlwaysPath ==
    ASSUME MachineAssumption PROVE Spec => []HistoryIsPath
<1>1. Init => IInv
  BY InitIInv
<1>2. IInv /\ [Next]_vars => IInv'
  BY NextKeepsIInv
<1>3. IInv => HistoryIsPath
  BY DEF IInv
<1> QED
  BY <1>1, <1>2, <1>3, PTL DEF Spec
=============================================================================

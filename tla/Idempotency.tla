----------------------------- MODULE Idempotency -----------------------------
(***************************************************************************)
(* The console's Idempotency-Key store                                     *)
(* (console/src/lib/idempotency.ts) and the requests that use it: begin,   *)
(* then - when told "fresh" - the handler, then finish.  A request that    *)
(* meets its key in flight waits 25 ms once and looks again.               *)
(*                                                                         *)
(* Every request is one process; keys are independent of each other.       *)
(***************************************************************************)
EXTENDS Integers, FiniteSets

CONSTANTS Requests, Keys, Bodies,
          Absent,       \* no entry
          InFlight,     \* the marker "in-flight"
          EmptyHash     \* the "" that finish falls back to

Entry == [response : Requests, bodyHash : Bodies \cup {EmptyHash}]

IdempotencyAssumption ==
    /\ EmptyHash \notin Bodies
    /\ Absent # InFlight /\ Absent \notin Bodies \cup Requests
    /\ Absent \notin Entry /\ InFlight \notin Entry

VARIABLES
    cache,          \* cache[k]: Absent, "in-flight", or a finished entry
    inflightBodies, \* inflightBodies[k]: a body hash, or Absent
    pc, key, body,  \* per request
    answer,         \* answer[r]: the executing request whose response r got
    executed        \* history: requests whose handler ran for k's live entry

vars == <<cache, inflightBodies, pc, key, body, answer, executed>>
-----------------------------------------------------------------------------
Finished(k) == cache[k] \notin {Absent, InFlight}
Pending(k)  == {r \in Requests : key[r] = k /\ pc[r] \in {"waiting", "handling"}}

Init ==
    /\ cache          = [k \in Keys |-> Absent]
    /\ inflightBodies = [k \in Keys |-> Absent]
    /\ pc             = [r \in Requests |-> "new"]
    /\ key            \in [Requests -> Keys]
    /\ body           \in [Requests -> Bodies]
    /\ answer         = [r \in Requests |-> Absent]
    /\ executed       = [k \in Keys |-> {}]

Goes(r, to) == pc' = [pc EXCEPT ![r] = to]

(* The request is told "fresh": its handler runs.                          *)
RunsHandler(r) == /\ Goes(r, "handling")
                  /\ executed' = [executed EXCEPT ![key[r]] = @ \cup {r}]

(* Mutant: a repeated key is replayed whatever its body.                   *)
SameBodyUnchecked(r, seen) == TRUE

(* The body hash comparison of begin.                                      *)
SameBody(r, seen) == seen = body[r]

(* Mutant: the key is marked only when the handler is done.                *)
BeginFreshUnmarked(r) ==
    /\ pc[r] = "new" /\ cache[key[r]] = Absent
    /\ inflightBodies' = [inflightBodies EXCEPT ![key[r]] = body[r]]
    /\ RunsHandler(r)
    /\ UNCHANGED <<cache, key, body, answer>>

(* begin: no entry.                                                        *)
BeginFresh(r) ==
    /\ pc[r] = "new" /\ cache[key[r]] = Absent
    /\ cache' = [cache EXCEPT ![key[r]] = InFlight]
    /\ inflightBodies' = [inflightBodies EXCEPT ![key[r]] = body[r]]
    /\ RunsHandler(r)
    /\ UNCHANGED <<key, body, answer>>

(* begin: the key is in flight - conflict on another body, else wait.      *)
BeginInFlight(r) ==
    /\ pc[r] = "new" /\ cache[key[r]] = InFlight
    /\ Goes(r, IF \/ inflightBodies[key[r]] = Absent
                  \/ SameBody(r, inflightBodies[key[r]])
               THEN "waiting" ELSE "conflict")
    /\ UNCHANGED <<cache, inflightBodies, key, body, answer, executed>>

(* The request is given the cached response.                               *)
Replays(r) == /\ Goes(r, "replayed")
              /\ answer' = [answer EXCEPT ![r] = cache[key[r]].response]

(* begin: the key is finished - conflict on another body, else replay.     *)
BeginFinished(r) ==
    /\ pc[r] = "new" /\ Finished(key[r])
    /\ IF SameBody(r, cache[key[r]].bodyHash)
       THEN Replays(r)
       ELSE Goes(r, "conflict") /\ UNCHANGED answer
    /\ UNCHANGED <<cache, inflightBodies, key, body, executed>>

(* begin, 25 ms later: replay what is finished by now ...                  *)
WakeReplay(r) ==
    /\ pc[r] = "waiting" /\ Finished(key[r])
    /\ Replays(r)
    /\ UNCHANGED <<cache, inflightBodies, key, body, executed>>

(* Mutant: keep polling until the first caller has finished.               *)
WakeWaits(r) ==
    /\ pc[r] = "waiting" /\ ~Finished(key[r])
    /\ UNCHANGED vars

(* ... and otherwise go ahead as if fresh.                                 *)
WakeFresh(r) ==
    /\ pc[r] = "waiting" /\ ~Finished(key[r])
    /\ RunsHandler(r)
    /\ UNCHANGED <<cache, inflightBodies, key, body, answer>>

(* Mutant: the body hash is not carried over.                              *)
FinishedEntryNoHash(r) == [response |-> r, bodyHash |-> EmptyHash]

(* What finish stores; `inflightBodies.get(key) ?? ""`.                    *)
FinishedEntry(r) ==
    [response |-> r,
     bodyHash |-> IF inflightBodies[key[r]] = Absent THEN EmptyHash
                  ELSE inflightBodies[key[r]]]

(* The handler is done: finish, and the response goes to the client.       *)
Finish(r) ==
    /\ pc[r] = "handling"
    /\ cache' = [cache EXCEPT ![key[r]] = FinishedEntry(r)]
    /\ inflightBodies' = [inflightBodies EXCEPT ![key[r]] = Absent]
    /\ answer' = [answer EXCEPT ![r] = r]
    /\ Goes(r, "answered")
    /\ UNCHANGED <<key, body, executed>>

(* The handler throws and finish is never called.                          *)
Dies(r) ==
    /\ pc[r] = "handling"
    /\ Goes(r, "died")
    /\ UNCHANGED <<cache, inflightBodies, key, body, answer, executed>>

(* evict, 24 h after finish: no request of that entry is still under way.  *)
(* Every begin evicts first, so nobody sees an entry past that moment.     *)
Evict(k) ==
    /\ Finished(k) /\ Pending(k) = {}
    /\ cache' = [cache EXCEPT ![k] = Absent]
    /\ executed' = [executed EXCEPT ![k] = {}]
    /\ UNCHANGED <<inflightBodies, pc, key, body, answer>>

Next == \/ \E r \in Requests : \/ BeginFresh(r) \/ BeginInFlight(r) \/ BeginFinished(r)
                               \/ WakeReplay(r) \/ WakeFresh(r)
                               \/ Finish(r) \/ Dies(r)
        \/ \E k \in Keys : Evict(k)

Spec == Init /\ [][Next]_vars

(* Handlers finish and timers fire.                                        *)
FairSpec == Spec /\ \A r \in Requests :
                       /\ WF_vars(BeginFresh(r) \/ BeginInFlight(r) \/ BeginFinished(r))
                       /\ WF_vars(WakeReplay(r) \/ WakeFresh(r))
                       /\ WF_vars(Finish(r))
-----------------------------------------------------------------------------
TypeOK ==
    /\ cache          \in [Keys -> Entry \cup {Absent, InFlight}]
    /\ inflightBodies \in [Keys -> Bodies \cup {Absent}]
    /\ pc \in [Requests -> {"new", "waiting", "handling", "answered",
                            "replayed", "conflict", "died"}]
    /\ key \in [Requests -> Keys] /\ body \in [Requests -> Bodies]
    /\ answer \in [Requests -> Requests \cup {Absent}]
    /\ executed \in [Keys -> SUBSET Requests]

(* "the second caller gets the first's cached response, not a fresh        *)
(* attempt" (idempotency.ts:5-6) - except after 25 ms: a handler runs again*)
(* within the life of an entry only for a request that has waited, and     *)
(* only while no earlier handler of the entry has finished.                *)
RunsAgainOnlyAfterWaiting ==
    [][\A k \in Keys : \A r \in executed'[k] \ executed[k] : executed[k] # {} =>
          /\ pc[r] = "waiting"
          /\ \A q \in executed[k] : pc[q] \in {"handling", "died"}]_vars

(* A replayed response is the response to the same body under the same key.*)
ReplayIsOfSameRequest ==
    [][\A r \in Requests : pc[r] # "replayed" /\ pc'[r] = "replayed" =>
          answer'[r] # Absent /\ key[answer'[r]] = key[r] /\ body[answer'[r]] = body[r]]_vars

(* "Same key + same body -> cached response" and only "Same key +          *)
(* different body -> 409 conflict" (docs/MATURE_CODE_PATTERNS.md:10): a    *)
(* conflict needs an execution of another body under the key, or a         *)
(* duplicate execution, whose second finish overwrites the body hash.      *)
ConflictIsExplained ==
    [][\A r \in Requests : pc[r] # "conflict" /\ pc'[r] = "conflict" =>
          \/ \E q \in executed[key[r]] : body[q] # body[r]
          \/ Cardinality(executed[key[r]]) > 1]_vars

(* A repeated key is replayed, run again or refused for a good reason only *)
(* (idempotency.ts:29-55).                                                 *)
KeysAreHonoured ==
    ReplayIsOfSameRequest /\ RunsAgainOnlyAfterWaiting /\ ConflictIsExplained

(* Every request is answered, replayed, rejected or died in its handler.   *)
EveryRequestEnds ==
    \A r \in Requests : <>(pc[r] \in {"answered", "replayed", "conflict", "died"})
=============================================================================

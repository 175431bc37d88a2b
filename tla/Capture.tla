------------------------------- MODULE Capture -------------------------------
(***************************************************************************)
(* Receipts of AI calls as the adapters and gateways capture them: several *)
(* calls at once, each through a hook of its own, into one chain.          *)
(*                                                                         *)
(*   chat        wrapOpenAI (chat), wrapAnthropic                          *)
(*   embeddings  wrapOpenAI (embeddings), plReceiptsMiddleware             *)
(*   fetch       withReceipts                                              *)
(*   langchain   ReceiptsCallbackHandler, awaited by LangChain, which logs *)
(*               what a handler throws                                     *)
(*   listener    attachAgentReceipts, plLlamaIndexHandler, plMastraListener*)
(*   portkey     plPortkeyGuardrail                                        *)
(*   proxy       the OpenAI-compatible proxy, one process                  *)
(*   worker      the Cloudflare worker          } these send events, which *)
(*   litellm     PLReceiptsCallback             } the ingest signs         *)
(*   agent       install_autogen, install_crewai, ... of the Python package*)
(*                                                                         *)
(* An adapter waits for the provider, builds an event of the call, signs   *)
(* it, hands the receipt to onReceipt (a gateway sends it to the ingest)   *)
(* and gives the caller the provider's answer, in its own order.           *)
(***************************************************************************)
EXTENDS Integers, Sequences, FiniteSets

CONSTANTS Calls, Hooks

AllHooks == {"chat", "embeddings", "fetch", "langchain", "listener", "portkey",
             "proxy", "worker", "litellm", "agent"}

CaptureAssumption == Hooks \subseteq AllHooks

VARIABLES
    hook,       \* hook[c]: what captures call c
    at,         \* at[c]: "idle", "called", "build", "deliver", "hung", "done"
    said,       \* said[c]: what the provider did
    got,        \* got[c]: what the caller has got
    unbuilt,    \* history: calls whose event could not be built
    unsigned,   \* history: calls whose receipt could not be signed
    ledger,     \* receipts signed, in chain order, as [call, tells]
    handed,     \* receipts and events handed on, in order, as [call, tells]
    starts,     \* llmStarts of the LangChain handler
    down        \* the proxy's process has died

captureVars == <<hook, at, said, got, unbuilt, unsigned, ledger, handed, starts, down>>
-----------------------------------------------------------------------------
(* A rejection of the provider is receipted too; the other hooks pass it on*)
(* or are not told.                                                        *)
ReceiptsErrors == {"chat", "fetch"}

(* The body may break off after the head of the answer.                    *)
ReadsBody == {"fetch", "proxy", "worker"}

(* The caller has its answer before the event is built.                    *)
AnswersFirst == {"proxy", "worker"}

(* The event is built outside of any try block, under the caller.          *)
BuildReachesCaller == {"chat", "embeddings", "fetch", "listener", "agent"}

Signing == AllHooks \ {"worker", "litellm", "agent"}

(* onReceipt is awaited before the caller gets its answer, without a limit.*)
AwaitsDelivery == {"chat", "embeddings", "fetch", "langchain"}

(* What a receipt says of the call.  A wrapper takes a rejection without a *)
(* reason for a success: it tests the caught value.                        *)
Tells(c) == IF said[c] = "error" THEN "error" ELSE "ok"

(* Mutant: the error is thrown where it is caught.                         *)
ReturnsAtOnce(h, s) == \/ s = "error"
                       \/ s = "cut" /\ h # "fetch"

(* Answers that end the call without a receipt.                            *)
EndsHere(h, s) == \/ s = "error" /\ h \notin ReceiptsErrors
                  \/ s = "cut" /\ h # "fetch"

Init ==
    /\ hook     \in [Calls -> Hooks]
    /\ at       = [c \in Calls |-> "idle"]
    /\ said     = [c \in Calls |-> "none"]
    /\ got      = [c \in Calls |-> "none"]
    /\ unbuilt  = {} /\ unsigned = {} /\ starts = {}
    /\ ledger   = <<>> /\ handed = <<>>
    /\ down     = FALSE

Goes(c, to) == at' = [at EXCEPT ![c] = to]

(* The provider's answer reaches the caller, unless it has it; the wrapper *)
(* returns undefined for a rejection without a reason.                     *)
Answered(c, s) ==
    [got EXCEPT ![c] = CASE @ # "none"              -> @
                         [] @ = "none" /\ s = "cut"  -> "ok"
                         [] @ = "none" /\ s = "bare" -> "nothing"
                         [] @ = "none" /\ s \notin {"cut", "bare"} -> s]

Note(seq, c) == Append(seq, [call |-> c, tells |-> Tells(c)])
-----------------------------------------------------------------------------
Call(c) ==
    /\ at[c] = "idle" /\ ~(hook[c] = "proxy" /\ down)
    /\ Goes(c, "called")
    /\ starts' = IF hook[c] = "langchain" THEN starts \cup {c} ELSE starts
    /\ UNCHANGED <<hook, said, got, unbuilt, unsigned, ledger, handed, down>>

(* The provider resolves, rejects - with a reason or bare - or breaks off. *)
(* The proxy leaves a response that broke off open; the worker rejects.    *)
Answer(c, s) ==
    /\ at[c] = "called"
    /\ s = "cut" => hook[c] \in ReadsBody
    /\ s = "bare" => hook[c] = "chat"
    /\ said' = [said EXCEPT ![c] = s]
    /\ IF EndsHere(hook[c], s)
       THEN /\ Goes(c, "done")
            /\ got' = [got EXCEPT ![c] = IF s = "cut" /\ hook[c] = "proxy" THEN "none" ELSE "error"]
       ELSE /\ Goes(c, "build")
            /\ got' = IF hook[c] \in AnswersFirst THEN Answered(c, s) ELSE got
    /\ starts' = IF s = "ok" THEN starts \ {c} ELSE starts
    /\ UNCHANGED <<hook, unbuilt, unsigned, ledger, handed, down>>

(* Building the event throws (userIdResolver, JSON.stringify, json.dumps). *)
(* The proxy builds it in an async listener: the unhandled rejection ends  *)
(* the process, and every connection through it.                           *)
BuildFails(c) ==
    /\ at[c] = "build"
    /\ unbuilt' = unbuilt \cup {c}
    /\ IF hook[c] = "proxy"
       THEN /\ down' = TRUE
            /\ at'  = [d \in Calls |-> IF hook[d] = "proxy" /\ at[d] # "idle" THEN "done" ELSE at[d]]
            /\ got' = [d \in Calls |-> IF hook[d] = "proxy" /\ at[d] = "called" THEN "reset" ELSE got[d]]
       ELSE /\ Goes(c, "done")
            /\ got' = IF hook[c] \in BuildReachesCaller
                      THEN [got EXCEPT ![c] = "thrown"] ELSE Answered(c, said[c])
            /\ UNCHANGED down
    /\ UNCHANGED <<hook, said, unsigned, ledger, handed, starts>>

(* Mutant: an error of signReceipt is not swallowed.                       *)
SignFailsThrowing(c) ==
    /\ at[c] = "build" /\ hook[c] \in Signing
    /\ unsigned' = unsigned \cup {c}
    /\ Goes(c, "done")
    /\ got' = [got EXCEPT ![c] = IF @ = "none" THEN "thrown" ELSE @]
    /\ UNCHANGED <<hook, said, unbuilt, ledger, handed, starts, down>>

(* signReceipt throws: captureAndSign logs it and returns null.            *)
SignFails(c) ==
    /\ at[c] = "build" /\ hook[c] \in Signing
    /\ unsigned' = unsigned \cup {c}
    /\ Goes(c, "done")
    /\ got' = Answered(c, said[c])
    /\ UNCHANGED <<hook, said, unbuilt, ledger, handed, starts, down>>

(* The event is built, signed and, in the same turn, handed to onReceipt or*)
(* the network.  The Portkey guardrail keeps the receipt to itself.  A     *)
(* listener's caller goes on at once.                                      *)
Emit(c) ==
    /\ at[c] = "build"
    /\ ledger' = IF hook[c] \in Signing THEN Note(ledger, c) ELSE ledger
    /\ IF hook[c] = "portkey"
       THEN Goes(c, "done") /\ UNCHANGED handed
       ELSE Goes(c, "deliver") /\ handed' = Note(handed, c)
    /\ got' = IF hook[c] \in {"listener", "portkey"} THEN Answered(c, said[c]) ELSE got
    /\ UNCHANGED <<hook, said, unbuilt, unsigned, starts, down>>

(* onReceipt or the request settles; what it rejects with is dropped, and  *)
(* nothing is handed on twice.                                             *)
Delivered(c) ==
    /\ at[c] = "deliver"
    /\ Goes(c, "done")
    /\ got' = Answered(c, said[c])
    /\ UNCHANGED <<hook, said, unbuilt, unsigned, ledger, handed, starts, down>>

(* onReceipt never settles, or the proxy's request does not.  The Python   *)
(* senders have a timeout.                                                 *)
DeliveryHangs(c) ==
    /\ at[c] = "deliver" /\ hook[c] \in Signing \cup {"worker"}
    /\ Goes(c, "hung")
    /\ UNCHANGED <<hook, said, got, unbuilt, unsigned, ledger, handed, starts, down>>

Step(c) == BuildFails(c) \/ SignFails(c) \/ Emit(c) \/ Delivered(c) \/ DeliveryHangs(c)

Next == \E c \in Calls :
            \/ Call(c) \/ Step(c)
            \/ \E s \in {"ok", "error", "bare", "cut"} : Answer(c, s)

Spec == Init /\ [][Next]_captureVars
-----------------------------------------------------------------------------
Of(seq, c) == {i \in DOMAIN seq : seq[i].call = c}

Records(seq, c) == {seq[i] : i \in Of(seq, c)}

Precedes(seq, c, d) == \E i \in Of(seq, c) : \E j \in Of(seq, d) : i < j

(* Calls whose receipt is signed here and handed on.                       *)
SignedHere == {c \in Calls : hook[c] \in Signing \ {"portkey"}}

(* "The adapter MUST NOT raise from sign failures, receipts MUST NOT take  *)
(* down the AI call they instrument" (adapters/common.ts:5-6): the caller  *)
(* gets what the provider answered.  The exceptions are an event that      *)
(* cannot be built, a rejection without a reason, and a proxy that died of *)
(* another call's event.                                                   *)
CallIsUnharmed ==
    \A c \in Calls :
        \/ got[c] = "none"
        \/ got[c] = said[c]
        \/ said[c] = "cut" /\ got[c] = (IF hook[c] = "worker" THEN "error" ELSE "ok")
        \/ said[c] = "bare" /\ got[c] = "nothing"
        \/ got[c] = "thrown" /\ c \in unbuilt /\ hook[c] \in BuildReachesCaller
        \/ got[c] = "reset" /\ \E d \in unbuilt : hook[d] = "proxy"

(* Of every call that is over there is one receipt, or event, that tells   *)
(* what its caller got, handed on in chain order; or the reason is known   *)
(* why there is none.                                                      *)
OutcomeIsReceipted ==
    /\ \A c \in Calls :
          /\ at[c] \in {"done", "hung"} =>
                \/ c \in unbuilt \cup unsigned
                \/ hook[c] = "proxy" /\ down
                \/ hook[c] \notin ReceiptsErrors /\ said[c] \in {"error", "cut"}
                \/ /\ Cardinality(Of(ledger, c)) = IF hook[c] \in Signing THEN 1 ELSE 0
                   /\ hook[c] # "portkey" => Cardinality(Of(handed, c)) = 1
          /\ \A i \in Of(ledger, c) \cup Of(handed, c) : said[c] # "none"
          /\ \A i \in Of(ledger, c) : ledger[i].tells = "error" <=> said[c] = "error"
          /\ c \in starts => said[c] # "ok"
    /\ \A c \in SignedHere : Records(handed, c) = Records(ledger, c)
    /\ \A c, d \in SignedHere : Precedes(handed, c, d) <=> Precedes(ledger, c, d)

(* onReceipt is "fired after each receipt is signed" (common.ts:20): what  *)
(* is on the chain was handed on.                                          *)
SignedIsHandedOn == \A i \in DOMAIN ledger : Of(handed, ledger[i].call) # {}

(* A call the provider answers comes to an end for its caller, whatever    *)
(* becomes of its receipt - unless it waits for an onReceipt that hangs, or*)
(* its response broke off in the proxy.                                    *)
EveryCallSettles ==
    \A c \in Calls : said[c] # "none" ~>
        \/ got[c] # "none"
        \/ at[c] = "hung" /\ hook[c] \in AwaitsDelivery
        \/ hook[c] = "proxy" /\ said[c] = "cut"
=============================================================================

--------------------------- MODULE ExtensionSigner ---------------------------
(***************************************************************************)
(* The browser extension's service worker (browser-extension/background.js)*)
(* signing receipts: every chrome.storage.local call is awaited, so the    *)
(* handlers of several pl.sign and pl.pubkey messages, of onInstalled and  *)
(* of pl.clear interleave at each of them, the call may fail (the quota),  *)
(* and the browser may stop the worker between any two.                    *)
(*                                                                         *)
(* A receipt stands for its own hash.                                      *)
(***************************************************************************)
EXTENDS Integers, Sequences, FiniteSets

CONSTANTS Messages,     \* pl.sign messages
          KeyCalls,     \* pl.pubkey messages and the onInstalled event
          MaxInFlight,  \* events handled at the same time
          Genesis, NoKey,
          Cap,          \* 1000: receipts kept in local storage
          MaxStops      \* bound: times the worker is stopped or a call fails

ExtensionAssumption ==
    /\ MaxInFlight \in Nat \ {0} /\ Cap \in Nat \ {0} /\ MaxStops \in Nat
    /\ NoKey \notin Messages \cup KeyCalls

VARIABLES
    storedKey,  \* pl.priv
    chain,      \* pl.chain
    receipts,   \* pl.receipts, newest first
    pc,         \* pc[m]: the await message m is at
    priv,       \* priv[m]: the key m works with
    prev,       \* prev[m]: the chain state m loaded
    list,       \* list[m]: the receipt list m read
    sent,       \* history: receipts returned since the last clear, in order
    stops,      \* times the worker was stopped or a call failed
    overlapped  \* history: the windows two handlers, or one and a clear, were in

vars == <<storedKey, chain, receipts, pc, priv, prev, list, sent, stops, overlapped>>
-----------------------------------------------------------------------------
GenesisChain == [height |-> 0, hash |-> Genesis]

(* The receipt m builds on the chain state it loaded.                      *)
Receipt(m) == [id |-> m, height |-> prev[m].height + 1, prev |-> prev[m].hash,
               key |-> priv[m]]

Handlers == Messages \cup KeyCalls
InFlight == {m \in Handlers : pc[m] \notin {"new", "done", "stopped"}}

Init ==
    /\ storedKey = NoKey
    /\ chain     = GenesisChain
    /\ receipts  = <<>>
    /\ pc        = [m \in Handlers |-> "new"]
    /\ priv      = [m \in Handlers |-> NoKey]
    /\ prev      = [m \in Messages |-> GenesisChain]
    /\ list      = [m \in Messages |-> <<>>]
    /\ sent      = <<>>
    /\ stops     = 0
    /\ overlapped = {}

Goes(m, to) == pc' = [pc EXCEPT ![m] = to]

(* m enters a window, of the awaits `at`, that another handler is in.      *)
Enters(m, window, at) ==
    overlapped' = IF \E n \in Handlers \ {m} : pc[n] \in at
                  THEN overlapped \cup {window} ELSE overlapped
-----------------------------------------------------------------------------
(* Where m goes on with its key.                                           *)
WithKey(m) == IF m \in KeyCalls THEN "done" ELSE "load"

(* An event arrives; ensureKey reads the key, or generates one (named after*)
(* the event) and goes on to store it.                                     *)
EnsureKey(m) ==
    /\ pc[m] = "new" /\ Cardinality(InFlight) < MaxInFlight
    /\ IF storedKey # NoKey
       THEN priv' = [priv EXCEPT ![m] = storedKey] /\ Goes(m, WithKey(m)) /\ UNCHANGED overlapped
       ELSE /\ priv' = [priv EXCEPT ![m] = m] /\ Goes(m, "storekey")
            /\ Enters(m, "key", {"storekey"})
    /\ UNCHANGED <<storedKey, chain, receipts, prev, list, sent, stops>>

(* Mutant: a generated key is used but not stored.                         *)
StoreKeyForgotten(m) ==
    /\ pc[m] = "storekey"
    /\ Goes(m, WithKey(m))
    /\ UNCHANGED <<storedKey, chain, receipts, priv, prev, list, sent, stops, overlapped>>

(* ensureKey stores the generated key.                                     *)
StoreKey(m) ==
    /\ pc[m] = "storekey"
    /\ storedKey' = priv[m]
    /\ Goes(m, WithKey(m))
    /\ UNCHANGED <<chain, receipts, priv, prev, list, sent, stops, overlapped>>

(* loadChain; the receipt is then built, hashed and signed (signAsync).    *)
LoadChain(m) ==
    /\ pc[m] = "load"
    /\ prev' = [prev EXCEPT ![m] = chain]
    /\ Goes(m, "savechain")
    /\ Enters(m, "chain", {"savechain"})
    /\ UNCHANGED <<storedKey, chain, receipts, priv, list, sent, stops>>

(* Mutant: the chain is saved after the receipt is appended (or not).      *)
SaveChainLater(m) ==
    /\ pc[m] = "savechain"
    /\ Goes(m, "readlist")
    /\ Enters(m, "append", {"readlist", "writelist"})
    /\ UNCHANGED <<storedKey, chain, receipts, priv, prev, list, sent, stops>>

(* saveChain: set, not compare-and-set.                                    *)
SaveChain(m) ==
    /\ pc[m] = "savechain"
    /\ chain' = [height |-> prev[m].height + 1, hash |-> m]
    /\ Goes(m, "readlist")
    /\ Enters(m, "append", {"readlist", "writelist"})
    /\ UNCHANGED <<storedKey, receipts, priv, prev, list, sent, stops>>

(* appendReceipt reads the list ...                                        *)
ReadList(m) ==
    /\ pc[m] = "readlist"
    /\ list' = [list EXCEPT ![m] = receipts]
    /\ Goes(m, "writelist")
    /\ Enters(m, "list", {"writelist"})
    /\ UNCHANGED <<storedKey, chain, receipts, priv, prev, sent, stops>>

(* Mutant: the newest receipts beyond the cap are the ones dropped.        *)
UnshiftedDropNewest(m) == IF Len(list[m]) >= Cap THEN list[m]
                          ELSE <<Receipt(m)>> \o list[m]

(* ... puts the new receipt first, dropping the oldest beyond the cap ...  *)
Unshifted(m) == SubSeq(<<Receipt(m)>> \o list[m], 1,
                       IF Len(list[m]) + 1 > Cap THEN Cap ELSE Len(list[m]) + 1)

(* ... and writes it back; the receipt is returned.                        *)
WriteList(m) ==
    /\ pc[m] = "writelist"
    /\ receipts' = Unshifted(m)
    /\ sent' = Append(sent, Receipt(m))
    /\ Goes(m, "done")
    /\ UNCHANGED <<storedKey, chain, priv, prev, list, stops, overlapped>>

(* Handlers that loaded the chain and have not written the list yet.       *)
UnderWay == {m \in Handlers : pc[m] \in {"savechain", "readlist", "writelist"}}

(* pl.clear from an extension page; with nobody on the way it starts afresh*)
Clear ==
    /\ Cardinality(InFlight) < MaxInFlight
    /\ receipts' = <<>>
    /\ chain'    = GenesisChain
    /\ sent'     = <<>>
    /\ overlapped' = IF UnderWay # {} THEN overlapped \cup {"clear"} ELSE overlapped \cap {"key"}
    /\ UNCHANGED <<storedKey, pc, priv, prev, list, stops>>

(* The browser stops the worker; storage stays.                            *)
Stop ==
    /\ stops < MaxStops /\ InFlight # {}
    /\ pc' = [m \in Handlers |-> IF m \in InFlight THEN "stopped" ELSE pc[m]]
    /\ stops' = stops + 1
    /\ UNCHANGED <<storedKey, chain, receipts, priv, prev, list, sent, overlapped>>

(* A storage call of m's rejects: nothing is stored, and nobody catches it.*)
CallFails(m) ==
    /\ stops < MaxStops /\ m \in InFlight
    /\ Goes(m, "stopped")
    /\ stops' = stops + 1
    /\ UNCHANGED <<storedKey, chain, receipts, priv, prev, list, sent, overlapped>>

Next == \/ \E m \in Handlers : EnsureKey(m) \/ StoreKey(m) \/ CallFails(m)
        \/ \E m \in Messages : \/ LoadChain(m) \/ SaveChain(m)
                               \/ ReadList(m) \/ WriteList(m)
        \/ Clear
        \/ Stop

Spec == Init /\ [][Next]_vars
-----------------------------------------------------------------------------
(* "Your monotonically increasing chain position" (README.md:37): no two   *)
(* returned receipts share a position.                                     *)
OnePerPosition ==
    \A i, j \in 1..Len(sent) : sent[i].height = sent[j].height => i = j

(* "signs a cryptographic receipt locally - keeps the audit trail under    *)
(* your control" (README.md:3): the stored list is what was returned, the  *)
(* newest first, without what Cap newer ones pushed out.                   *)
ReturnedAreKept ==
    /\ Len(receipts) = IF Len(sent) > Cap THEN Cap ELSE Len(sent)
    /\ \A i \in 1..Len(receipts) : receipts[i] = sent[Len(sent) + 1 - i]

(* The stored list is newest first along the chain, gaps (a worker stopped *)
(* between saveChain and the append) included, and ends at or below the    *)
(* stored chain position.                                                  *)
ListFollowsChain ==
    /\ \A i \in 1..(Len(receipts) - 1) : receipts[i].height > receipts[i+1].height
    /\ receipts # <<>> => receipts[1].height <= chain.height

(* "Ed25519 signature with your local key" (README.md:40), of which there  *)
(* is one: every returned receipt is signed with the stored key, and       *)
(* every public key handed out is its.                                     *)
OneSigningKey ==
    /\ \A i \in 1..Len(sent) : sent[i].key = storedKey
    /\ \A k \in KeyCalls : pc[k] = "done" => priv[k] = storedKey

(* Each of the above fails only by an overlap of its own, which nothing in *)
(* background.js prevents: positions, when two handlers are between loading*)
(* and saving the chain; the list, when two are between reading and writing*)
(* it; its order, also when one overtakes another after it saved the chain;*)
(* the key, when two generate one at once.  A clear while a handler is     *)
(* under way disturbs all but the key, until the next clear.               *)
ListKeepsChain ==
    /\ overlapped \cap {"chain", "clear"} = {} => OnePerPosition
    /\ overlapped \cap {"list", "clear"} = {} => ReturnedAreKept
    /\ overlapped \cap {"chain", "append", "clear"} = {} => ListFollowsChain
    /\ "key" \notin overlapped => OneSigningKey
=============================================================================

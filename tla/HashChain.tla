------------------------------ MODULE HashChain ------------------------------
(***************************************************************************)
(* What the signing layer of the SDK promises, whatever store backs it     *)
(* (src/chain-store.ts:1-18, the advance procedure of                      *)
(* spec/PL-RFC-003-chain-semantics.md): every tenant has one append-only   *)
(* chain; a receipt enters it at the next height, linked to the current    *)
(* tip, once; and only receipts that are in the chain are handed to        *)
(* callers.                                                                *)
(*                                                                         *)
(* A receipt hash is modelled by the receipt id: every receipt carries a   *)
(* fresh UUID inside the hashed body, so hashes are as distinct as ids.    *)
(***************************************************************************)
EXTENDS Integers, Sequences

CONSTANTS Tenants,      \* tenant ids
          ReceiptIds,   \* receipt ids, standing for receipt hashes as well
          Genesis       \* GENESIS_HASH, the "previous hash" of a first receipt

VARIABLES chain,        \* chain[t]: the receipts of tenant t in commit order
          delivered     \* receipts that some caller has been handed

vars == <<chain, delivered>>

Receipt == [id : ReceiptIds, tenant : Tenants,
            height : Nat \ {0}, prev : ReceiptIds \cup {Genesis}]

Tip(t) == IF chain[t] = <<>> THEN Genesis ELSE chain[t][Len(chain[t])].id

-----------------------------------------------------------------------------

Init == /\ chain = [t \in Tenants |-> <<>>]
        /\ delivered = {}

(* The receipt r may enter the chain: it is the successor of its tenant's  *)
(* tip and is in no chain yet.                                             *)
Follows(r) == /\ r \in Receipt
              /\ r.height = Len(chain[r.tenant]) + 1
              /\ r.prev = Tip(r.tenant)
              /\ \A t \in Tenants : \A i \in 1..Len(chain[t]) : chain[t][i].id # r.id

(* Tenant t's chain grows by one receipt, the last of the new chain.       *)
Extend(t) == /\ Len(chain'[t]) = Len(chain[t]) + 1
             /\ LET r == chain'[t][Len(chain[t]) + 1]
                IN  /\ r.tenant = t
                    /\ Follows(r)
                    /\ chain' = [chain EXCEPT ![t] = Append(@, r)]
             /\ UNCHANGED delivered

(* A caller may be handed a receipt only after it is in the chain.         *)
Deliver(t) == \E i \in 1..Len(chain[t]) :
                  /\ delivered' = delivered \cup {chain[t][i]}
                  /\ UNCHANGED chain

Next == \E t \in Tenants : Extend(t) \/ Deliver(t)

Spec == Init /\ [][Next]_vars
=============================================================================

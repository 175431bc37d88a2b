---------------------------- MODULE MCLocalChains ----------------------------
(***************************************************************************)
(* The signers that keep their chain on the user's machine: the TypeScript *)
(* SDK's file store, which this module extends, the other SDKs' chain      *)
(* files, the browser extension's local storage - and in another part of   *)
(* that storage the corporate identity that identity.js keeps for receipts.*)
(* Each has its own place, so a behaviour exercises the one it chooses at  *)
(* the start, and the others stay as they began.                           *)
(***************************************************************************)
EXTENDS FileSigner, Sequences, TLC

CONSTANTS k1, k2, k3, p1, p2,
          Messages, KeyCalls, MaxInFlight, NoKey, Cap, MaxStops,
          s1, s2, s3, s4, Signers, LangOf, PortTenants, AsciiLetters, OtherLetters,
          NoChainFile, Vacant, Partial, Throws, MaxMishaps,
          Empty, Absent, NoHeight, NoReceipt, NoIntegrity, NoSignatures, NoPredecessor,
          Malformed,
          SignIns, Policies, Issuers, Users, NoPolicy, NoIssuer, NoIdentity, NoToken,
          Alias, Ttl, Leeway, MaxNow, MaxKeys

VARIABLES
    place,      \* the place of this behaviour's chain
    storedKey, chain, receipts, worker, priv, prev, list, sent, stops, overlapped,
    disk, at, tenant, state, returned, signed, unsaved, restarts, overlaps, mishaps,
    managed, cached, corporate, token, step, policy, answer, keys, expected,
    claimed, published, time, consented, issued

(* Two tasks in one Node process and a third in another.                   *)
MCProcOf == k1 :> p1 @@ k2 :> p1 @@ k3 :> p2

Extension == INSTANCE ExtensionSigner WITH pc <- worker

(* One signer of every language; two tenants that Go and Rust, but not Java*)
(* and Python, give one file.                                              *)
MCLangOf  == s1 :> "go" @@ s2 :> "java" @@ s3 :> "rust" @@ s4 :> "python"
MCTenants == {<<"a", "e-acute">>, <<"a", ".">>}

Ports == INSTANCE PortSigner
            WITH Tenants <- PortTenants, GenesisHash <- Genesis, NoHash <- Empty

Port == INSTANCE PortVerifiers WITH Keys <- {"k"}

(* Two tenants: the policy of one names the identity provider, the other's *)
(* names none.                                                             *)
MCPolicies == {[tenant |-> "acme", issuer |-> "idp"], [tenant |-> "zen", issuer |-> NoIssuer]}

Identity == INSTANCE CorporateIdentity

(* Sign-ins differ in nothing but their names.                             *)
MCSymmetry == Permutations(SignIns)

(* The verifiers' names for what is missing or malformed, and what they    *)
(* are the names of nothing of: the parts of a returned receipt.           *)
Markers == {Absent, NoHeight, NoReceipt, NoIntegrity, NoSignatures, NoPredecessor, Malformed}

Heights   == {"int"} \X Int
Envelopes == [hash : {"right"}, height : Heights, prev : Signers \cup {Genesis, Empty},
              imprint : {"none"},
              sigs : Seq([alg : {"EdDSA"}, kid : {"k"}, good : {TRUE}, text : {"standard"}])]
Heads     == [hash : Signers, height : Heights]

ASSUME LocalAssumption ==
    /\ FileAssumption /\ Extension!ExtensionAssumption /\ Ports!PortAssumption
    /\ Identity!IdentityAssumption
    /\ Markers \cap ({"right"} \cup Signers \cup {Genesis, Empty}) = {}
    /\ Markers \cap Int = {} /\ Markers \cap Heights = {}
    /\ Markers \cap Envelopes = {} /\ Markers \cap Heads = {}
    /\ NoPredecessor # Malformed

extensionVars == <<storedKey, chain, receipts, worker, priv, prev, list, sent, stops, overlapped>>
portVars      == <<disk, at, tenant, state, returned, signed, unsaved, restarts, overlaps, mishaps>>
identityVars  == <<managed, cached, corporate, token, step, policy, answer, keys, expected,
                   claimed, published, time, consented, issued>>

localVars == <<place, vars, extensionVars, portVars, identityVars>>
-----------------------------------------------------------------------------
(* Only the file store looks at the legacy file.                           *)
LocalInit ==
    /\ place \in {"file", "extension", "ports", "identity"}
    /\ Init /\ Extension!Init /\ Ports!Init /\ Identity!Init
    /\ place # "file" => legacy = NoFile

LocalNext ==
    \/ /\ place = "file" /\ Next
       /\ UNCHANGED <<place, extensionVars, portVars, identityVars>>
    \/ /\ place = "extension" /\ Extension!Next
       /\ UNCHANGED <<place, vars, portVars, identityVars>>
    \/ /\ place = "ports" /\ Ports!Next
       /\ UNCHANGED <<place, vars, extensionVars, identityVars>>
    \/ /\ place = "identity" /\ Identity!Next
       /\ UNCHANGED <<place, vars, extensionVars, portVars>>

LocalSpec == LocalInit /\ [][LocalNext]_localVars
-----------------------------------------------------------------------------
(* Extension: no two returned receipts share a position, the stored list   *)
(* is what was returned, along the chain, and one key signs it all - unless*)
(* two handlers, or a handler and a clear, overlap where that matters.     *)
ListKeepsChain == Extension!ListKeepsChain

(* Extension: the identity kept for receipts is one that was vouched for.  *)
IdentityIsVouched == Identity!IdentityIsVouched

(* Other SDKs: an undisturbed file holds one chain, and forks of a tenant  *)
(* come of a disturbed file, a name no two languages agree on or one that  *)
(* two tenants share.                                                      *)
ForkIsExplained == Ports!UntroubledFilesAreChains /\ Ports!ForkIsExplained

(* Whatever an SDK returns is accepted by every SDK's verifier, alone and  *)
(* behind the receipt it names - except what Go builds on a file that does *)
(* not parse, which no SDK accepts.                                        *)
ReturnedVerifies ==
    \A r \in returned :
        LET e == Ports!Envelope(r)
        IN  \A l \in Port!Languages :
                IF r.prev = Empty
                THEN LangOf[r.by] = "go" /\ Port!Verify(l, e, NoPredecessor) # "valid"
                ELSE /\ Port!Verify(l, e, NoPredecessor) = "valid"
                     /\ \A q \in returned : r.prev = q.by =>
                           Port!Verify(l, e, [hash |-> q.by, height |-> <<"int", q.height>>]) = "valid"
=============================================================================

------------------------------ MODULE PortSigner ------------------------------
(***************************************************************************)
(* signReceipt of the Go, Java, Rust and Python SDKs on the chain files of *)
(* .ledger/chains: threads and processes of several languages that share   *)
(* the directory.  None of them locks, re-reads or compares anything: load *)
(* the state, build, hash and sign the receipt, write the state, return.   *)
(*                                                                         *)
(* A write truncates the file and then fills it, so there is a moment, and *)
(* after a crash or a full disk a state, in which the file is Vacant or    *)
(* Partial.  What a language makes of such a file is where they differ.    *)
(***************************************************************************)
EXTENDS Integers, Sequences, FiniteSets

CONSTANTS Signers,      \* threads that sign, one receipt each
          LangOf,       \* LangOf[p]: the language p is written in
          Tenants,      \* tenant ids, as sequences of characters
          AsciiLetters, OtherLetters,   \* letters and digits; "-" is kept too
          GenesisHash,
          NoHash,       \* Go's empty string
          NoChainFile, Vacant, Partial, Throws,
          MaxMishaps    \* bound: crashes and failing reads and writes

(* What a chain file that is one holds; a receipt's hash is named after its*)
(* signer.                                                                 *)
ChainFile == [height : Nat, hash : Signers \cup {GenesisHash, NoHash}]

PortAssumption ==
    /\ LangOf \in [Signers -> {"go", "java", "rust", "python"}]
    /\ Tenants # {} /\ Tenants \subseteq Seq(STRING)
    /\ "_" \notin AsciiLetters \cup OtherLetters
    /\ GenesisHash \notin Signers /\ NoHash \notin Signers /\ GenesisHash # NoHash
    /\ {NoChainFile, Vacant, Partial, Throws} \cap ChainFile = {}
    /\ NoChainFile \notin {Vacant, Partial, Throws} /\ Throws \notin {Vacant, Partial}

VARIABLES
    disk,       \* disk[n]: the chain file of sanitized name n
    at,         \* at[p]: where signer p is
    tenant,     \* tenant[p]: the tenant p signs for
    state,      \* state[p]: the chain state p loaded
    returned,   \* history: receipts returned, as [by, tenant, height, prev, name]
    signed,     \* history: those, and receipts whose state was written only
    unsaved,    \* history: receipts returned although their state was not written
    restarts,   \* history: signers that took an unreadable file for a new chain
    overlaps,   \* history: pairs of signers at work on one file together
    mishaps     \* crashes and failures so far

portVars == <<disk, at, tenant, state, returned, signed, unsaved, restarts, overlaps, mishaps>>
-----------------------------------------------------------------------------
(* safeTenant: Go and Rust keep ASCII letters, Java and Python any letter. *)
SafeTenant(lang, t) ==
    LET Kept == AsciiLetters \cup {"-"} \cup (IF lang \in {"java", "python"} THEN OtherLetters ELSE {})
    IN  [i \in DOMAIN t |-> IF t[i] \in Kept THEN t[i] ELSE "_"]

Name(p) == SafeTenant(LangOf[p], tenant[p])

Names == {SafeTenant(l, t) : l \in {"go", "java"}, t \in Tenants}

Fresh == [height |-> 0, hash |-> GenesisHash]

(* go loadChainState: no file, or none that can be read, is a new chain; a *)
(* file that is not JSON leaves the zero values of the struct.             *)
LoadGo(content, unreadable) ==
    IF unreadable \/ content = NoChainFile THEN Fresh
    ELSE IF content \in {Vacant, Partial} THEN [height |-> 0, hash |-> NoHash]
    ELSE content

(* java loadChain: an IOException, which a syntax error is too, is ignored;*)
(* an empty file parses to a missing node, which is not an ObjectNode.     *)
LoadJava(content, unreadable) ==
    IF ~unreadable /\ content = Vacant THEN Throws
    ELSE IF unreadable \/ content \in {NoChainFile, Partial} THEN Fresh
    ELSE content

(* Mutant: fields that are missing from the file have a default.           *)
LoadRustDefault(content, unreadable) ==
    IF unreadable \/ content \in {NoChainFile, Vacant} THEN Fresh
    ELSE IF content = Partial THEN [height |-> 0, hash |-> NoHash]
    ELSE content

(* rust load_chain: anything but a state is a new chain.                   *)
LoadRust(content, unreadable) ==
    IF unreadable \/ content \in {NoChainFile, Vacant, Partial} THEN Fresh ELSE content

(* python _load_chain_state: only an absent file is a new chain.           *)
LoadPython(content, unreadable) ==
    IF content = NoChainFile THEN Fresh
    ELSE IF unreadable \/ content \in {Vacant, Partial} THEN Throws
    ELSE content

LoadAs(lang, content, unreadable) ==
    CASE lang = "go"     -> LoadGo(content, unreadable)
      [] lang = "java"   -> LoadJava(content, unreadable)
      [] lang = "rust"   -> LoadRust(content, unreadable)
      [] lang = "python" -> LoadPython(content, unreadable)

(* Mutant: the height of the new state is that of the loaded one.          *)
AdvancedSameHeight(p) == [height |-> IF state[p].height = 0 THEN 1 ELSE state[p].height, hash |-> p]

(* The state to save.                                                      *)
Advanced(p) == [height |-> state[p].height + 1, hash |-> p]

(* The receipt p builds on the state it loaded.                            *)
Draft(p) == [by |-> p, tenant |-> tenant[p], height |-> state[p].height + 1,
             prev |-> state[p].hash, name |-> Name(p)]

(* The receipt as the verifiers see it.                                    *)
Envelope(r) ==
    [hash |-> "right", height |-> <<"int", r.height>>, prev |-> r.prev, imprint |-> "none",
     sigs |-> <<[alg |-> "EdDSA", kid |-> "k", good |-> TRUE, text |-> "standard"]>>]

Init ==
    /\ disk     = [n \in Names |-> NoChainFile]
    /\ at       = [p \in Signers |-> "idle"]
    /\ tenant   = [p \in Signers |-> CHOOSE t \in Tenants : TRUE]
    /\ state    = [p \in Signers |-> Fresh]
    /\ returned = {} /\ signed = {} /\ unsaved = {} /\ restarts = {} /\ overlaps = {}
    /\ mishaps  = 0

Goes(p, to) == at' = [at EXCEPT ![p] = to]
Mishap == mishaps < MaxMishaps /\ mishaps' = mishaps + 1
-----------------------------------------------------------------------------
(* signReceipt for tenant t: the file is read, or cannot be.               *)
Begin(p, t, unreadable) ==
    /\ at[p] = "idle"
    /\ IF unreadable THEN Mishap ELSE UNCHANGED mishaps
    /\ tenant' = [tenant EXCEPT ![p] = t]
    /\ LET name    == SafeTenant(LangOf[p], t)
           content == disk[name]
           loaded  == LoadAs(LangOf[p], content, unreadable)
       IN  /\ unreadable => content # NoChainFile
           /\ IF loaded = Throws
              THEN Goes(p, "threw") /\ UNCHANGED <<state, restarts>>
              ELSE /\ Goes(p, "signed")
                   /\ state' = [state EXCEPT ![p] = loaded]
                   /\ restarts' = IF content # NoChainFile /\ loaded # content
                                  THEN restarts \cup {p} ELSE restarts
           /\ overlaps' = overlaps \cup {{p, q} : q \in {q \in Signers \ {p} :
                                                  at[q] \in {"signed", "writing"} /\ Name(q) = name}}
    /\ UNCHANGED <<disk, returned, signed, unsaved>>

(* Saving opens the file, which truncates it ...                           *)
OpenFile(p) ==
    /\ at[p] = "signed"
    /\ disk' = [disk EXCEPT ![Name(p)] = Vacant]
    /\ Goes(p, "writing")
    /\ UNCHANGED <<tenant, state, returned, signed, unsaved, restarts, overlaps, mishaps>>

(* ... and writes it; the receipt is returned.                             *)
WriteFile(p) ==
    /\ at[p] = "writing"
    /\ disk' = [disk EXCEPT ![Name(p)] = Advanced(p)]
    /\ returned' = returned \cup {Draft(p)}
    /\ signed'   = signed \cup {Draft(p)}
    /\ Goes(p, "done")
    /\ UNCHANGED <<tenant, state, unsaved, restarts, overlaps, mishaps>>

(* Saving fails, before or after the file was truncated: Python raises, the*)
(* others drop the error and return the receipt.                           *)
SaveFails(p) ==
    /\ at[p] \in {"signed", "writing"}
    /\ Mishap
    /\ \/ at[p] = "signed" /\ UNCHANGED disk
       \/ at[p] = "writing" /\ \E left \in {Vacant, Partial} : disk' = [disk EXCEPT ![Name(p)] = left]
    /\ IF LangOf[p] = "python"
       THEN Goes(p, "threw") /\ UNCHANGED <<returned, signed, unsaved>>
       ELSE /\ returned' = returned \cup {Draft(p)}
            /\ signed'   = signed \cup {Draft(p)}
            /\ unsaved'  = unsaved \cup {p}
            /\ Goes(p, "done")
    /\ UNCHANGED <<tenant, state, restarts, overlaps>>

(* The process of p dies: before the write, in it, or after it and before  *)
(* the receipt is handed on.                                               *)
Crash(p) ==
    /\ at[p] \in {"signed", "writing"}
    /\ Mishap
    /\ \/ UNCHANGED <<disk, signed>>
       \/ at[p] = "writing" /\ disk' = [disk EXCEPT ![Name(p)] = Partial] /\ UNCHANGED signed
       \/ /\ at[p] = "writing"
          /\ disk'   = [disk EXCEPT ![Name(p)] = Advanced(p)]
          /\ signed' = signed \cup {Draft(p)}
    /\ Goes(p, "dead")
    /\ UNCHANGED <<tenant, state, returned, unsaved, restarts, overlaps>>

Next == \E p \in Signers :
            \/ \E t \in Tenants, unreadable \in BOOLEAN : Begin(p, t, unreadable)
            \/ OpenFile(p) \/ WriteFile(p) \/ SaveFails(p) \/ Crash(p)
-----------------------------------------------------------------------------
Troubled(name) ==
    \/ \E r \in signed : r.by \in unsaved /\ r.name = name
    \/ \E p \in restarts : Name(p) = name
    \/ \E pair \in overlaps : \E p \in pair : Name(p) = name

(* As long as nobody overlapped on its file, lost a save or took a broken  *)
(* file for a new chain, the receipts of one file are one chain: a height  *)
(* is used once and each receipt links to the one below it.                *)
UntroubledFilesAreChains ==
    /\ \A r, q \in signed :
          r.name = q.name /\ r.height = q.height => r = q \/ Troubled(r.name)
    /\ \A r \in signed :
          \/ r.prev = GenesisHash \/ Troubled(r.name)
          \/ \E b \in signed : b.name = r.name /\ b.by = r.prev /\ b.height = r.height - 1

(* A tenant's receipts are one chain only if, besides, its languages agree *)
(* on the file and no other tenant has it.                                 *)
ForkIsExplained ==
    \A r, q \in signed :
        /\ r # q /\ r.tenant = q.tenant /\ r.height = q.height =>
              Troubled(r.name) \/ r.name # q.name
        /\ r.prev = q.by /\ r.tenant # q.tenant =>
              \E i \in DOMAIN r.tenant : r.tenant[i] \notin AsciiLetters \cup {"-"}
=============================================================================

# Verification of the Ledger receipts SDK

TLA+ models of the parts of this repository that keep state, run concurrently or must agree with
each other, TLC configurations that check them on small instances, and TLAPS proofs of the results
that matter most for every value of the constants.

    tlc -workers 2 -config StoreSigner.cfg MCStoreSigner      # model-check
    tlapm StoreSignerProofs.tla                               # prove

Paths below are relative to the repository; `src/...` is the SDK's TypeScript source.
`PROJECT.json` maps every definition to the lines it models, lists the runs, the mutants (bugs a
change could introduce, each noticed by the property it is listed for) and the hazards.

## 1. Inventory

The SDK turns each AI event into a *receipt*: a canonicalized, Ed25519-signed record which carries
its tenant's chain height and the hash of the receipt before it. Everything else produces, carries,
checks or reports on receipts.

| Component | State | Operations | Talks to |
|---|---|---|---|
| chain stores and concurrent signing (`receipt.ts`, `chain-store.ts`) | one head (height, hash) per tenant: a Postgres row or an in-memory entry; per call the loaded head, the draft, the attempt | `signReceiptWithStore`: `load`, build and sign, `advance` (compare-and-set), retry on `ConcurrentChainWriteError` | Postgres; callers in other processes |
| file chain (`chain.ts`, `FileChainStateStore`) | one JSON file per tenant, a legacy file that several tenants may share by name | `signReceipt` (synchronous), `load`, `advance` | file system; other processes |
| SDKs in Go, Java, Rust, Python | the same directory of chain files | `signReceipt`, `verifyReceipt`, canonical JSON | file system; each other's receipts |
| browser extension (`browser-extension/background.js`) | key, chain head, receipt list in `chrome.storage.local` | `pl.sign`, `pl.pubkey`, `pl.clear`, `pl.list`, `onInstalled` | content script, browser |
| workflow state machine (`workflows/state-machine.ts`) | `_state`, the audit history, a promise queue | `transition` | guards, actions |
| approval workflow (`workflows/approval.ts`) | decisions, its state machine | `submit`, `expire` | state machine, clock |
| receipt pipeline (`workflows/receipt-pipeline.ts`, `zta/opa-client.ts`) | its state machine, the receipt under way | `runPipeline` | policy engine, signer, TSA, store, notifier |
| circuit breaker, idempotency store, audit outbox, rate limiter (`console/src/lib`) | sample window and probes; responses by key; the queue; timestamps of hits | `run`; `begin`, `finish`, `evict`; `enqueue`, `drain`; `hit`, `allow`, `reset` | clock, routes, handlers |
| exporters (`exporters/`) | per-sink totals | `exportReceipts` with batches and retries | SIEM sinks |
| signing providers (`hsm/`, `signing-provider.ts`, `fips.ts`) | a lazily opened HSM session, key handles, a cached public key | `sign`, `publicKey`, `close`, construction | PKCS#11 module, cloud KMS |
| guardian, key registry (`guardian.ts`, `key-management.ts`) | key records; verdicts with an expiry | `signPreVerdict`, `verifyPreVerdict`, `reviewNofM`; `add`, `retire`, `revoke`, `trustedKeys` | reviewers |
| prompt cache (`cost/dedup-cache.ts`) | answers by tenant and prompt | `get`, `put` | clock, callers |
| transparency log, Merkle trees (`transparency-log/`, `merkle.ts`) | leaf hashes, tree heads | `append`, `appendBatch`, `publishSth`, `buildBatch`, proofs and verifiers | signing provider |
| adapters and gateways (`adapters/`, `integrations/`) | calls under way, LangChain's starts | wrappers and listeners around AI calls | providers, `signReceipt`, `onReceipt`, the ingest |
| verification (`verify.ts`) | - | `verifyReceipt`, `verifyChain` | receipts from anywhere |
| cost engine (`cost/`) | bills, baselines, a savings ledger | import, dashboard, savings proof, cascade, advice, budget, carbon | receipts |
| workflow graph (`workflow-graph.ts`), query (`query/`) | - | `reconstructWorkflow`, `verifyWorkflow`; `parseQuery`, `parseQueryLLM`, `runQuery`, `runAlerts` | receipts, an LLM |
| corporate identity (`browser-extension/identity.js`) | identity, access token and policy in `chrome.storage.local`; per sign-in the state, nonce, token response and keys | `loadManagedPolicy`, `signInWithCorporateIdentity`, `verifyIdToken`, `getBoundIdentity`, `signOut` | OIDC issuer, browser, the admin's policy |
| model and use-case registries (`registries/`) | the latest entry of each id | `upsert`, `register`, `get`, `validateUsage`, `validateAssignment` | callers, who hold the entries themselves |
| evidence packs (`evidence/evidence-pack.ts`), assurance and rules (`assurance.ts`), workpapers (`mrm/`), timestamps (`timestamp.ts`, `tsa.ts`) | - | `buildEvidencePack`, `verifyEvidencePack`, `verifyAllReceiptsInPack`; `assuranceLevel`, `checkRules`; `buildWorkpaper`; `timestampReceipt`, `verifyReceiptTimestamps`, `buildTimeStampReq` | receipts, `verifyReceipt`, Merkle batches, a TSA |
| other documents, crypto, CLI, console routes and pages, site | files, databases, assets | see *Not modelled* | |

**What is hard here.** *Read, await, write*: almost every component reads state, awaits something (a
signature, a database, `crypto.subtle`, a handler) and writes what it computed from the old value;
only the chain stores guard against it, with a compare-and-set on the *height* alone. *Uncertain
outcomes*: a COMMIT whose acknowledgement is lost, a delivery that arrived and was answered by an
error, a worker stopped between two writes, a torn file. *Retries*: re-signing must follow only a
certain loss, an acknowledged batch is not sent again. *Settling in another state*: a request
admitted by a closed breaker settles when it is half-open; a key is rotated between the look-up and
the signature. *Several implementations of one thing*: five languages' signers and verifiers, two
paths to one cost figure, ten kinds of hooks for one receipt. *Liveness*: retry loops around locks,
promise queues with rejecting members, sinks that never answer.

**What makes each component correct.** Chain: one receipt per height, linked to the one below, never
another tenant's; a call commits at most one receipt; what the caller is told is true. File chains:
the same within a process, across torn writes and languages. State machine: the history is a path,
everything settles. Approval: one verdict, an approval backed by an unopposed quorum. Pipeline: its
trace is true, what it stores is on the chain. Breaker: opens on fresh evidence, keeps its cooldown.
Idempotency: replays of the same request only. Outbox: at least once, in order. Exporter: an honest
report. Providers: the reported key verifies the signature; a sound session. Guardian: only the
reviewed is cleared. Cache: own and fresh answers. Log: heads grow, proofs verify exactly what is
true. Adapters: the AI call is unharmed and truthfully receipted. Readers of a ledger: one answer.
Identity: one its issuer vouched for. Registries: versions are one chain, what is revoked serves nobody.
Documents: no claim that its receipts, signatures, keys, tokens and values do not bear out.

## 2. Modules

| Module | Models | Run |
|---|---|---|
| `HashChain` | abstract: per tenant an append-only chain; receipts are handed out after they are in it | refined by `StoreSigner` |
| `StoreSigner`, `ChainVerifier`, `MCStoreSigner` | `signReceiptWithStore` over both compare-and-set stores; `verifyChain` over what it committed | `StoreSigner`, `HeadReceipt` |
| `FileSigner` | `signReceipt` and `signReceiptWithStore` over the file store | `LocalChains` |
| `ExtensionSigner` | the extension's service worker | `LocalChains`, `ExtensionFork` |
| `PortSigner`, `PortVerifiers` | the Go, Java, Rust and Python signers on shared files; five verifiers | `LocalChains`, `Reports` |
| `StateMachine`, `Approval`, `ReceiptPipeline` | the three workflows | `Workflows` |
| `CircuitBreaker`, `Idempotency`, `AuditOutbox`, `RateLimiter` | the console's libraries | `Console`, `BreakerStuck` |
| `Pkcs11Session`, `SigningProviders` | the HSM session; providers over a rotated key | `Services` |
| `Exporter` | batches, retries, sinks that receive more than they acknowledge | `Services` |
| `Guardian` | verdicts, the gates, the key registry with keys retired and revoked | `Services` |
| `DedupCache` | the prompt cache | `Services` |
| `TransparencyLog`, `MerkleTree` | overlapping batches and publications; roots, proofs, verifiers | `Services` |
| `Registries` | versions of models and use cases, entries edited in place, the checks on them | `Services` |
| `CorporateIdentity` | OIDC sign-ins await by await, the managed policy, sign-out | `LocalChains` |
| `Capture` | AI calls through ten kinds of hooks into one chain | `Services`, `CaptureDropped` |
| `CostReport`, `Savings`, `CostAdvisor` | bills to dashboards; savings proofs; cascade, ledger, budget, advice, carbon | `Reports`, `SavingsRounding` |
| `Evidence` | packs under a Merkle root, as built and altered; the model-risk workpaper | `Reports` |
| `Assurance` | imprint verdicts, the assurance ladder, rules; the DER of a time-stamp query and a reader of it | `Reports` |
| `WorkflowGraph`, `ReceiptQuery`, `CanonicalForms` | workflow order; questions and alerts; canonical JSON in five languages | `Reports`, `PortIntegers` |
| `MCLocalChains`, `MCWorkflows`, `MCConsole`, `MCServices`, `MCReports` | compositions of the above | the runs of those names |
| `*Proofs` | theorems | TLAPS |

**Conventions.** An action is what the code does between two awaits (in one JavaScript process nothing
else runs there) or one statement of a database transaction. `pc[s]` or `at[c]` is the await a call
is at. A receipt is identified with its hash: it contains a fresh UUID, so hashes are as distinct as
ids. Contents, signatures and encodings are abstracted. Variables marked *history* are not in the
code: they record what happened for the properties. An operator whose comment begins with *Mutant*
is the definition after it with a bug, and is used by no specification. A `...Assumption` is what a
module asks of its constants; the MC modules assume them, so TLC evaluates each.

**Compositions.** Components of one MC module share no state, so a behaviour exercises the one it
chooses in its initial state (`place`, `part`, `library`, `service`, `topic`); the rest stay as they
began. Each MC module extends one component and instantiates the others. Components that do interact
are composed for real: `Approval` is on the serialized machine's queue, `ReceiptPipeline` runs several
pipelines on one chain with the policy client's own receipts, `Guardian` reads its key registry while
it changes, `Capture` signs all its calls into one chain, `ChainVerifier` reads what `StoreSigner`
committed, `PortVerifiers` what `PortSigner` returned, `Evidence` stands on the batches of
`MerkleTree`, and `Assurance` on the verifier of `PortVerifiers`.

### How state and actions correspond to the code

* `StoreSigner`. `row[t]` is the committed row (or map entry), `holder[t]` the transaction that has
  written it and not committed. `Call`, `Load`, `Build` are the loop of `receipt.ts:154-185`;
  `CasWon` / `CasLost` the statement of `advance`, which waits while another transaction holds the row;
  `Commit` and `CommitAckLost` both make it permanent, but after the second the caller sees an error;
  `Abort` is anything failing before; `ReRead` the `SELECT` after a lost compare-and-set;
  `MemoryWon` / `MemoryLost` the in-memory store; `Crash` ends a process anywhere. `ledger` (history):
  the receipts whose advance committed.
* `FileSigner`. `writeFileSync` truncates and then writes, hence `Truncate`, `Write` (or `SaveFails`, `WriteFails`)
  and `Torn` between.
  Tasks of one process exclude each other inside a save (`Busy`), tasks of two processes do not.
  `legacy` is the file under the pre-0.12.6 name, adopted only when its `tenant_id` matches.
* `ExtensionSigner`: one action per `chrome.storage.local` await, which may fail (`CallFails`), `Stop` between any
  two; `overlapped` (history) are the windows two handlers, or one and a clear, were in together.
  `PortSigner`: load, sign, truncate, fill, return; `Vacant`, `Partial` and missing files are read the
  way each language reads them; `name` is what a language makes of a tenant id.
* `StateMachine`: `queue` is the promise chain, `Validate`, `GuardPasses` / `GuardBlocks`, `Commit` /
  `ActionThrows` the awaits of `applyTransition`. `Approval`: `submit` checks and records at once, `Turn`
  is the machine taking the next transition. `ReceiptPipeline`: a run's machine state is its control
  state, `Catches` the catch block with its own transition to `failed`.
* `CircuitBreaker`: times are ages, capped where the code stops telling them apart. `Idempotency`: the
  25 ms wait of a second caller is `BeginInFlight`, then `WakeReplay` / `WakeFresh`. `AuditOutbox`: a
  `Drain` is a caller of `drain`. `RateLimiter`: `hit` has no await, so it is one step.
* `Pkcs11Session`: `ensureSession` opens, sets the session and finds the handles in separate steps;
  `close` awaits before it forgets; a call `uses` the session and handles it then reads.
  `SigningProviders`: `Rotate` may happen between `PinKey`, `CachePublicKey`, `Close`, `Reopen` and `Sign`.
* `Exporter`: `Delivered` / `Failed` are one attempt of one sink, and pick what arrived: for a failed HTTP
  send all or nothing, for a file any prefix, for syslog any part; `NextBatch` is `Promise.all`.
* `Guardian`: a verdict is the record its key signed, plus whether its bytes are still the signed ones;
  `ActionCleared` and `ReviewNofM` are the gates. `DedupCache`: ask, miss, compute elsewhere, put.
* `TransparencyLog`: `BeginPublish` reads size and root, `Signed` is the signer's answer. `MerkleTree`: the
  recursions over intervals are recursive functions, and so are the loops of `verifyConsistency` and
  `buildBatch` (`Ascended`, `Levels`, `Recomputed`, `BatchLevels`); a node is the pair of its children (SHA-256
  collision-free). `WorkflowGraph`: a turn of Kahn's loop takes a ready receipt and settles its children.
* `Capture`: `Answer` is the provider's, `BuildFails`, `SignFails`, `Emit`, `Delivered`, `DeliveryHangs` are
  the adapter's own steps; which of them reach the caller depends on the hook.
* `Registries`: an entry stands for its own hash, `versions` (history) are the entries whose hash `upsert` or
  `register` returned. `EditInPlace` is a caller changing the object `get` handed out: its content, creation time or link. The model registry is
  like the use-case registry but for the refusal of prohibited uses.
* `CorporateIdentity`: `step[s]` is the await a sign-in is at; its random `state` and `nonce` are named after
  it. `TokenAnswers` takes a proper response, one for another client, by another issuer or not valid yet, or
  one the issuer gave to another sign-in; `FetchKeys` reads the keys of that moment, which `RotateKey` changes.
* `Evidence`: a receipt is its content, what its hash was computed of, and who signed what; the hash of a
  pack is its content. `MCReports` alters each part of a pack, with the hash made anew or not. `Assurance`:
  one operator per function; of a time-stamp query the bytes, and as reference a DER reader that is not in the
  code.
* `MCReports`: a behaviour grows an input (rows of a bill, receipts, envelopes, digits) item by item in
  every order; what is computed from it is compared with a definition that is not the code's: the other
  path, the other language, the set-theoretic meaning.

## 3. Runs

| Run | States | What it shows |
|---|---|---|
| `StoreSigner` | 240,656 | two signers, two tenants, two calls each, `maxRetries` 1, both stores: an unforked chain, one commit per call, truthful outcomes, giving up needs contention, the proofs' inductive invariant; every call ends; refinement of `HashChain`; `verifyChain` accepts exactly the unbroken slices of what was committed, and calls complete exactly what `PL-RFC-003` section 4 asks for |
| `LocalChains` | 1,509,666 | file store: two tasks in one process, one in another, two tenants sharing a legacy name, a crash or a failed write. Extension: three prompts and a key request, two of them at a time, a call that fails or a worker stopped. Ports: four languages, two tenants, one mishap. They fork only for the reasons named, and every SDK verifies what every other returns. Identity: two sign-ins, two policies of which one names an issuer, a rotation, an issuer that may go by another name: the identity handed out for receipts is one that was vouched for |
| `Workflows` | 182,082 | three callers of a machine with failing guards and actions; four submits or expiries by three approvers and an outsider; two pipelines with every awaited call able to fail |
| `Console` | 19,606 | breaker: three overlapping requests; idempotency: three requests for a key with two bodies; outbox: four events, two drains, failing handlers; limiter: two hits in three ticks |
| `Services` | 588,400 | an export of three events in batches of two to two sinks with a retry; three calls on an HSM session; two rotations, and a PKCS#11 provider closed and used again; two verdicts under two keys and a threshold of 2; three clients of two tenants; eight leaves, two tree heads; two AI calls through any two of ten hooks; three changes to the registries |
| `Reports` | 261,080 | every bill of up to three rows, pair of periods, usage sample, cascade ledger, budget month, graph of three receipts of two tenants, ledger of four receipts with its questions, envelope with a predecessor, number and text; workpaper, pack with an alteration, rung, rule and byte string |
| `HeadReceipt`, `BreakerStuck`, `SavingsRounding`, `ExtensionFork`, `PortIntegers`, `CaptureDropped` | violations | see *Findings* |

Of `StoreSigner`, `ImplementsHashChain` is the refinement. What `Reports` compares: a bill imported row by row
with the same bill expanded to receipts, and savings, advice, budget decisions, ledger and carbon figures
with what they may claim, and a workpaper with the receipts it cites (`FiguresAreReal`); a pack with what was
sealed, a level and a rule with what was verified (`EvidenceIsExact`); the order of a workflow with the
definition of a topological order (`WorkflowOrderIsExact`); questions, alerts and dashboard with each other
(`OneLedgerOneAnswer`); five verifiers (`VerifiersAgree`); five canonical forms, and a query's bytes with a DER
reader (`CanonicalFormsAgree`).

**Bounds.** Two signers suffice for every race on a row (loser, winner, lock waiter); two calls each let a
second call meet what the first left; `MaxRetries = 1` has a first attempt, a retry and a give-up. Two
tenants show independence. Three requests let a breaker be closed by one while two are under way and
give an idempotency key an executor, a waiter and a late caller. Windows of 2 ticks give every
comparison a value below, at and above its limit. `Cap = 2` makes the receipt list overflow. Three
events in batches of two make a full and a short batch; `Retries = 1` lets a failed attempt have
arrived. Three session calls are a builder, a signer and a closer. Three versions allow a rotation at
each of two moments. Two verdicts are the least a threshold of two can accept, or refuse when they
share a key. Eight leaves reach both neighbours of every power of two up to them. Two AI calls meet each
other in the one process of the proxy. Two sign-ins, two tenants of which one names an issuer, and
two keys let each sign-in be overtaken by the other, by a sign-out, a policy or a rotation; which of the two has which name makes no
difference (`MCSymmetry`). Three changes make a version, an edit in
place and the version after it. In `Reports` prices, thresholds and the number of significant
bits (`Bits`, 53 in a double) are scaled down together with the inputs, so that every threshold is met,
missed and equalled; the theorems remove the bounds where they exist. `MaxCalls`, `MaxSamples`,
`MaxHistory`, `MaxStops`, `MaxMishaps`, `MaxVerdicts`, `MaxTime`, `MaxMs`, `MaxHeads`, `MaxSessions`, `MaxNow`,
`MaxKeys`, `MaxChanges` only bound the state space. `CHECK_DEADLOCK FALSE` is set where a finite supply of calls lets a system come
to rest; `StoreSigner` has the explicit action `Done` instead.

**Fairness.** Safety is checked and proved without any. For liveness: an await that can resume resumes
(weak fairness of each call's own step). `StoreSigner` uses strong fairness of a signer's step, because a
row lock is free and taken again in turn and the database queues waiters. `Console` assumes of the outbox
that a handler retried for ever does not fail for ever (strong fairness of `HandlerResolves`), with no
such assumption elsewhere. `Services`: a sink that is not `Hanging` answers; the second one may never,
because no sink has a timeout. Faults (`Abort`, `Crash`, `Dies`, `Stop`, failing handlers, sends and
signers) are never forced, and nothing assumes that they stop.

## 4. Findings

* `HeadReceipt` (`HeadReceiptIsHeld`) - `PL-RFC-003` makes persisting the receipt and updating the head one atomic step.
  `advance` commits the head before anybody holds the receipt; when the acknowledgement is lost or the
  process dies, the head names a receipt that exists nowhere. Delivered receipts are committed
  (`DeliveredAreCommitted`, proved).
* `BreakerStuck` (`IdleBreakerHasProbeSlot`) - a probe that succeeds closes the breaker before the `finally` block looks at the
  state, so `halfOpenInFlight` is not decremented; the next half-open period has no slot.
* `ExtensionFork` (`OnePerPosition`) - two `pl.sign` messages in flight take the same chain position.
* `SavingsRounding` (`GrowthIsNoSaving`) - costs are stored with four decimals and the baseline's rates are those of the
  stored costs: a baseline of $0.00005 is stored as $0.0001, and the same workload many times over at the same
  prices proves a positive saving, although a team that "simply ran more calls cannot show a saving".
  `NoPhantomSavings` bounds the effect (`RoundingSlack`, half a unit or one of each stored cost, grown with the volume).
* `PortIntegers` (`PythonVerifiesInTS`) - a Python receipt with an integer that no double holds has another hash in TypeScript,
  although each SDK promises to verify the other's receipts.
* `CaptureDropped` (`SignedIsHandedOn`) - the Portkey guardrail signs a receipt, which takes a chain position, and hands it to
  nobody, although `onReceipt` is documented to fire after each.

**Where promises end.** Some properties of passing runs name the only exceptions to what a comment says:

* `KeysAreHonoured`: a handler slower than 25 ms is run again (`idempotency.ts:5-6` promises a cached
  response), and the second `finish` stores an empty body hash.
* `EventsReceivedInOrder`: only without overlapping drains, which shift each other's events.
* `AuditIsExact`: `PL-RFC-003` section 4 calls a verifier not conformant that returns valid for a sequence whose
  heights are not 1 to N. `verifyChain` returns it for slices from the middle of a chain, on purpose
  (`verify.ts:269-276`); it is `valid` together with `completeFromGenesis` that holds of exactly what conforms.
  (The genesis hash is that of the code, where the document has an empty string.)
* `UnreadableIsExplained`: `saveChainState` truncates before it writes, so a write that fails leaves an empty or
  partial file; `signReceipt` catches the failure and goes on, and every later load throws.
* `ListKeepsChain`: nothing in `background.js` serializes its handlers. Two between load and save of the chain take
  one position (`ExtensionFork`), two between read and write of the list lose a receipt, one that overtakes
  another after saving disturbs the order, two at the first start generate a key each, a `pl.clear` under way
  disturbs all but the key. Each part names its own window; within a window nothing else breaks.
* `FileChainsHold`: two processes that save at once fork. `ForkIsExplained`: so do a disturbed file, and a
  tenant name on which languages disagree, or which two tenants share once sanitized.
* `VerdictIsSound`: a rejection recorded after the quorum is without effect.
* `ReportedKeyVerifies`: an AWS alias moved after the key was cached, an Azure key rotated within
  `fromKeyId`, a PKCS#11 label given to another key while the provider was closed, whose cached public key stays
  (`pkcs11.ts:165`). `SoundUntilClosed`: after `close`, a call may use a closed session.
* `CallIsUnharmed` (in `CallsAreCaptured`): in some hooks an event that cannot be built reaches the caller,
  and one malformed body ends the proxy for everyone.
* `WorkflowOrderIsExact`: a receipt that lists a parent twice is reported as a cycle.
* `CallersAreAnswered`: a sink that never answers holds the export, but no other sink's batch.
* `VerifiersAgree`: they differ on a mismatched timestamp, which TypeScript alone looks at, and on a
  predecessor without a hash or an integer height.
* `RegistriesAreExact`: an entry a caller changed in place. `use-case-registry.ts:8-9` says that the hash is
  validated on every lookup; `get` hands out the live entry and validates nothing, so its content, its creation
  time and the link to its predecessor may change, and the next version names a hash nobody was given and keeps
  the changed time. The chain is whole between any two versions of which the earlier was left alone. An empty list of source systems approves every one, so that the first one
  added is the only addition that can refuse what was allowed.
* `EvidenceIsExact`: a pack's hash covers neither its count of receipts nor that its links are whole, its
  trusted keys are a hint, and inclusion attests no position (an index beyond the tree may combine to the
  root). An attested key may be that of any signature of a receipt, not the one that verified. An empty
  `mathematical_form` hides an expression, and a rule fails with its opposite when the value is missing - unless
  every object inherits a member of its name (`constructor`, `toString`), which `field in values`
  (`assurance.ts:154`) finds, so that a `!=` passes. The levels are those of `assuranceLevel` and its comment
  (`assurance.ts:46-51`), not those of the file's header (13-17), by which L2 has a recorded policy and a
  timestamp and L3 rules checked or an external proof: the code looks at neither policies nor rules, and an
  attested key without a timestamp is L2.
* `IdentityIsVouched`: a sign-in under way outlives a sign-out, and a policy withdrawn stays cached. The token's
  issuer is compared with the name in the discovery document (`disc.issuer ?? issuer`), whatever that name is.
  The property is of what the module hands out: no other file of the extension imports `identity.js`.

Three remarks that no property needs: a failed probe leaves the breaker half-open without a cooldown,
because `maybeOpen` acts on a closed breaker only; under the `required-strict` FIPS posture a provider
never passed through `asFipsProvider` signs all the same; and the rate limiter's `hit` records denied hits too, so
that its bucket is not "bounded by the limit itself" (`rate-limit.ts:18`), and a key stays denied until it has
been silent long enough.

## 5. Proofs

All theorems hold for any values of the constants that satisfy the module's `...Assumption` (bounds are
naturals, `NoRow` is no chain state, thresholds are positive and the like).

| Module | Theorem | Property |
|---|---|---|
| `StoreSignerProofs` | `TypeCorrect`, `Invariant`, `ChainNeverForks`, `CallCommitsOnce`, `OutcomeIsTrue`, `DeliveredStays`, `GiveUpIsContention` | `TypeOK`, `IInv`, `WellLinked`, `OneCommitPerCall`, `OutcomeMatchesLedger`, `DeliveredAreCommitted`, `GiveUpNeedsContention` |
| | `Refinement` | `Spec => HC!Spec`, with the ledger as the abstract chain |
| | `AuditIsAlwaysExact` | `AuditIsExact`: the verifier of any selection of the ledger's receipts |
| `LocalChainsProofs` | `FileTypesHold`, `FileChainsAlwaysHold`, `UnreadableIsAlwaysExplained` | `TypeOK`, `FileChainsHold`, `UnreadableIsExplained` |
| | `LocalForksAreExplained`, `LocalReceiptsVerify` | `ForkIsExplained`, `ReturnedVerifies` |
| | `LocalListKeepsChain` | `ListKeepsChain`, for any `MaxInFlight` |
| | `LocalIdentityIsVouched` | `IdentityIsVouched` |
| `StateMachineProofs`, `WorkflowsProofs` | `HistoryIsAlwaysPath`, `WorkflowHistoryIsPath` | `HistoryIsPath` |
| `WorkflowsProofs` | `VerdictIsAlwaysSound`, `WorkflowOutcomeIsTruthful` | `VerdictIsSound`, `OutcomeIsTruthful` |
| `ConsoleProofs` | `ConsoleEventsReceivedInOrder`, `BreakerIsAlwaysJustified` | `EventsReceivedInOrder`, `BreakerIsJustified` |
| | `ConsoleKeysAreHonoured`, `ConsoleQuotaHolds` | `KeysAreHonoured`, `QuotaHolds` |
| `ServicesProofs` | `SessionIsSoundUntilClosed` | `SoundUntilClosed` |
| | `ServicesReportVerifyingKeys`, `ServicesHitsAreOwnAndFresh`, `ServicesClearReviewed`, `ServicesReportIsHonest` | `ReportedKeyVerifies`, `HitIsOwnAndFresh`, `ClearedIsReviewed`, `ReportIsHonest` |
| | `ServicesHeadsAreTrue`, `ServicesCaptureCalls`, `ServicesRegistriesAreExact` | `HeadsAreTrue`, `CallsAreCaptured`, `RegistriesAreExact` |
| `MerkleTreeProofs` | `InclusionIsComplete`, `InclusionIsSound` | any log and path: what `VerifyInclusion` accepts |
| | `ConsistencyIsComplete`, `ConsistencyIsSound`, `RootIsInjective` | any two logs, any list of nodes: what `VerifyConsistency` accepts |
| | `BatchIsExact` | any batch: its levels come to the log's root, and its proofs are accepted for their own leaf only |
| | `BatchPathIsOwn` | any batch and proof: a leaf gets to the batch's root only by a path of its own, whatever index and size the proof names |
| `ServicesProofs` | `ServicesProofsAreExact` | `ProofsAreExact` |
| `ReportsProofs` | `VerifiersAlwaysAgree`, `ReportsVerifiersAgree` | `VerifiersAgree`: any envelope; the envelopes of the run |
| | `ReportsKahnIsExact`, `ReportsWorkflowOrderIsExact` | `WorkflowOrderIsExact`: any ledger of receipts with ids of their own; the ledgers of the run |
| | `RulesAlwaysDecided`, `LevelAlwaysEarned`, `PackAlwaysAsSigned`, `PackForgeryShows` | any rule and value; any envelope, trust and anchors; any receipts, keys and proof |
| | `ReportsEvidenceIsExact` | `EvidenceIsExact`: what the run compares |
| | `BudgetAlwaysHolds`, `ReportsGateKeepsBudget` | any limits and calls; of `FiguresAreReal` the part `GateKeepsBudget` |
| | `SavingsAlwaysReal` | any two dashboards that add up: `ProofIsReal`, of which the part `NoPhantomSavings` is made |

**Why inductive invariants.** None of these properties is inductive as it stands.

* `StoreSigner`: a signer amid an advance may append anything unless its draft follows the head it loaded,
  that head was one, and the chain did not move when the compare-and-set succeeds. `IInv` says so in four
  parts: `ChainInv` (the row is the tip; a loaded state was the head at its height, so equal *heights*
  imply equal *hashes*, which is why comparing heights is enough), `CallInv` (no receipt of a call is
  in a chain before its advance takes effect), `OutcomeInv`, `EffortInv` (the chain grew by a receipt per
  lost attempt). Each has a lemma for steps that leave the chain alone and one for the commit; the key
  lemma is `WinnerFollowsTip`. In the refinement a commit is `HC!Extend`, a return `HC!Deliver`.
  `AuditIsExact` follows from `ChainInv` by what `verifyChain` computes: a height order of any finite set of
  receipts exists (`SortedExists`, by the least size of a set without one), the place of a receipt in it is
  the rank of its height (`SortedRank`), a committed receipt links exactly to its predecessor
  (`CommittedLinks`), and so the failing places are those after the gaps (`SliceAudit`); without gaps down to height 1
  the rank is the height, which is what conforming means (`UnbrokenConforms`).
* `FileSigner`: what is on disk and what is about to be written is a head (`StatesAreHeads`), one task at a
  time writes a file unless two processes raced (`OneWriter`), a torn file has a writer, or a crash or a failed
  write that spoiled it (`TornHasWriter`).
  `PortSigner` (`PortInv`): a receipt is the draft of a signer that has signed, a restarted signer and one
  whose save is lost stay recorded as such, a state in memory is a head of its file, and a file nobody
  disturbed (`Troubled`) is one chain.
* `ExtensionSigner` (`ExtInv`, a part per promise, each under the windows not overlapped so far): no two
  handlers are in one window, so what a handler loaded of the chain is what is stored (`LoadedIsStored`), the
  list it read is what was returned (`ListIsReturned`), the key it works with is the stored one (`KeyIsStored`),
  and receipts are appended in the order of their heights (`OneAppends`, `SentFollowsChain`).
* `CorporateIdentity` (`IdentityInv`, per sign-in): its policy, consent, answer and the identity it is about to
  store fit the await it is at, and what is stored was stored by a sign-in that had all of them. A nonce is
  drawn by one sign-in, so an answer with it was given to that one.
* `Registries` (`RegistryInv`): versions exist of what is registered, each has a creation time, names the one
  before and keeps that one's time unless it was edited (`ChainedVersions`), and the entry is the last one
  unless that one was edited; what is carried over from an edited entry is a time too.
* `Idempotency` (`KeyInv`, per key): absent, in flight or finished, the entry, the executions counted and
  the requests at work on the key fit each other; bodies in flight are those of the handlers. `RateLimiter`
  (`RateInv`): the requests passed that are still in the window are those whose time stamps the bucket
  holds, oldest first (`Matched`), so pruning by age and counting the length is counting those passed.
* `TransparencyLog` (`LogInv`): a head, still being signed or published, has the root of the first `size`
  entries and comes after every head that was there when it was made (`TrueHead`); an acknowledged index
  holds the submitter's entry.
* `MerkleTree`: the tables of roots, siblings and sides over the ranges of a log exist (`SetInduction`, from
  the smallest range up), so each is what its recursive definition says. By the same induction the path of
  an entry has as many siblings as there are sides and combines to the root (complete), and a path that
  combines to the root of a range carries its leaf at that place (sound), because pairs are equal only if
  their halves are. Entries of a log are distinct, since each is where its one submitter was told
  (`EntriesAreAcked`), and the forged leaf is none of them (`LogAssumption`).
  Consistency, also range by range: where the verifier starts and how many levels it climbs is what the
  prover's recursion does in that range, so both roots are joined again from the nodes; conversely whatever
  list is accepted joins both roots, hence the old log is a prefix of the new one, as equal roots of as many
  entries are roots of equal entries (`RootIsInjective`). So there is none for a rewritten log.
  Batches go up level by level: `OnTheWay` says which range each node of a level is the root of, and that what
  was collected so far is the lower part of each leaf's path; the sides read off an index on the way up are
  those of the halving on the way down (`BatchSides`, by the size of the batch).
  Index and size of a proof say only how many nodes are joined and on which side, so a path that gets from a
  leaf to the root has, from the top down, a range of the log under each node it passes (`PathIsOwn`).
* `WorkflowGraph` (`KahnInv`, over the turns of the loop): the ready receipts are those whose parents are all
  placed, each listed once; the in-degree of the others is the number of their entries less those of placed
  parents. Settling a receipt's children entry by entry keeps it, the loop ends with nothing ready, and
  then everything is placed exactly if no group of receipts waits for itself - or for a parent it lists
  twice, which is subtracted once (`Tangled`). `GraphInv` says what ledger a behaviour of `MCReports` has grown.
* Evidence: a leaf is no node, so a leaf at the end of an accepted path is one of the pack's, and the path is
  that leaf's own (`PackForgeryShows`). The proof listed for an id is that of the last receipt with it, which is why
  receipts that share an id must share a leaf. A level and a rule come to one condition each, by cases of
  what each check returns.
* The budget's gate: what is spent is below the share as long as every call allowed keeps it there, call by
  call (`Held`, by induction over the calls); below a share of the budget is below the budget.
* A savings proof: the split gives each class a natural share of the cost, at most all of it (`ShareWithin`), so
  the shares summed over the models are at most the total (`SumsInOrder`, by the size of the set) and both classes
  bear a natural cost (`DashboardsHold`). A class whose tokens cost no less than before contributes nothing at
  the baseline's rate (`RateBound`), hence neither do both; and if that is so of the costs before they were
  stored, then each class adds at most its own rounding, grown as its tokens grew (`StoredRateBound`). That a dashboard's total is that of its models
  (`AddsUp`) is checked on the run's dashboards: to make them, rows are filtered and folded.
* `Capture` (`CaptureInv`): a call's phase bounds what may be recorded of it (`CallPhase`), what the caller
  got is what was said or an excused exception (`Unharmed`), and what is handed over is in the order of what
  was written down for every call signed in this process (`SameRecords`).
* `StateMachine`: only the call at the queue's head is beyond its validation (`HeadRuns`), so the state it
  validated is the state it commits on. `Approval`: the history fits the state, and every queued approval
  had its quorum before any rejection (`AskedHadQuorumFirst`).
* `ReceiptPipeline`: per run, its trace, its receipt on the chain, its token and what is stored stay in
  step with its state (`RunInv`). `AuditOutbox`: while drains do not overlap, the queue is the rest of what
  was enqueued and a handler has its head. `CircuitBreaker`: the window holds at most the samples settled
  since the breaker closed, and it opened on at least `MinRequests`.
* `Pkcs11Session`: while the builder builds nothing else runs (`WhileBuilding`); once built, and until
  `close`, session, handles and the one live session are equal (`OnceBuilt`). `SigningProviders`: cached,
  pinned and current version differ only by a rotation in that stage (`KeysInStep`). `DedupCache`:
  an entry is its slot's (`EntriesAreOwn`). `Guardian`: a verdict's hash is its action's
  (`VerdictsAreTheirActions`). `Exporter`: an event is acknowledged once at most in the batch under way and
  never before it, and exactly once earlier if the entry is ok (`EntriesFitAcks`).
* `PortVerifiers`: each verifier's checks in their order come to one condition on the envelope alone and one on
  the envelope behind its predecessor, and what a language decodes, TypeScript decodes too; so the verdicts
  differ only where the property says. `EnvelopeInv` says what envelope a behaviour of `MCReports` has grown.

Theorems about a composition use those of its components through `INSTANCE` of their proof modules: a
step of the composition is a step of the component or leaves its variables alone.

**Only model-checked:** all liveness (`CallEnds`, `ConsoleSettles`, `WorkflowsSettle`, `CallersAreAnswered`),
which is out of the prover's reach; and of `Reports`, `FiguresAreReal` but for its budget and savings proof,
`OneLedgerOneAnswer` and `CanonicalFormsAgree`, which fold, filter and sort sequences and scan texts. What a
recursion computes for every input takes an induction over data, and the library's induction theorems cannot
be instantiated here. Where a set can stand for the predicate the proof goes through without them: the least
natural of a set without the property (`LeastNat`: the order of a set, the first failing place, the oldest
live time stamp), the ranges without it (`SetInduction`: the Merkle tree), and, so that a recursive function
is what its definition says, the arguments of a rank at which no such function exists yet (`Recursion`). Of
folds over sequences and of `SelectSeq` the SMT translation knows nothing, so the modules proved about have
recursive functions instead; a fold over a finite set is one over its subsets (`SumTable`). A `violation` run refutes what it checks, so nothing is proved of it.

## 6. Not modelled

* Cryptography, schema validation, types (`crypto.ts`, `validate.ts`): stateless primitives; a hash stands
  for its content and a signature for its key.
* The answer of a time-stamp authority, which the code does not parse; the exchange is a step of the pipeline.
* Other documents (`evidence/index.ts`, `insurance`, `ai-sbom`, `credentials`, ...), functions from receipts to
  wording and layout, and the Markdown of the workpaper. Safety detectors and policy templates: pattern
  tables over text.
* Of the cost engine the HTML, the price tables, the fit score and the receipts of budget decisions; of the
  exporters the event formats; of the adapters the translation of providers' payloads; of canonicalization
  the grammar around numbers, strings and key order.
* The Kong and Cursor gateways, the CLI, the console's routes (thin, their persistence is stubbed) and
  pages, the site, scripts and deployment.

------------------------------ MODULE MCServices ------------------------------
(***************************************************************************)
(* The stateful services of the SDK around the chain: the PKCS#11 session, *)
(* which this module extends, the exporter, the signing providers, the     *)
(* guardian with its key registry, the prompt cache, the transparency log, *)
(* the adapters that capture AI calls, and the registries of use cases and *)
(* models.  They share no state, so a behaviour exercises the one it       *)
(* chooses at the start, and the others stay as they began.                *)
(***************************************************************************)
EXTENDS Pkcs11Session, Sequences

CONSTANTS Sinks, Hanging, NumEvents, BatchSize, Retries,
          MaxVersion,
          Kids, Unparsed, Nobody, Names, Agents, Payloads, Anonymous, NoExpiry,
          MaxTime, MaxVerdicts, Threshold, AllowConcerns,
          Clients, PromptKeys, TtlMs, MaxMs, MaxCalls,
          Submitters, Publishers, LogBatch, MaxHeads, Forged,
          AiCalls, Hooks,
          UseCases, Models, UseCaseContents, ModelContents, NoVersion, Unset, MaxChanges

VARIABLES
    service,    \* the service this behaviour exercises
    first, attempt, settled, totals, received, acked, report,
    kind, named, claimsFips, posture, openssl, stage, current, pinned, cachedKey,
    rotatedIn, signed, wrapped,
    records, now, verdicts,
    store, gets, hits, asking, served, nowMs,
    leafHashes, acks, signing, sthHistory,
    hook, at, said, got, unbuilt, unsigned, ledger, handed, starts, down,
    entries, clock, versions, edited

(* An HTTP sink, then a file or a socket.                                  *)
KindOf == [s \in Sinks |-> IF s = 1 THEN "http" ELSE IF s = 2 THEN "syslog" ELSE "file"]

(* Two clients of one tenant, and one of another.                          *)
TenantOf == [c \in Clients |-> IF c <= 2 THEN "t1" ELSE "t2"]

Export    == INSTANCE Exporter
Providers == INSTANCE SigningProviders
Guard     == INSTANCE Guardian
Dedup     == INSTANCE DedupCache
Log       == INSTANCE TransparencyLog WITH BatchSize <- LogBatch
Adapters  == INSTANCE Capture WITH Calls <- AiCalls
Registry  == INSTANCE Registries

(* A use case with no, and one with some approved sources and classes; one *)
(* that is retired; one that is prohibited.                                *)
MCUseCases ==
    LET Content(t, l, s, k) ==
            [tier |-> t, lifecycle |-> l, models |-> {"m"}, sources |-> s, classes |-> k]
    IN  {Content("high", "production", {}, {}), Content("high", "production", {"gw"}, {"pii"}),
         Content("minimal", "retired", {"gw", "ide"}, {"pii"}), Content("unacceptable", "design", {}, {})}

MCModels == [status : {"approved", "revoked", "validation"}, uses : {{"u"}}]
            \cup [status : {"approved_with_conditions"}, uses : {{}}]

ASSUME ServicesAssumption ==
    /\ Export!ExporterAssumption /\ SessionAssumption /\ Providers!RotationAssumption
    /\ Guard!GuardianAssumption /\ Dedup!DedupAssumption
    /\ Log!LogAssumption /\ Adapters!CaptureAssumption
    /\ Registry!RegistriesAssumption

exportVars   == <<first, attempt, settled, totals, received, acked, report>>
providerVars == <<kind, named, claimsFips, posture, openssl, stage, current, pinned,
                  cachedKey, rotatedIn, signed, wrapped>>
guardVars    == <<records, now, verdicts>>
dedupVars    == <<store, gets, hits, asking, served, nowMs>>
logVars      == <<leafHashes, acks, signing, sthHistory>>
adapterVars  == <<hook, at, said, got, unbuilt, unsigned, ledger, handed, starts, down>>
registryVars == <<entries, clock, versions, edited>>

servicesVars == <<service, exportVars, vars, providerVars, guardVars, dedupVars, logVars,
                  adapterVars, registryVars>>
-----------------------------------------------------------------------------
(* Only the providers and the adapters start from several configurations.  *)
ServicesInit ==
    /\ service \in {"exporter", "hsm", "providers", "guardian", "dedup", "log", "adapters",
                   "registries"}
    /\ Export!Init /\ Init /\ Providers!Init /\ Guard!Init /\ Dedup!Init
    /\ Log!Init /\ Adapters!Init /\ Registry!Init
    /\ service # "adapters" => hook = [c \in AiCalls |-> CHOOSE h \in Hooks : TRUE]
    /\ service # "providers" =>
          kind = "software" /\ named = "version" /\ posture = "disabled" /\ openssl /\ ~claimsFips

ServicesNext ==
    \/ /\ service = "exporter" /\ Export!Next
       /\ UNCHANGED <<service, vars, providerVars, guardVars, dedupVars, logVars,
                    adapterVars, registryVars>>
    \/ /\ service = "hsm" /\ Next
       /\ UNCHANGED <<service, exportVars, providerVars, guardVars, dedupVars, logVars,
                    adapterVars, registryVars>>
    \/ /\ service = "providers" /\ Providers!Next
       /\ UNCHANGED <<service, exportVars, vars, guardVars, dedupVars, logVars,
                    adapterVars, registryVars>>
    \/ /\ service = "guardian" /\ Guard!Next
       /\ UNCHANGED <<service, exportVars, vars, providerVars, dedupVars, logVars,
                    adapterVars, registryVars>>
    \/ /\ service = "dedup" /\ Dedup!Next
       /\ UNCHANGED <<service, exportVars, vars, providerVars, guardVars, logVars,
                    adapterVars, registryVars>>
    \/ /\ service = "log" /\ Log!Next
       /\ UNCHANGED <<service, exportVars, vars, providerVars, guardVars, dedupVars,
                    adapterVars, registryVars>>
    \/ /\ service = "adapters" /\ Adapters!Next
       /\ UNCHANGED <<service, exportVars, vars, providerVars, guardVars, dedupVars,
                    logVars, registryVars>>
    \/ /\ service = "registries" /\ Registry!Next
       /\ UNCHANGED <<service, exportVars, vars, providerVars, guardVars, dedupVars,
                    logVars, adapterVars>>

ServicesSpec == ServicesInit /\ [][ServicesNext]_servicesVars

(* The exporter's sends settle within their timeouts (but for sinks that   *)
(* have none), and the steps of a captured call are taken.                 *)
FairServices ==
    /\ ServicesSpec
    /\ WF_exportVars(service = "exporter" /\ (Export!NextBatch \/ Export!Return))
    /\ \A s \in Sinks \ Hanging :
          WF_exportVars(service = "exporter" /\ (Export!Delivered(s) \/ Export!Failed(s)))
    /\ \A c \in AiCalls : WF_adapterVars(service = "adapters" /\ Adapters!Step(c))
-----------------------------------------------------------------------------
(* Exporter: the report says what arrived, and nothing acknowledged is     *)
(* sent again.                                                             *)
ReportIsHonest == Export!ReportIsHonest /\ Export!NoResendAfterAck

(* Exporter: an export returns unless a sink never answers.  Adapters: a   *)
(* call the provider answers ends for its caller.                          *)
CallersAreAnswered == /\ service = "exporter" => Export!ExportReturns
                      /\ service = "adapters" => Adapters!EveryCallSettles

(* Providers: a signature verifies under the reported key.                 *)
ReportedKeyVerifies == Providers!ReportedKeyVerifies

(* Guardian: what is cleared was reviewed.                                 *)
ClearedIsReviewed == Guard!ClearedIsReviewed

(* Prompt cache: a hit is the tenant's own answer, and not too old.        *)
HitIsOwnAndFresh == Dedup!HitIsOwnAndFresh

(* Transparency log: signed heads are and stay true, and grow.             *)
HeadsAreTrue == Log!HeadsStayTrue /\ Log!PublishedHeadsGrow

(* Transparency log: the proof algorithms accept exactly what is true.     *)
ProofsAreExact == Log!ConsistencyIsExact /\ Log!InclusionIsExact /\ Log!BatchMatchesLog

(* Registries: versions are chained, and the checks follow what was said.  *)
RegistriesAreExact == Registry!RegistriesAreExact

(* Adapters: a call is unharmed by its receipt, and the receipt true.      *)
CallsAreCaptured == Adapters!CallIsUnharmed /\ Adapters!OutcomeIsReceipted
=============================================================================

----------------------------- MODULE Registries -----------------------------
(***************************************************************************)
(* The use-case and the model registry (src/registries): maps from ids to  *)
(* entries.  Every upsert or registration makes a new version that names   *)
(* the hash of the one before, of which the registry keeps only the latest;*)
(* get and list hand out the entry itself, so a caller may change it in    *)
(* place, its creation time and the hash it names included.                *)
(*                                                                         *)
(* An entry stands for its own hash.  Of its content there is what the     *)
(* checks look at; ids, names and owners are left out.                     *)
(***************************************************************************)
EXTENDS Integers, Sequences, SequencesExt

CONSTANTS UseCases, Models,       \* ids
          UseCaseContents,        \* [tier, lifecycle, models, sources, classes]
          ModelContents,          \* [status, uses]
          NoVersion, Unset,
          MaxChanges              \* bound: changes to both registries

RegistriesAssumption ==
    /\ UseCases \cap Models = {} /\ Unset \notin Models \cup Int
    /\ UseCaseContents \subseteq [tier : STRING, lifecycle : STRING, models : SUBSET Models,
                                  sources : SUBSET STRING, classes : SUBSET STRING]
    /\ ModelContents \subseteq
          [status : {"development", "validation", "approved", "approved_with_conditions",
                     "retired", "revoked"}, uses : SUBSET UseCases]
    /\ MaxChanges \in Nat

VARIABLES
    entries,    \* this.entries of both registries, a function on the ids registered
    clock,      \* changes so far; time stamps are taken from it
    versions,   \* history: versions[id], the entries upsert returned the hash of
    edited      \* history: edited[id], the versions changed in place since

vars == <<entries, clock, versions, edited>>

Ids        == UseCases \cup Models
Registered == DOMAIN entries
-----------------------------------------------------------------------------
Init ==
    /\ entries  = [id \in {} |-> NoVersion]
    /\ clock    = 0
    /\ versions = [id \in Ids |-> <<>>]
    /\ edited   = [id \in Ids |-> {}]

(* Mutant: the creation time is the one of the new version.                *)
NextVersionRecreated(id, content, given) ==
    [content |-> content, updated |-> clock,
     created |-> IF given # Unset THEN given ELSE clock,
     prev    |-> IF id \in Registered THEN entries[id] ELSE NoVersion]

(* The entry made of a content, and of a creation time the caller may give:*)
(* the prior version's creation time is kept, if it has one, and its hash  *)
(* named.                                                                  *)
NextVersion(id, content, given) ==
    [content |-> content, updated |-> clock,
     created |-> IF id \in Registered /\ entries[id].created # Unset THEN entries[id].created
                 ELSE IF given # Unset THEN given ELSE clock,
     prev    |-> IF id \in Registered THEN entries[id] ELSE NoVersion]

Put(id, content) ==
    /\ clock < MaxChanges /\ clock' = clock + 1
    /\ \E given \in {Unset, 0} :
          LET full == NextVersion(id, content, given)
          IN  /\ entries'  = [x \in Registered \cup {id} |-> IF x = id THEN full ELSE entries[x]]
              /\ versions' = [versions EXCEPT ![id] = Append(@, full)]
    /\ UNCHANGED edited

(* upsert of the use-case registry, which refuses a prohibited use before  *)
(* anything changes.                                                       *)
Upsert(id) ==
    \E content \in UseCaseContents : content.tier # "unacceptable" /\ Put(id, content)

(* register of the model registry.                                         *)
Register(id) == \E content \in ModelContents : Put(id, content)

(* A caller changes the entry it was handed: its content, and the creation *)
(* time and the hash it names, which it may also take away.                *)
EditInPlace(id) ==
    /\ clock < MaxChanges /\ clock' = clock + 1
    /\ id \in Registered
    /\ \E content \in IF id \in UseCases THEN UseCaseContents ELSE ModelContents,
          created \in {entries[id].created, clock, Unset}, prev \in {entries[id].prev, NoVersion} :
          LET new == [entries[id] EXCEPT !.content = content, !.created = created, !.prev = prev]
          IN  new # entries[id] /\ entries' = [entries EXCEPT ![id] = new]
    /\ edited' = [edited EXCEPT ![id] = @ \cup {Len(versions[id])}]
    /\ UNCHANGED versions

Next == \/ \E id \in UseCases : Upsert(id)
        \/ \E id \in Models : Register(id)
        \/ \E id \in Ids : EditInPlace(id)

Spec == Init /\ [][Next]_vars
-----------------------------------------------------------------------------
(* The checks on a use case's content.                                     *)

(* Mutant: what a receipt leaves out is refused.                           *)
ApprovedIfSaid(approved, said) == said \in approved

(* What a receipt does not say is not checked.                             *)
Approved(approved, said) == said = Unset \/ said \in approved

InUse(c) == c.lifecycle \notin {"retired", "deprecated"}

(* What a receipt says of its model, source and data, against a content.   *)
Allowed(c, model, source, class) ==
    /\ InUse(c)
    /\ Approved(c.models, model)
    /\ c.sources = {} \/ Approved(c.sources, source)
    /\ Approved(c.classes, class)

ValidateUsage(id, model, source, class) ==
    id \in Registered /\ Allowed(entries[id].content, model, source, class)

(* Mutant: a revoked model with an assignment left is still assigned.      *)
ValidateAssignmentByList(m, u) ==
    /\ m \in Registered
    /\ entries[m].content.status \notin {"development", "validation"}
    /\ u \in entries[m].content.uses

IsApprovedForProduction(m) ==
    m \in Registered /\ entries[m].content.status \in {"approved", "approved_with_conditions"}

ValidateAssignment(m, u) ==
    /\ m \in Registered
    /\ entries[m].content.status \notin {"revoked", "retired", "development", "validation"}
    /\ u \in entries[m].content.uses
-----------------------------------------------------------------------------
(* "registries are append-only" (use-case-registry.ts:75): the versions    *)
(* whose hashes were returned are one chain per id, each naming the one    *)
(* before and created when that one was, and the registry answers with the *)
(* last; except that a version which was changed in place, as no hash that *)
(* was returned covers, is neither named nor answered, and that its        *)
(* successor is created when the changed one says.                         *)
VersionsAreChained ==
    \A id \in Ids :
        LET v == versions[id]
        IN  /\ v = <<>> <=> id \notin Registered
            /\ v # <<>> => v[1].prev = NoVersion
            /\ v # <<>> /\ Len(v) \notin edited[id] => entries[id] = v[Len(v)]
            /\ \A n \in 2 .. Len(v) :
                  n - 1 \notin edited[id] => /\ v[n].prev = v[n - 1]
                                            /\ v[n].created = v[n - 1].created

(* "registry will reject" (use-case-registry.ts:22): no prohibited use is  *)
(* in the registry, unless a caller made an entry one in place.            *)
ProhibitedStaysOut ==
    \A u \in UseCases :
        edited[u] = {} /\ u \in Registered => entries[u].content.tier # "unacceptable"

(* The two checks on a model agree, and follow the last registration: what *)
(* was revoked serves no use case any more.                                *)
ModelChecksAgree ==
    \A m \in Models :
        /\ \A u \in UseCases : ValidateAssignment(m, u) => IsApprovedForProduction(m)
        /\ versions[m] # <<>> /\ edited[m] = {} =>
              (versions[m][Len(versions[m])].content.status \in {"revoked", "retired"} =>
                  \A u \in UseCases : ~ValidateAssignment(m, u))

Sources == UNION {c.sources : c \in UseCaseContents}
Classes == UNION {c.classes : c \in UseCaseContents}

(* A receipt that says less of itself is not refused where one that says   *)
(* more passes, and another approval never refuses what was allowed - but  *)
(* for the first approved source, since an empty list approves every one.  *)
ApprovalsOnlyWiden ==
    \A u \in UseCases, m \in Models \cup {Unset}, s \in Sources \cup {Unset},
       k \in Classes \cup {Unset} :
        ValidateUsage(u, m, s, k) =>
            LET c == entries[u].content
            IN  /\ Allowed(c, Unset, s, k) /\ Allowed(c, m, Unset, k) /\ Allowed(c, m, s, Unset)
                /\ \A x \in Models  : Allowed([c EXCEPT !.models  = @ \cup {x}], m, s, k)
                /\ \A x \in Classes : Allowed([c EXCEPT !.classes = @ \cup {x}], m, s, k)
                /\ \A x \in Sources : c.sources # {} =>
                                        Allowed([c EXCEPT !.sources = @ \cup {x}], m, s, k)

RegistriesAreExact ==
    VersionsAreChained /\ ProhibitedStaysOut /\ ModelChecksAgree /\ ApprovalsOnlyWiden
=============================================================================

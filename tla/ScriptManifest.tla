--------------------------- MODULE ScriptManifest ---------------------------
(***************************************************************************)
(* defineScript(): what a manifest must be for its script to be defined,   *)
(* and what the digest of a definition covers.                             *)
(*                                                                         *)
(* A manifest is a record of the fields the rest of the package acts on:   *)
(* id, version, impactClass, permissions, operations, resources (name,     *)
(* kind, access), providers (name, contract, resource), credentials (name, *)
(* provider, providerRequirement), timeout, retry (mode, maxAttempts,      *)
(* backoffMs) and idempotency.  Collections are sequences, as authored.    *)
(***************************************************************************)
EXTENDS Naturals, Sequences, SequencesExt

ImpactClasses == {"pure", "read", "write", "publish", "admin"}

Operations == {"filesystem.read", "filesystem.write", "git.read", "git.write",
               "git.remote-write", "github.read", "github.write"}

MutationOperations == {"filesystem.write", "git.write", "git.remote-write", "github.write"}

(* The ranges scriptManifestSchema allows, of the fields kept here.        *)
CollectionsFit(m) ==
  /\ Len(m.permissions) <= 64 /\ Len(m.resources) <= 16
  /\ Len(m.providers) <= 8 /\ Len(m.credentials) <= 16
  /\ Len(m.operations) <= 64

validateManifestShape(m) ==
  /\ m.version > 0
  /\ m.impactClass \in ImpactClasses
  /\ CollectionsFit(m) /\ ToSet(m.operations) \subseteq Operations
  /\ \A i \in DOMAIN m.resources :
       /\ m.resources[i].kind = "repository"
       /\ m.resources[i].access \in ImpactClasses \ {"pure"}
  /\ m.timeout >= 1 /\ m.timeout <= 300000
  /\ m.retry.mode \in {"never", "transient"} /\ m.retry.maxAttempts \in 1 .. 5
  /\ m.idempotency \in {"read-only", "required", "not-retryable"}

-----------------------------------------------------------------------------
(* The names of a sequence of named records.                               *)
NamesIn(s) == {s[i].name : i \in DOMAIN s}
UniqueNames(s) == \A i, j \in DOMAIN s : s[i].name = s[j].name => i = j
Named(s, name) == s[CHOOSE i \in DOMAIN s : s[i].name = name]

validateReferences(m) ==
  /\ \A i \in DOMAIN m.providers : m.providers[i].resource \in NamesIn(m.resources)
  /\ \A i \in DOMAIN m.credentials :
       m.credentials[i].providerRequirement \in NamesIn(m.providers)

validateCollectionPolicy(m) ==
  /\ IsInjective(m.permissions) /\ IsInjective(m.operations)
  /\ UniqueNames(m.resources) /\ UniqueNames(m.providers) /\ UniqueNames(m.credentials)
  /\ validateReferences(m)

permittedOperations ==
  [pure |-> {},
   read |-> {"filesystem.read", "git.read", "github.read"},
   write |-> Operations \ {"git.remote-write"},
   publish |-> Operations,
   admin |-> Operations]

accessRank == [read |-> 0, write |-> 1, publish |-> 2, admin |-> 3]

validatePurePolicy(m) ==
  /\ m.permissions = << >> /\ m.resources = << >> /\ m.providers = << >>
  /\ m.credentials = << >> /\ m.operations = << >>

validateOperationPolicy(m) ==
  IF m.impactClass = "pure" THEN validatePurePolicy(m)
  ELSE /\ \A i \in DOMAIN m.resources :
            accessRank[m.resources[i].access] <= accessRank[m.impactClass]
       /\ ToSet(m.operations) \subseteq permittedOperations[m.impactClass]
       /\ m.resources = << >> => m.permissions = << >> /\ m.operations = << >>

validateRetryPolicy(m) ==
  IF m.retry.mode = "never" THEN m.retry.maxAttempts = 1 /\ m.retry.backoffMs = << >>
  ELSE Len(m.retry.backoffMs) = m.retry.maxAttempts - 1

validateIdempotencyPolicy(m) ==
  LET mutates == ToSet(m.operations) \intersect MutationOperations # {}
  IN /\ m.idempotency = "read-only" <=> ~mutates
     /\ m.idempotency = "not-retryable" => m.retry.maxAttempts = 1

validateScriptManifest(m) ==
  /\ validateManifestShape(m)
  /\ validateCollectionPolicy(m)
  /\ validateOperationPolicy(m)
  /\ validateRetryPolicy(m)
  /\ validateIdempotencyPolicy(m)

-----------------------------------------------------------------------------
(* The digest is over the canonical manifest, both schemas and the         *)
(* implementation identity: the definition but for its handler.  Two       *)
(* definitions with one digest agree on all of them.                       *)
digestDefinition(d) ==
  [manifest |-> d.manifest, schemas |-> d.schemas, implementation |-> d.implementation]

Script(d) == [id |-> d.manifest.id, version |-> d.manifest.version]
=============================================================================

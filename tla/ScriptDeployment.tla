-------------------------- MODULE ScriptDeployment --------------------------
(***************************************************************************)
(* What one process of the package is built from, and what its constructor *)
(* makes of it: the sealed registry of script definitions and the catalog  *)
(* of provider implementations.  Neither changes while the process runs;   *)
(* a process of another release has other ones.                            *)
(*                                                                         *)
(* A definition is a record of manifest, schemas, implementation identity  *)
(* and handler; a provider module one of its public identity (id,          *)
(* contract, implementationDigest, provenance, operations, workspace), its *)
(* coordinateSchema and the code that creates its clients.                 *)
(***************************************************************************)
EXTENDS ScriptManifest

CONSTANTS
  Releases,
  DefinitionModules,  \* per release, the definition modules in order
  ProviderModules     \* per release, the provider modules in order

-----------------------------------------------------------------------------
(* The definition registry.                                                *)

(* The definitions in the order in which they are registered.              *)
Registered(r) ==
  FlattenSeq([m \in DOMAIN DefinitionModules[r] |-> DefinitionModules[r][m].definitions])

Definitions(r) == ToSet(Registered(r))

(* defineScript() returns a definition with these fields and no other, and *)
(* the collections of its manifest are sequences.                          *)
ASSUME DefinitionAssumption ==
  \A r \in Releases : \A d \in Definitions(r) :
    /\ d = [manifest |-> d.manifest, schemas |-> d.schemas,
            implementation |-> d.implementation, handler |-> d.handler]
    /\ d.manifest.providers \in Seq(ToSet(d.manifest.providers))

Distinct(s, Key(_)) == \A i, j \in DOMAIN s : Key(s[i]) = Key(s[j]) => i = j

(* The composition refuses a second module of one id, and register() a     *)
(* second definition of one key.                                           *)
Registrable(r) ==
  /\ Distinct(DefinitionModules[r], LAMBDA m : m.id)
  /\ Distinct(Registered(r), Script)

(* resolve(): the revision must be positive and the key registered.        *)
Resolvable(r, script) == script.version > 0 /\ \E d \in Definitions(r) : Script(d) = script

resolve(r, script) == CHOOSE d \in Definitions(r) : Script(d) = script

-----------------------------------------------------------------------------
(* The provider catalog.                                                   *)

Providers(r) == ToSet(ProviderModules[r])

Catalogable(r) ==
  /\ Distinct(ProviderModules[r], LAMBDA provider : provider.contract)
  /\ \A provider \in Providers(r) : IsInjective(provider.operations)

Supplied(r, requirement) == \E p \in Providers(r) : p.contract = requirement.contract

requireProvider(r, requirement) ==
  CHOOSE p \in Providers(r) : p.contract = requirement.contract

(* The public identity of a provider, which bindings carry.                *)
describe(r, requirement) ==
  LET p == requireProvider(r, requirement)
  IN [id |-> p.id, contract |-> p.contract, implementationDigest |-> p.implementationDigest,
      provenance |-> p.provenance, operations |-> p.operations, workspace |-> p.workspace]

Requirements(d) == ToSet(d.manifest.providers)

(* Some provider the script requires is not in the catalog: every lookup   *)
(* of it throws contract_missing.                                          *)
ContractMissing(r, d) == \E q \in Requirements(d) : ~Supplied(r, q)

Owned(r, d) == UNION {ToSet(requireProvider(r, q).operations) : q \in Requirements(d)}

Covers(r, d) == ToSet(d.manifest.operations) \subseteq Owned(r, d)

\* Mutant: the operations are compared and the contracts are not.
OperationsCovered(r) ==
  \A d \in Definitions(r) : ContractMissing(r, d) \/ Covers(r, d)

requireCoverage(r) ==
  \A d \in Definitions(r) : ~ContractMissing(r, d) /\ Covers(r, d)

(* The providers that attach their clients to a resource slot.             *)
ProvidersOf(d, slot) == {q \in Requirements(d) : q.resource = slot}

workspaceRequired(r, d, slot) ==
  \E q \in ProvidersOf(d, slot) : describe(r, q).workspace = "required"

(* Providers without a coordinate schema are not asked; with one, the keys *)
(* must be exactly the names of those that have it.                        *)
validateCoordinates(r, requirements, descriptor) ==
  LET checked == {q \in requirements : requireProvider(r, q).coordinateSchema.present}
  IN checked # {} =>
       /\ DOMAIN descriptor.providerCoordinates = {q.name : q \in checked}
       /\ \A q \in checked : descriptor.providerCoordinates[q.name] \in
                               requireProvider(r, q).coordinateSchema.accepts

-----------------------------------------------------------------------------
(* No process comes up unless every script could be defined and the        *)
(* constructor does not throw.                                             *)
Constructible(r) ==
  /\ \A d \in Definitions(r) : validateScriptManifest(d.manifest)
  /\ Registrable(r) /\ Catalogable(r) /\ requireCoverage(r)

Startable == {r \in Releases : Constructible(r)}

(* External: a build digest names the code that was built.                 *)
ASSUME BuildDigestAssumption ==
  /\ \A r, q \in Releases :
       \A d \in Definitions(r), e \in Definitions(q) :
         d.implementation = e.implementation => d.handler = e.handler
  /\ \A r, q \in Releases :
       \A p \in ToSet(ProviderModules[r]), o \in ToSet(ProviderModules[q]) :
         p.implementationDigest = o.implementationDigest => p = o
=============================================================================

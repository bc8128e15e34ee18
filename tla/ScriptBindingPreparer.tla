----------------------- MODULE ScriptBindingPreparer -----------------------
(***************************************************************************)
(* ScriptBindingPreparer.prepare(): the host's resources, workspaces and   *)
(* credentials are inspected, each by an asynchronous call of the host,    *)
(* and compared with the manifest; what they were becomes the binding.     *)
(* The resource slots are prepared at once (Promise.all), and then the     *)
(* credential slots; the first refusal ends the call.                      *)
(*                                                                         *)
(* The host's data may be changed between any two of those calls, and the  *)
(* process may end: then the call is lost.  What it returned is stored by  *)
(* the host and outlives the process.                                      *)
(***************************************************************************)
EXTENDS ScriptDeployment

CONSTANTS
  NoRelease,        \* no process is running
  PrepareCalls,     \* calls of prepareBinding
  BindingInputs,    \* what the host may ask to be bound
  NoRef,            \* an optional reference or a host answer that is absent
  NoBinding

VARIABLES
  process,       \* the release of the running process
  resources,     \* host: by reference, the descriptor that inspect() answers
  workspaces,    \* host: by reference, the repository the workspace is of
  credentials,   \* host: by alias, the provider the credential is for
  preparations   \* where each call is

hostVars == <<resources, workspaces, credentials>>

PreparationSteps == {"idle", "resources", "credentials", "returned", "refused", "missing", "lost"}

(* release, input and definition (resolved once) are those of the call;    *)
(* slots says what each resource and credential slot waits for, and        *)
(* descriptors what was inspected.                                         *)
NoPreparation ==
  [step |-> "idle", release |-> NoRelease, input |-> NoRef, definition |-> NoRef,
   slots |-> << >>, descriptors |-> << >>, binding |-> NoBinding]

PreparationsInit == preparations = [c \in PrepareCalls |-> NoPreparation]

PreparationGoes(c, step) == preparations' = [preparations EXCEPT ![c].step = step]

-----------------------------------------------------------------------------
(* The slots of a manifest, and requireExactNames() of both kinds.         *)
ResourceSlots(d) == NamesIn(d.manifest.resources)
CredentialSlots(d) == NamesIn(d.manifest.credentials)
Resource(d, slot) == Named(d.manifest.resources, slot)
Credential(d, slot) == Named(d.manifest.credentials, slot)

requireExactNames(input, d) ==
  /\ DOMAIN input.resources = ResourceSlots(d)
  /\ DOMAIN input.credentials = CredentialSlots(d)

Started(input, d) ==
  IF requireExactNames(input, d)
  THEN [NoPreparation EXCEPT
          !.step = "resources", !.release = process, !.input = input, !.definition = d,
          !.slots = [slot \in DOMAIN input.resources |-> "resource"],
          !.descriptors = [slot \in DOMAIN input.resources |-> NoRef]]
  ELSE [NoPreparation EXCEPT !.step = "refused", !.release = process]

StartPreparation(c, input) ==
  /\ process # NoRelease /\ preparations[c].step = "idle"
  /\ preparations' = [preparations EXCEPT ![c] =
       IF Resolvable(process, input.script) THEN Started(input, resolve(process, input.script))
       ELSE [NoPreparation EXCEPT !.step = "refused", !.release = process]]
  /\ UNCHANGED <<process, hostVars>>

(* requireDescriptorGrant()                                                *)
Granted(descriptor, d) ==
  /\ ToSet(d.manifest.permissions) \subseteq descriptor.grant.permissions
  /\ ToSet(d.manifest.operations) \subseteq descriptor.grant.operations

(* What prepareResources() makes of an inspected descriptor: the call ends,*)
(* or the slot is done or goes on to its workspace.                        *)
\* Mutant: the workspace a provider requires is not asked for.
InspectedWithoutWorkspace(r, d, slot, bound, descriptor) ==
  IF \/ descriptor = NoRef
     \/ descriptor.kind # Resource(d, slot).kind
     \/ ~Granted(descriptor, d)
     \/ ~validateCoordinates(r, ProvidersOf(d, slot), descriptor)
  THEN "refused"
  ELSE IF bound.workspaceRef = NoRef THEN "done" ELSE "workspace"

Inspected(r, d, slot, bound, descriptor) ==
  IF \/ descriptor = NoRef
     \/ descriptor.kind # Resource(d, slot).kind
     \/ ~Granted(descriptor, d)
  THEN "refused"
  ELSE IF \E q \in ProvidersOf(d, slot) : ~Supplied(r, q) THEN "missing"
  ELSE IF \/ workspaceRequired(r, d, slot) /\ bound.workspaceRef = NoRef
          \/ ~validateCoordinates(r, ProvidersOf(d, slot), descriptor)
  THEN "refused"
  ELSE IF bound.workspaceRef = NoRef THEN "done" ELSE "workspace"

InspectResource(c, slot) ==
  LET call == preparations[c]
      bound == call.input.resources[slot]
      descriptor == resources[bound.resourceRef]
      verdict == Inspected(process, call.definition, slot, bound, descriptor)
  IN /\ call.step = "resources" /\ call.slots[slot] = "resource"
     /\ IF verdict \in {"refused", "missing"} THEN PreparationGoes(c, verdict)
        ELSE preparations' = [preparations EXCEPT ![c].slots[slot] = verdict,
                                                  ![c].descriptors[slot] = descriptor]
     /\ UNCHANGED <<process, hostVars>>

InspectWorkspace(c, slot) ==
  LET call == preparations[c]
  IN /\ call.step = "resources" /\ call.slots[slot] = "workspace"
     /\ IF workspaces[call.input.resources[slot].workspaceRef] = call.descriptors[slot].repositoryId
        THEN preparations' = [preparations EXCEPT ![c].slots[slot] = "done"]
        ELSE PreparationGoes(c, "refused")
     /\ UNCHANGED <<process, hostVars>>

ResourcesPrepared(c) ==
  LET call == preparations[c]
  IN /\ call.step = "resources"
     /\ \A slot \in DOMAIN call.slots : call.slots[slot] = "done"
     /\ preparations' = [preparations EXCEPT
          ![c].step = "credentials",
          ![c].slots = [slot \in DOMAIN call.input.credentials |-> "credential"]]
     /\ UNCHANGED <<process, hostVars>>

InspectCredential(c, slot) ==
  LET call == preparations[c]
  IN /\ call.step = "credentials" /\ call.slots[slot] = "credential"
     /\ IF credentials[call.input.credentials[slot]] = Credential(call.definition, slot).provider
        THEN preparations' = [preparations EXCEPT ![c].slots[slot] = "done"]
        ELSE PreparationGoes(c, "refused")
     /\ UNCHANGED <<process, hostVars>>

providerDescriptors(r, d) ==
  [i \in DOMAIN d.manifest.providers |-> describe(r, d.manifest.providers[i])]

preparedResources(call, d) ==
  [slot \in DOMAIN call.input.resources |->
     [resourceRef |-> call.input.resources[slot].resourceRef,
      workspaceRef |-> call.input.resources[slot].workspaceRef,
      descriptor |-> call.descriptors[slot],
      requirement |-> [kind |-> Resource(d, slot).kind, access |-> Resource(d, slot).access]]]

preparedCredentials(call, d) ==
  [slot \in DOMAIN call.input.credentials |->
     [alias |-> call.input.credentials[slot], provider |-> Credential(d, slot).provider]]

attemptPolicy(d) ==
  [timeoutMs |-> d.manifest.timeout, retry |-> d.manifest.retry,
   idempotency |-> d.manifest.idempotency]

prepared(call, d) ==
  [script |-> call.input.script, definitionDigest |-> digestDefinition(d),
   implementation |-> d.implementation, attemptPolicy |-> attemptPolicy(d),
   providers |-> providerDescriptors(call.release, d),
   resources |-> preparedResources(call, d), credentials |-> preparedCredentials(call, d)]

FinishPreparation(c) ==
  LET call == preparations[c]
  IN /\ call.step = "credentials"
     /\ \A slot \in DOMAIN call.slots : call.slots[slot] = "done"
     /\ IF ContractMissing(process, call.definition) THEN PreparationGoes(c, "missing")
        ELSE preparations' = [preparations EXCEPT
               ![c].step = "returned", ![c].slots = << >>, ![c].descriptors = << >>,
               ![c].binding = prepared(call, call.definition)]
     /\ UNCHANGED <<process, hostVars>>

(* A call of the host fails.                                               *)
InspectionFails(c) ==
  /\ preparations[c].step \in {"resources", "credentials"}
  /\ \E slot \in DOMAIN preparations[c].slots : preparations[c].slots[slot] # "done"
  /\ PreparationGoes(c, "refused")
  /\ UNCHANGED <<process, hostVars>>

PreparationStep(c) ==
  \/ \E input \in BindingInputs : StartPreparation(c, input)
  \/ \E slot \in DOMAIN preparations[c].slots :
       InspectResource(c, slot) \/ InspectWorkspace(c, slot) \/ InspectCredential(c, slot)
  \/ ResourcesPrepared(c) \/ FinishPreparation(c) \/ InspectionFails(c)

(* The process of the calls ends.                                          *)
\* Mutant: what a call had returned is lost with it.
PreparationsAllLost ==
  [c \in PrepareCalls |->
     IF preparations[c].step \in {"resources", "credentials", "returned"}
     THEN [preparations[c] EXCEPT !.step = "lost"] ELSE preparations[c]]

PreparationsLost ==
  [c \in PrepareCalls |->
     IF preparations[c].step \in {"resources", "credentials"}
     THEN [NoPreparation EXCEPT !.step = "lost"] ELSE preparations[c]]
=============================================================================

---------------------------- MODULE BoundAttempt ----------------------------
(***************************************************************************)
(* What executeAttempt() does with a binding: it is compared with the      *)
(* running process before the attempt is admitted, its coordinates are     *)
(* validated again, and then each provider of the manifest in turn         *)
(* acquires its workspace and its credentials from the host, as they are   *)
(* by then, and attaches its clients to its resource slot.  The handler is *)
(* dispatched when all of them have.                                       *)
(*                                                                         *)
(* The rest of an attempt (events, deadline, disposal) is module Attempt.  *)
(***************************************************************************)
EXTENDS ScriptBindingPreparer, BuiltInProviders

CONSTANTS
  AttemptCalls,  \* calls of executeAttempt
  Scripts        \* the script pins such a call may name

VARIABLE attempts  \* where each call is, and what it has acquired

AttemptSteps == {"idle", "refused", "missing", "admitted", "workspace", "credentials",
                 "clients", "dispatched", "coordinates_invalid", "failed", "lost"}

(* script, definition and from: the pin the call names, what it resolved   *)
(* to, and the preparation that its binding came from; position: the       *)
(* provider at work; repositories: by position, the repository of its      *)
(* workspace, if any; leases: the credentials held; clients: the attached. *)
NoAttempt ==
  [step |-> "idle", release |-> NoRelease, script |-> NoRef, definition |-> NoRef,
   from |-> NoRef, position |-> 1, repositories |-> << >>, leases |-> {}, clients |-> {}]

AttemptsInit == attempts = [a \in AttemptCalls |-> NoAttempt]

AttemptGoes(a, step) == attempts' = [attempts EXCEPT ![a].step = step]

Binding(a) == preparations[attempts[a].from].binding
Definition(a) == attempts[a].definition
Requirement(a) == Definition(a).manifest.providers[attempts[a].position]
Provider(a) == requireProvider(process, Requirement(a))
BoundResource(a) == Binding(a).resources[Requirement(a).resource]

-----------------------------------------------------------------------------
(* validateBinding()                                                       *)

requireExactDefinitionBinding(d, script, binding) ==
  binding.script = script /\ binding.definitionDigest = digestDefinition(d)

requireExactImplementationBinding(d, binding) ==
  binding.implementation = d.implementation /\ binding.attemptPolicy = attemptPolicy(d)

requireExactProviderBindings(r, d, binding) ==
  binding.providers = providerDescriptors(r, d)

requireExactResourceBindings(r, d, binding) ==
  /\ DOMAIN binding.resources = ResourceSlots(d)
  /\ \A slot \in ResourceSlots(d) :
       LET bound == binding.resources[slot]
       IN /\ bound.descriptor.kind = Resource(d, slot).kind
          /\ bound.requirement.kind = Resource(d, slot).kind
          /\ bound.requirement.access = Resource(d, slot).access
          /\ workspaceRequired(r, d, slot) => bound.workspaceRef # NoRef
          /\ Granted(bound.descriptor, d)

requireExactCredentialBindings(d, binding) ==
  /\ DOMAIN binding.credentials = CredentialSlots(d)
  /\ \A slot \in CredentialSlots(d) :
       binding.credentials[slot].provider = Credential(d, slot).provider

\* Mutant: the providers of the binding are not compared with the catalog's.
ExactWithAnyProviders(r, d, script, binding) ==
  /\ requireExactDefinitionBinding(d, script, binding)
  /\ requireExactImplementationBinding(d, binding)
  /\ requireExactResourceBindings(r, d, binding)
  /\ requireExactCredentialBindings(d, binding)

validateBinding(r, d, script, binding) ==
  /\ requireExactDefinitionBinding(d, script, binding)
  /\ requireExactImplementationBinding(d, binding)
  /\ requireExactProviderBindings(r, d, binding)
  /\ requireExactResourceBindings(r, d, binding)
  /\ requireExactCredentialBindings(d, binding)

(* A provider that is not there is met only after the first two.           *)
Verdict(d, script, binding) ==
  IF ~requireExactDefinitionBinding(d, script, binding) \/ ~requireExactImplementationBinding(d, binding)
  THEN "refused"
  ELSE IF ContractMissing(process, d) THEN "missing"
  ELSE IF validateBinding(process, d, script, binding) THEN "admitted" ELSE "refused"

(* The host may pass any binding it has stored, under any script pin.      *)
Submit(a, c, script) ==
  LET call == [NoAttempt EXCEPT !.release = process, !.script = script, !.from = c]
  IN /\ process # NoRelease /\ attempts[a].step = "idle"
     /\ preparations[c].step = "returned"
     /\ attempts' = [attempts EXCEPT ![a] =
          IF ~Resolvable(process, script) THEN [call EXCEPT !.step = "refused"]
          ELSE LET d == resolve(process, script)
               IN [call EXCEPT !.definition = d,
                               !.step = Verdict(d, script, preparations[c].binding)]]
     /\ UNCHANGED <<process, hostVars, preparations>>

-----------------------------------------------------------------------------
(* Once admitted.                                                          *)

(* acquireProviderClients() goes on with the provider at a position, or,   *)
(* when there is none left, the handler is called.                         *)
Onward(a, position) ==
  IF position > Len(Definition(a).manifest.providers) THEN "dispatched" ELSE "workspace"

validateRestoredCoordinates(a) ==
  /\ attempts[a].step = "admitted"
  /\ AttemptGoes(a,
       IF \A slot \in ResourceSlots(Definition(a)) :
            validateCoordinates(process, ProvidersOf(Definition(a), slot),
                                Binding(a).resources[slot].descriptor)
       THEN Onward(a, 1) ELSE "coordinates_invalid")
  /\ UNCHANGED <<process, hostVars, preparations>>

(* The workspace a provider is given, of the repository it is of by then.  *)
acquireWorkspaceOf(a, repository) ==
  attempts' = [attempts EXCEPT ![a].step = "credentials",
                               ![a].repositories = Append(@, repository)]

\* Mutant: the workspace is taken for the one that was inspected.
acquireWorkspaceUnchecked(a) ==
  /\ attempts[a].step = "workspace"
  /\ IF Provider(a).workspace = "none" THEN acquireWorkspaceOf(a, NoRef)
     ELSE IF workspaces[BoundResource(a).workspaceRef] # NoRef
     THEN acquireWorkspaceOf(a, workspaces[BoundResource(a).workspaceRef])
     ELSE AttemptGoes(a, "failed")
  /\ UNCHANGED <<process, hostVars, preparations>>

acquireWorkspace(a) ==
  /\ attempts[a].step = "workspace"
  /\ IF Provider(a).workspace = "none" THEN acquireWorkspaceOf(a, NoRef)
     ELSE IF /\ BoundResource(a).workspaceRef # NoRef
             /\ workspaces[BoundResource(a).workspaceRef] = BoundResource(a).descriptor.repositoryId
     THEN acquireWorkspaceOf(a, workspaces[BoundResource(a).workspaceRef])
     ELSE AttemptGoes(a, "failed")
  /\ UNCHANGED <<process, hostVars, preparations>>

(* The credential slots of the provider at work that it has no lease for.  *)
Unleased(a) ==
  {slot \in CredentialSlots(Definition(a)) :
     /\ Credential(Definition(a), slot).providerRequirement = Requirement(a).name
     /\ ~\E lease \in attempts[a].leases : lease.slot = slot}

(* The lease is held before it is compared with what was bound.            *)
acquireCredential(a, slot) ==
  LET bound == Binding(a).credentials[slot]
      lease == [slot |-> slot, alias |-> bound.alias, provider |-> credentials[bound.alias]]
  IN /\ attempts[a].step = "credentials" /\ slot \in Unleased(a)
     /\ attempts' = [attempts EXCEPT
          ![a].leases = @ \union {lease},
          ![a].step = IF lease.provider = bound.provider THEN @ ELSE "failed"]
     /\ UNCHANGED <<process, hostVars, preparations>>

CredentialsAcquired(a) ==
  /\ attempts[a].step = "credentials" /\ Unleased(a) = {}
  /\ AttemptGoes(a, "clients")
  /\ UNCHANGED <<process, hostVars, preparations>>

(* A provider that has a schema validates its own coordinates once more.   *)
CoordinatesAccepted(a) ==
  LET given == BoundResource(a).descriptor.providerCoordinates
  IN /\ "github" \in DOMAIN given
     /\ given["github"] \in Provider(a).coordinateSchema.accepts

(* createResourceClients() of the provider, with what was acquired for it. *)
CreatedClient(a) ==
  createClient(Requirement(a).contract,
               Resource(Definition(a), Requirement(a).resource).access,
               ToSet(Definition(a).manifest.permissions),
               attempts[a].repositories[attempts[a].position] # NoRef,
               \E lease \in attempts[a].leases :
                 /\ lease.slot = "token"
                 /\ Credential(Definition(a), "token").providerRequirement = Requirement(a).name,
               CoordinatesAccepted(a))

(* mergeProviderClients(): a resource has one client of a name.            *)
createResourceClients(a) ==
  LET attached == [slot |-> Requirement(a).resource, name |-> clientName(Requirement(a).contract),
                   client |-> CreatedClient(a)]
      taken == \E c \in attempts[a].clients : c.slot = attached.slot /\ c.name = attached.name
  IN /\ attempts[a].step = "clients"
     /\ IF attached.client = NoClient \/ taken THEN AttemptGoes(a, "failed")
        ELSE attempts' = [attempts EXCEPT
               ![a].step = Onward(a, attempts[a].position + 1),
               ![a].position = @ + 1,
               ![a].clients = @ \union {attached}]
     /\ UNCHANGED <<process, hostVars, preparations>>

(* The host refuses a handle, or the provider does not create its clients. *)
AcquisitionFails(a) ==
  /\ attempts[a].step \in {"workspace", "credentials", "clients"}
  /\ AttemptGoes(a, "failed")
  /\ UNCHANGED <<process, hostVars, preparations>>

AttemptStep(a) ==
  \/ \E c \in PrepareCalls, script \in Scripts : Submit(a, c, script)
  \/ validateRestoredCoordinates(a) \/ acquireWorkspace(a)
  \/ attempts[a].step = "credentials" /\ \E slot \in Unleased(a) : acquireCredential(a, slot)
  \/ CredentialsAcquired(a) \/ createResourceClients(a) \/ AcquisitionFails(a)

AttemptsLost ==
  [a \in AttemptCalls |->
     IF attempts[a].step \in {"admitted", "workspace", "credentials", "clients"}
     THEN [NoAttempt EXCEPT !.step = "lost"] ELSE attempts[a]]
=============================================================================

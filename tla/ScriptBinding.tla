--------------------------- MODULE ScriptBinding ---------------------------
(***************************************************************************)
(* From a binding to a dispatched handler, across everything the durable   *)
(* host may do in between: change what its references stand for, store the *)
(* binding, stop the process and start it again in another release, and    *)
(* execute attempts under any binding it has.                              *)
(***************************************************************************)
EXTENDS BoundAttempt, PackageScripts

CONSTANTS
  Descriptors,    \* resource descriptors the host may answer
  Repositories,   \* repositories a workspace may be of
  Accounts,       \* credential providers an alias may be for
  Resources,      \* initially, by reference
  Workspaces,
  Credentials,
  MaxChanges,     \* bound: changes of the host's data
  MaxStops        \* bound: processes that end

ASSUME BindingAssumption == NoRelease \notin Releases /\ MaxStops \in Nat

(* The host's data is of the declared kinds to begin with, and it has an   *)
(* answer, absent or not, to every reference it asks to be bound.          *)
ASSUME HostAssumption ==
  /\ \A ref \in DOMAIN Resources : Resources[ref] \in Descriptors \union {NoRef}
  /\ \A ref \in DOMAIN Workspaces : Workspaces[ref] \in Repositories \union {NoRef}
  /\ \A alias \in DOMAIN Credentials : Credentials[alias] \in Accounts \union {NoRef}
  /\ \A input \in BindingInputs : \A slot \in DOMAIN input.resources :
       input.resources[slot].resourceRef \in DOMAIN Resources
  /\ MaxChanges \in Nat

VARIABLES
  deployments,  \* the releases the host starts, one after another
  answered,     \* history: by resource reference, the descriptors it has stood for
  changes,
  stops

vars == <<process, hostVars, preparations, attempts, deployments, answered, changes, stops>>

(* The host starts only releases whose constructor does not throw.         *)
Init ==
  /\ process = NoRelease
  /\ deployments \in [1 .. MaxStops + 1 -> Startable]
  /\ resources = Resources /\ workspaces = Workspaces /\ credentials = Credentials
  /\ PreparationsInit /\ AttemptsInit
  /\ answered = [ref \in DOMAIN Resources |-> {Resources[ref]}]
  /\ changes = 0 /\ stops = 0

(* createRevoScripts() returns.                                            *)
Start ==
  /\ process = NoRelease
  /\ process' = deployments[stops + 1]
  /\ UNCHANGED <<hostVars, preparations, attempts, deployments, answered, changes, stops>>

(* The process ends, by a crash or an upgrade.                             *)
Stop ==
  /\ process # NoRelease /\ stops < MaxStops
  /\ process' = NoRelease /\ stops' = stops + 1
  /\ preparations' = PreparationsLost
  /\ attempts' = AttemptsLost
  /\ UNCHANGED <<hostVars, deployments, answered, changes>>

ChangeResource(ref, descriptor) ==
  /\ resources[ref] # descriptor
  /\ resources' = [resources EXCEPT ![ref] = descriptor]
  /\ answered' = [answered EXCEPT ![ref] = @ \union {descriptor}]
  /\ UNCHANGED <<workspaces, credentials>>

ChangeWorkspace(ref, repository) ==
  /\ workspaces[ref] # repository
  /\ workspaces' = [workspaces EXCEPT ![ref] = repository]
  /\ UNCHANGED <<resources, credentials, answered>>

ChangeCredential(alias, account) ==
  /\ credentials[alias] # account
  /\ credentials' = [credentials EXCEPT ![alias] = account]
  /\ UNCHANGED <<resources, workspaces, answered>>

(* External: the host changes what one of its references stands for.       *)
HostChanges ==
  /\ changes < MaxChanges /\ changes' = changes + 1
  /\ \/ \E ref \in DOMAIN resources, d \in Descriptors \union {NoRef} : ChangeResource(ref, d)
     \/ \E ref \in DOMAIN workspaces, repository \in Repositories \union {NoRef} :
          ChangeWorkspace(ref, repository)
     \/ \E alias \in DOMAIN credentials, account \in Accounts \union {NoRef} :
          ChangeCredential(alias, account)
  /\ UNCHANGED <<process, preparations, attempts, deployments, stops>>

Next ==
  \/ Start
  \/ Stop
  \/ HostChanges
  \/ /\ \/ \E c \in PrepareCalls : PreparationStep(c) /\ UNCHANGED attempts
        \/ \E a \in AttemptCalls : AttemptStep(a)
     /\ UNCHANGED <<deployments, answered, changes, stops>>

Spec == Init /\ [][Next]_vars

-----------------------------------------------------------------------------
Answers == Descriptors \union {NoRef}

BindingFields == {"script", "definitionDigest", "implementation", "attemptPolicy",
                  "providers", "resources", "credentials"}

TypeOK ==
  /\ process \in Releases \union {NoRelease}
  /\ DOMAIN resources = DOMAIN Resources /\ \A ref \in DOMAIN resources : resources[ref] \in Answers
  /\ DOMAIN answered = DOMAIN Resources /\ \A ref \in DOMAIN answered : answered[ref] \subseteq Answers
  /\ \A ref \in DOMAIN workspaces : workspaces[ref] \in Repositories \union {NoRef}
  /\ \A alias \in DOMAIN credentials : credentials[alias] \in Accounts \union {NoRef}
  /\ \A c \in PrepareCalls :
       /\ preparations[c].step \in PreparationSteps
       /\ preparations[c].release \in Releases \union {NoRelease}
       /\ preparations[c].input \in BindingInputs \union {NoRef}
       /\ preparations[c].step # "returned" => preparations[c].binding = NoBinding
       /\ preparations[c].step = "returned" => DOMAIN preparations[c].binding = BindingFields
  /\ \A a \in AttemptCalls :
       /\ attempts[a].step \in AttemptSteps
       /\ attempts[a].release \in Releases \union {NoRelease}
       /\ attempts[a].from \in PrepareCalls \union {NoRef}
       /\ attempts[a].script \in Scripts \union {NoRef}
       /\ attempts[a].position \in 1 .. 9
  /\ changes \in 0 .. MaxChanges /\ stops \in 0 .. MaxStops

Dispatched == {a \in AttemptCalls : attempts[a].step = "dispatched"}

(* The release that prepared the binding of an attempt.                    *)
Preparer(a) == preparations[attempts[a].from].release

(* A handler is dispatched only in a process whose script (its manifest,   *)
(* schemas and handler) and whose providers are those the binding was      *)
(* prepared with, whatever was upgraded in between: the binding itself     *)
(* carries only digests and public identities.                             *)
DispatchedAsPrepared ==
  \A a \in Dispatched :
    LET d == Definition(a)
    IN /\ d = preparations[attempts[a].from].definition
       /\ \A q \in Requirements(d) :
            requireProvider(attempts[a].release, q) = requireProvider(Preparer(a), q)

(* What a handler holds lies within what the host granted: for each        *)
(* provider, the descriptor in the binding is one that the reference bound *)
(* to its slot really stood for, and it grants every permission of the     *)
(* script; the workspace is of its repository, and the client of a script  *)
(* of the package carries out only operations that it grants; leases are   *)
(* for the alias bound to a slot and for the account the script asks for.  *)
(* (A host's own script may declare fewer operations than the client does  *)
(* that its access or its permission selects.)                             *)
HandlerWithinGrant ==
  \A a \in Dispatched :
    LET d == Definition(a)
        input == preparations[attempts[a].from].input
    IN /\ \A i \in DOMAIN d.manifest.providers :
            LET slot == d.manifest.providers[i].resource
                granted == Binding(a).resources[slot].descriptor
            IN /\ granted \in answered[input.resources[slot].resourceRef] \ {NoRef}
               /\ Granted(granted, d)
               /\ attempts[a].repositories[i] \in {NoRef, granted.repositoryId}
               /\ d.manifest \in BuiltInManifests =>
                    \A c \in attempts[a].clients : c.slot = slot =>
                      ClientOperations[c.client] \subseteq granted.grant.operations
       /\ \A lease \in attempts[a].leases :
            /\ lease.alias = input.credentials[lease.slot]
            /\ lease.provider = Credential(d, lease.slot).provider

(* prepareBinding() and executeAttempt() agree: under the release that     *)
(* prepared a binding, an attempt of its script is not refused, and it is  *)
(* not failed for its coordinates, whatever the host has changed since.    *)
PreparedIsAdmitted ==
  \A a \in AttemptCalls :
    /\ attempts[a].step \notin {"idle", "lost"}
    /\ attempts[a].release = Preparer(a) /\ attempts[a].script = Binding(a).script
    => attempts[a].step \notin {"refused", "missing", "coordinates_invalid"}

(* No call of a running process meets a provider that is not there.        *)
ProvidersComplete ==
  /\ \A c \in PrepareCalls : preparations[c].step # "missing"
  /\ \A a \in AttemptCalls : attempts[a].step # "missing"
=============================================================================

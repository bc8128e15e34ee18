------------------------ MODULE ScriptBindingProofs ------------------------
(***************************************************************************)
(* What a binding does for an attempt in a later process, proved for any   *)
(* releases, manifests and host data, any number of calls, and any number  *)
(* of changes and restarts.                                                *)
(*                                                                         *)
(* A binding carries digests and public identities.  The invariant says    *)
(* which definition and which providers they were taken from, and that an  *)
(* attempt past validateBinding() was compared with all of them.           *)
(***************************************************************************)
EXTENDS ScriptBinding, TLAPS

Preparing == {"resources", "credentials"}
Acquiring == {"admitted", "workspace", "credentials", "clients"}

(* Both kinds of calls are records of their fields.                        *)
Preparation(p) ==
  DOMAIN p = {"step", "release", "input", "definition", "slots", "descriptors", "binding"}

Attempt(t) ==
  DOMAIN t = {"step", "release", "script", "definition", "from", "position",
              "repositories", "leases", "clients"}

(* What a binding says of the definition and the providers it is of.       *)
Identifies(binding, r, d) ==
  /\ binding.definitionDigest = digestDefinition(d)
  /\ binding.providers = providerDescriptors(r, d)

(* What is known of a resource slot that has been inspected.               *)
Accepted(r, d, slot, bound, descriptor) ==
  /\ descriptor.kind = Resource(d, slot).kind
  /\ Granted(descriptor, d)
  /\ workspaceRequired(r, d, slot) => bound.workspaceRef # NoRef
  /\ validateCoordinates(r, ProvidersOf(d, slot), descriptor)

UnderWay(p) ==
  /\ p.release \in Startable /\ Resolvable(p.release, p.input.script)
  /\ p.definition = resolve(p.release, p.input.script)
  /\ requireExactNames(p.input, p.definition)
  /\ DOMAIN p.descriptors = ResourceSlots(p.definition)
  /\ p.step = "resources" => DOMAIN p.slots = ResourceSlots(p.definition)
  /\ \A slot \in ResourceSlots(p.definition) :
       p.step = "credentials" \/ p.slots[slot] # "resource" =>
         Accepted(p.release, p.definition, slot, p.input.resources[slot], p.descriptors[slot])

(* A binding would be admitted by the process that it was prepared in.     *)
Admissible(r, d, binding) ==
  /\ r \in Startable /\ Resolvable(r, binding.script) /\ d = resolve(r, binding.script)
  /\ validateBinding(r, d, binding.script, binding)
  /\ \A slot \in ResourceSlots(d) :
       validateCoordinates(r, ProvidersOf(d, slot), binding.resources[slot].descriptor)

PreparationTrue(p) ==
  /\ p.step # "missing"
  /\ p.step \in Preparing => p.release = process /\ UnderWay(p)
  /\ p.step = "returned" => Admissible(p.release, p.definition, p.binding)

(* The process and the script pin are those that a binding was made for.   *)
AsPrepared(t) ==
  /\ t.release = preparations[t.from].release
  /\ t.script = preparations[t.from].binding.script

AttemptTrue(t) ==
  /\ t.step # "missing"
  /\ t.step \in {"refused", "coordinates_invalid"} => ~AsPrepared(t)
  /\ t.step \notin {"idle", "lost"} =>
       t.from \in PrepareCalls /\ preparations[t.from].step = "returned"
  /\ t.step \in Acquiring => t.release = process
  /\ t.step \in Acquiring \union {"dispatched"} =>
       /\ t.release \in Startable /\ Resolvable(t.release, t.script)
       /\ t.definition = resolve(t.release, t.script)
       /\ Identifies(preparations[t.from].binding, t.release, t.definition)

ProcessInv ==
  /\ process \in Startable \union {NoRelease}
  /\ stops \in 0 .. MaxStops
  /\ deployments \in [1 .. MaxStops + 1 -> Startable]

PreparationsInv ==
  /\ preparations = [c \in PrepareCalls |-> preparations[c]]
  /\ \A c \in PrepareCalls : Preparation(preparations[c]) /\ PreparationTrue(preparations[c])

AttemptsInv ==
  /\ attempts = [a \in AttemptCalls |-> attempts[a]]
  /\ \A a \in AttemptCalls : Attempt(attempts[a]) /\ AttemptTrue(attempts[a])

IInv == ProcessInv /\ PreparationsInv /\ AttemptsInv

-----------------------------------------------------------------------------
(* What the constructor has made sure of.                                  *)

LEMMA Complete ==
  ASSUME NEW r \in Startable, NEW d \in Definitions(r)
  PROVE  ~ContractMissing(r, d)
BY DEF Startable, Constructible, requireCoverage

LEMMA Resolved ==
  ASSUME NEW r, NEW script, Resolvable(r, script)
  PROVE  resolve(r, script) \in Definitions(r)
BY DEF Resolvable, resolve

LEMMA ProviderFound ==
  ASSUME NEW r \in Startable, NEW d \in Definitions(r), NEW q \in Requirements(d)
  PROVE  requireProvider(r, q) \in Providers(r)
BY Complete DEF ContractMissing, Supplied, requireProvider

(* A stored binding is never changed.                                      *)
PreparationsKept ==
  \A c \in PrepareCalls : preparations[c].step = "returned" => preparations'[c] = preparations[c]

LEMMA PreparationMoves ==
  ASSUME ProcessInv, PreparationsInv, UNCHANGED process, NEW c \in PrepareCalls,
         preparations[c].step # "returned",
         NEW p, preparations' = [preparations EXCEPT ![c] = p],
         Preparation(p), PreparationTrue(p)
  PROVE  PreparationsInv' /\ PreparationsKept
<1>1. \A o \in PrepareCalls : preparations'[o] = IF o = c THEN p ELSE preparations[o]
  BY DEF PreparationsInv
<1>2. preparations' = [o \in PrepareCalls |-> preparations'[o]]
  BY DEF PreparationsInv
<1>3. QED
  BY <1>1, <1>2 DEF PreparationsInv, PreparationsKept, Preparation, PreparationTrue

LEMMA AttemptMoves ==
  ASSUME AttemptsInv, UNCHANGED <<process, preparations>>, NEW a \in AttemptCalls,
         NEW t, attempts' = [attempts EXCEPT ![a] = t], Attempt(t), AttemptTrue(t)
  PROVE  AttemptsInv'
<1>1. \A o \in AttemptCalls : attempts'[o] = IF o = a THEN t ELSE attempts[o]
  BY DEF AttemptsInv
<1>2. attempts' = [o \in AttemptCalls |-> attempts'[o]]
  BY DEF AttemptsInv
<1>3. QED
  BY <1>1, <1>2 DEF AttemptsInv, Attempt, AttemptTrue, AsPrepared

(* Attempts see only stored bindings of the preparations.                  *)
LEMMA AttemptsFrame ==
  ASSUME AttemptsInv, UNCHANGED <<process, attempts>>, PreparationsKept
  PROVE  AttemptsInv'
<1>1. ASSUME NEW a \in AttemptCalls PROVE AttemptTrue(attempts[a])'
  <2> DEFINE t == attempts[a]
  <2>1. AttemptTrue(t) /\ t' = t /\ process' = process
    BY DEF AttemptsInv
  <2>2. CASE t.step \in {"idle", "lost"}
    BY <2>1, <2>2 DEF AttemptTrue, Acquiring
  <2>3. CASE t.step \notin {"idle", "lost"}
    <3>1. t.from \in PrepareCalls /\ preparations'[t.from] = preparations[t.from]
      BY <2>1, <2>3 DEF AttemptTrue, PreparationsKept
    <3> HIDE DEF t
    <3>2. AttemptTrue(t)'
      BY <2>1, <3>1 DEF AttemptTrue, AsPrepared
    <3>3. QED
      BY <3>2 DEF t
  <2>4. QED
    BY <2>2, <2>3
<1>2. QED
  BY <1>1 DEF AttemptsInv, Attempt

-----------------------------------------------------------------------------
(* prepareBinding() keeps the invariant.                                   *)

LEMMA PreparationStops ==
  ASSUME IInv, UNCHANGED process, NEW c \in PrepareCalls, preparations[c].step # "returned",
         PreparationGoes(c, "refused")
  PROVE  PreparationsInv' /\ PreparationsKept
<1> DEFINE new == [preparations[c] EXCEPT !.step = "refused"]
<1>1. preparations' = [preparations EXCEPT ![c] = new]
  BY DEF PreparationGoes
<1>2. Preparation(preparations[c])
  BY DEF IInv, PreparationsInv
<1>3. Preparation(new) /\ new.step = "refused"
  BY <1>2 DEF Preparation
<1>4. PreparationTrue(new)
  BY <1>3 DEF PreparationTrue, Preparing
<1> HIDE DEF new
<1>5. QED
  BY <1>1, <1>3, <1>4, PreparationMoves DEF IInv

(* A call under way goes on.                                               *)
LEMMA PreparationGoesOn ==
  ASSUME IInv, UNCHANGED process, NEW c \in PrepareCalls, preparations[c].step \in Preparing,
         NEW new, preparations' = [preparations EXCEPT ![c] = new], Preparation(new),
         new.step \in Preparing, new.release = preparations[c].release, UnderWay(new)
  PROVE  PreparationsInv' /\ PreparationsKept
<1>1. PreparationTrue(preparations[c]) /\ preparations[c].step # "returned"
  BY DEF IInv, PreparationsInv, Preparing
<1>2. PreparationTrue(new)
  BY <1>1 DEF PreparationTrue, Preparing
<1>3. QED
  BY <1>1, <1>2, PreparationMoves DEF IInv

LEMMA PreparationUnderWay ==
  ASSUME NEW c \in PrepareCalls, PreparationStep(c)
  PROVE  UNCHANGED process /\ preparations[c].step # "returned"
BY DEF PreparationStep, StartPreparation, InspectResource, InspectWorkspace, InspectCredential,
       ResourcesPrepared, FinishPreparation, InspectionFails

LEMMA PreparationKeeps ==
  ASSUME IInv, NEW c \in PrepareCalls, PreparationStep(c)
  PROVE  UNCHANGED process /\ PreparationsInv' /\ PreparationsKept
<1> DEFINE call == preparations[c]
<1>0. /\ ProcessInv /\ PreparationsInv /\ Preparation(call)
      /\ call.step \in Preparing => call.release = process /\ UnderWay(call)
  BY DEF IInv, PreparationsInv, PreparationTrue
<1>1. UNCHANGED process /\ call.step # "returned"
  BY PreparationUnderWay
<1>2. ASSUME NEW input \in BindingInputs, StartPreparation(c, input)
      PROVE  PreparationsInv' /\ PreparationsKept
  <2> DEFINE d == resolve(process, input.script)
             new == IF Resolvable(process, input.script) THEN Started(input, d)
                    ELSE [NoPreparation EXCEPT !.step = "refused", !.release = process]
  <2>1. preparations' = [preparations EXCEPT ![c] = new] /\ process \in Startable
    BY <1>0, <1>2 DEF StartPreparation, ProcessInv
  <2>2. CASE Resolvable(process, input.script) /\ requireExactNames(input, d)
    <3> HIDE DEF d
    <3>1. /\ Preparation(new) /\ new.step = "resources" /\ new.release = process
          /\ new.input = input /\ new.definition = d
          /\ new.slots = [slot \in DOMAIN input.resources |-> "resource"]
          /\ new.descriptors = [slot \in DOMAIN input.resources |-> NoRef]
      BY <2>2 DEF Started, NoPreparation, Preparation
    <3> HIDE DEF new
    <3>2. UnderWay(new)
      BY <2>1, <2>2, <3>1 DEF UnderWay, requireExactNames, d
    <3>3. PreparationTrue(new)
      BY <3>1, <3>2 DEF PreparationTrue
    <3>4. QED
      BY <1>0, <1>1, <2>1, <3>1, <3>3, PreparationMoves
  <2>3. CASE ~(Resolvable(process, input.script) /\ requireExactNames(input, d))
    <3>1. new = [NoPreparation EXCEPT !.step = "refused", !.release = process]
      BY <2>3 DEF Started
    <3>2. Preparation(new) /\ new.step = "refused"
      BY <3>1 DEF NoPreparation, Preparation
    <3>3. PreparationTrue(new)
      BY <3>2 DEF PreparationTrue, Preparing
    <3> HIDE DEF new
    <3>4. QED
      BY <1>0, <1>1, <2>1, <3>2, <3>3, PreparationMoves
  <2>4. QED
    BY <2>2, <2>3
\* A provider that is not there is not met.
<1>3. ASSUME NEW slot \in DOMAIN call.slots, InspectResource(c, slot)
      PROVE  PreparationsInv' /\ PreparationsKept
  <2> DEFINE bound == call.input.resources[slot]
             descriptor == resources[bound.resourceRef]
             verdict == Inspected(process, call.definition, slot, bound, descriptor)
  <2>1. /\ call.step = "resources" /\ call.release = process /\ UnderWay(call)
        /\ slot \in ResourceSlots(call.definition)
    BY <1>0, <1>3 DEF InspectResource, Preparing, UnderWay
  <2>2. \A q \in ProvidersOf(call.definition, slot) : Supplied(process, q)
    BY <2>1, Complete, Resolved DEF ContractMissing, ProvidersOf, UnderWay
  <2>3. /\ verdict # "missing"
        /\ verdict # "refused" => Accepted(process, call.definition, slot, bound, descriptor)
    BY <2>2 DEF Inspected, Accepted
  <2>4. CASE verdict = "refused"
    BY <1>1, <1>3, <2>4, PreparationStops DEF InspectResource
  <2>5. CASE verdict # "refused"
    <3> DEFINE all == [call.slots EXCEPT ![slot] = verdict]
               found == [call.descriptors EXCEPT ![slot] = descriptor]
               new == [call EXCEPT !.slots = all, !.descriptors = found]
    <3>1. preparations' = [preparations EXCEPT ![c] = new]
      <4>1. preparations' = [preparations EXCEPT ![c].slots[slot] = verdict,
                                                 ![c].descriptors[slot] = descriptor]
        BY <1>3, <2>3, <2>5 DEF InspectResource
      <4> HIDE DEF descriptor, verdict
      <4>2. QED
        BY <1>0, <4>1 DEF Preparation, PreparationsInv
    <3> HIDE DEF all, found, descriptor, verdict, bound
    <3>2. /\ Preparation(new) /\ new.step = call.step /\ new.release = call.release
          /\ new.input = call.input /\ new.definition = call.definition
          /\ new.slots = all /\ new.descriptors = found
      BY <1>0 DEF Preparation
    <3> HIDE DEF new
    <3>3. /\ DOMAIN all = DOMAIN call.slots /\ DOMAIN found = DOMAIN call.descriptors
          /\ \A s \in ResourceSlots(call.definition) :
               /\ s # slot => all[s] = call.slots[s] /\ found[s] = call.descriptors[s]
               /\ s = slot => found[s] = descriptor
      BY <2>1 DEF all, found, UnderWay
    <3>4. UnderWay(new)
      BY <2>1, <2>3, <2>5, <3>2, <3>3 DEF UnderWay, bound
    <3>5. QED
      BY <1>1, <2>1, <3>1, <3>2, <3>4, PreparationGoesOn DEF Preparing
  <2>6. QED
    BY <2>4, <2>5
\* A slot that has been inspected is done.
<1>4. ASSUME NEW slot \in DOMAIN call.slots, call.step \in Preparing,
             call.step = "resources" => call.slots[slot] # "resource",
             preparations' = [preparations EXCEPT ![c].slots[slot] = "done"]
      PROVE  PreparationsInv' /\ PreparationsKept
  <2> DEFINE all == [call.slots EXCEPT ![slot] = "done"]
             new == [call EXCEPT !.slots = all]
  <2>1. preparations' = [preparations EXCEPT ![c] = new]
    BY <1>4
  <2> HIDE DEF all
  <2>2. /\ Preparation(new) /\ new.step = call.step /\ new.release = call.release
        /\ new.input = call.input /\ new.definition = call.definition
        /\ new.slots = all /\ new.descriptors = call.descriptors
    BY <1>0 DEF Preparation
  <2> HIDE DEF new
  <2>3. /\ DOMAIN all = DOMAIN call.slots
        /\ \A s \in DOMAIN call.slots : s # slot => all[s] = call.slots[s]
    BY DEF all
  <2>4. UnderWay(new)
    BY <1>0, <1>4, <2>2, <2>3 DEF UnderWay, Preparing
  <2>5. QED
    BY <1>1, <1>4, <2>1, <2>2, <2>4, PreparationGoesOn
<1>5. ASSUME NEW slot \in DOMAIN call.slots,
             InspectWorkspace(c, slot) \/ InspectCredential(c, slot)
      PROVE  PreparationsInv' /\ PreparationsKept
  BY <1>1, <1>4, <1>5, PreparationStops DEF InspectWorkspace, InspectCredential, Preparing
<1>6. CASE ResourcesPrepared(c)
  <2> DEFINE all == [slot \in DOMAIN call.input.credentials |-> "credential"]
             new == [call EXCEPT !.step = "credentials", !.slots = all]
  <2>1. preparations' = [preparations EXCEPT ![c] = new] /\ call.step = "resources"
    BY <1>6 DEF ResourcesPrepared
  <2> HIDE DEF all
  <2>2. /\ Preparation(new) /\ new.step = "credentials" /\ new.release = call.release
        /\ new.input = call.input /\ new.definition = call.definition
        /\ new.descriptors = call.descriptors
    BY <1>0 DEF Preparation
  <2> HIDE DEF new
  <2>3. UnderWay(call) /\ \A slot \in ResourceSlots(call.definition) : call.slots[slot] # "resource"
    BY <1>0, <1>6 DEF ResourcesPrepared, Preparing, UnderWay
  <2>4. UnderWay(new)
    BY <2>2, <2>3 DEF UnderWay
  <2>5. QED
    BY <1>1, <2>1, <2>2, <2>4, PreparationGoesOn DEF Preparing
<1>7. CASE FinishPreparation(c)
  <2> DEFINE d == call.definition
             binding == prepared(call, d)
             new == [call EXCEPT !.step = "returned", !.slots = << >>, !.descriptors = << >>,
                                 !.binding = binding]
  <2>1. /\ call.step = "credentials" /\ call.release = process /\ UnderWay(call)
        /\ ~ContractMissing(process, d)
    BY <1>0, <1>7, Complete, Resolved DEF FinishPreparation, Preparing, UnderWay
  <2>2. preparations' = [preparations EXCEPT ![c] = new]
    BY <1>7, <2>1 DEF FinishPreparation
  <2>3. Admissible(call.release, d, binding)
    <3>1. /\ binding.script = call.input.script /\ binding.definitionDigest = digestDefinition(d)
          /\ binding.implementation = d.implementation /\ binding.attemptPolicy = attemptPolicy(d)
          /\ binding.providers = providerDescriptors(call.release, d)
          /\ binding.resources = preparedResources(call, d)
          /\ binding.credentials = preparedCredentials(call, d)
      BY DEF prepared
    <3> HIDE DEF binding, call, d
    <3>2. /\ DOMAIN binding.resources = ResourceSlots(d)
          /\ \A slot \in ResourceSlots(d) :
               /\ binding.resources[slot].descriptor = call.descriptors[slot]
               /\ binding.resources[slot].workspaceRef = call.input.resources[slot].workspaceRef
               /\ binding.resources[slot].requirement =
                    [kind |-> Resource(d, slot).kind, access |-> Resource(d, slot).access]
      BY <2>1, <3>1 DEF preparedResources, UnderWay, requireExactNames, d
    <3>3. \A slot \in ResourceSlots(d) :
            Accepted(call.release, d, slot, call.input.resources[slot], call.descriptors[slot])
      BY <2>1 DEF UnderWay, d
    <3>4. requireExactResourceBindings(call.release, d, binding)
      <4> SUFFICES ASSUME NEW slot \in ResourceSlots(d)
                   PROVE  LET bound == binding.resources[slot]
                          IN /\ bound.descriptor.kind = Resource(d, slot).kind
                             /\ bound.requirement.kind = Resource(d, slot).kind
                             /\ bound.requirement.access = Resource(d, slot).access
                             /\ workspaceRequired(call.release, d, slot) => bound.workspaceRef # NoRef
                             /\ Granted(bound.descriptor, d)
        BY <3>2 DEF requireExactResourceBindings
      <4>1. Accepted(call.release, d, slot, call.input.resources[slot], call.descriptors[slot])
        BY <3>3
      <4> DEFINE stored == binding.resources[slot]
                 required == [kind |-> Resource(d, slot).kind, access |-> Resource(d, slot).access]
      <4>2. /\ stored.descriptor = call.descriptors[slot] /\ stored.requirement = required
            /\ stored.workspaceRef = call.input.resources[slot].workspaceRef
        BY <3>2
      <4> HIDE DEF stored
      <4>3. /\ stored.requirement.kind = Resource(d, slot).kind
            /\ stored.requirement.access = Resource(d, slot).access
        BY <4>2
      <4>4. /\ stored.descriptor.kind = Resource(d, slot).kind /\ Granted(stored.descriptor, d)
            /\ workspaceRequired(call.release, d, slot) => stored.workspaceRef # NoRef
        BY <4>1, <4>2 DEF Accepted
      <4>5. QED
        BY <4>3, <4>4 DEF stored
    <3>5. requireExactCredentialBindings(d, binding)
      BY <2>1, <3>1 DEF requireExactCredentialBindings, preparedCredentials, UnderWay,
                        requireExactNames, d
    <3>6. validateBinding(call.release, d, binding.script, binding)
      BY <3>1, <3>4, <3>5 DEF validateBinding, requireExactDefinitionBinding,
                              requireExactImplementationBinding, requireExactProviderBindings
    <3>7. \A slot \in ResourceSlots(d) :
            validateCoordinates(call.release, ProvidersOf(d, slot), binding.resources[slot].descriptor)
      BY <3>2, <3>3 DEF Accepted
    <3>8. QED
      BY <2>1, <3>1, <3>6, <3>7 DEF Admissible, UnderWay, d
  <2> HIDE DEF binding, d
  <2>4. /\ Preparation(new) /\ new.step = "returned" /\ new.release = call.release
        /\ new.definition = d /\ new.binding = binding
    BY <1>0 DEF Preparation, d
  <2> HIDE DEF new
  <2>5. PreparationTrue(new)
    BY <2>3, <2>4 DEF PreparationTrue, Preparing
  <2>6. QED
    BY <1>0, <1>1, <2>2, <2>4, <2>5, PreparationMoves
<1>8. CASE InspectionFails(c)
  BY <1>1, <1>8, PreparationStops DEF InspectionFails
<1>9. QED
  BY <1>1, <1>2, <1>3, <1>5, <1>6, <1>7, <1>8 DEF PreparationStep

-----------------------------------------------------------------------------
(* executeAttempt() keeps the invariant.                                   *)

(* A call past validateBinding() goes on.                                  *)
LEMMA AttemptGoesOn ==
  ASSUME IInv, UNCHANGED <<process, preparations>>, NEW a \in AttemptCalls,
         attempts[a].step \in Acquiring,
         NEW new, attempts' = [attempts EXCEPT ![a] = new], Attempt(new),
         new.step \in Acquiring \union {"dispatched", "coordinates_invalid", "failed"},
         new.release = attempts[a].release, new.script = attempts[a].script,
         new.definition = attempts[a].definition, new.from = attempts[a].from,
         new.step = "coordinates_invalid" => ~AsPrepared(attempts[a])
  PROVE  AttemptsInv'
<1>1. AttemptsInv /\ AttemptTrue(attempts[a])
  BY DEF IInv, AttemptsInv
<1>2. AttemptTrue(new)
  BY <1>1 DEF AttemptTrue, Acquiring, AsPrepared
<1>3. QED
  BY <1>1, <1>2, AttemptMoves

LEMMA AttemptKeeps ==
  ASSUME IInv, NEW a \in AttemptCalls, AttemptStep(a)
  PROVE  UNCHANGED <<process, preparations>> /\ AttemptsInv'
<1>0. AttemptsInv /\ Attempt(attempts[a])
  BY DEF IInv, AttemptsInv
<1>1. UNCHANGED <<process, preparations>>
  BY DEF AttemptStep, Submit, validateRestoredCoordinates, acquireWorkspace, acquireCredential,
         CredentialsAcquired, createResourceClients, AcquisitionFails
\* The binding is compared with the script that the pin resolves to.
<1>2. ASSUME NEW c \in PrepareCalls, NEW script \in Scripts, Submit(a, c, script)
      PROVE  AttemptsInv'
  <2> DEFINE call == [NoAttempt EXCEPT !.release = process, !.script = script, !.from = c]
             d == resolve(process, script)
             verdict == Verdict(d, script, preparations[c].binding)
             admitted == [call EXCEPT !.definition = d, !.step = verdict]
             refused == [call EXCEPT !.step = "refused"]
  <2>1. /\ process \in Startable /\ preparations[c].step = "returned"
        /\ attempts' = [attempts EXCEPT ![a] =
                          IF ~Resolvable(process, script) THEN refused ELSE admitted]
    BY <1>2 DEF Submit, IInv, ProcessInv
  <2>2. Admissible(preparations[c].release, preparations[c].definition, preparations[c].binding)
    BY <2>1 DEF IInv, PreparationsInv, PreparationTrue
  <2>3. CASE Resolvable(process, script)
    <3>1. d \in Definitions(process) /\ ~ContractMissing(process, d)
      BY <2>1, <2>3, Resolved, Complete
    <3>2. \/ verdict = "refused"
          \/ verdict = "admitted" /\ validateBinding(process, d, script, preparations[c].binding)
      BY <3>1 DEF Verdict
    <3>3. verdict = "admitted" => Identifies(preparations[c].binding, process, d)
      BY <3>2 DEF validateBinding, requireExactDefinitionBinding, requireExactProviderBindings,
                  Identifies
    <3>4. ASSUME verdict = "refused"
          PROVE  ~(process = preparations[c].release /\ script = preparations[c].binding.script)
      <4>1. ~validateBinding(process, d, script, preparations[c].binding)
        BY <3>1, <3>4 DEF Verdict, validateBinding
      <4>2. QED
        BY <2>2, <4>1 DEF Admissible
    <3> HIDE DEF d, verdict
    <3>5. /\ Attempt(admitted) /\ admitted.step = verdict /\ admitted.release = process
          /\ admitted.script = script /\ admitted.definition = d /\ admitted.from = c
      BY DEF Attempt, NoAttempt
    <3> HIDE DEF admitted
    <3>6. AttemptTrue(admitted)
      BY <2>1, <2>3, <3>1, <3>2, <3>3, <3>4, <3>5 DEF AttemptTrue, AsPrepared, Acquiring, d
    <3>7. QED
      BY <1>0, <1>1, <2>1, <2>3, <3>5, <3>6, AttemptMoves
  <2>4. CASE ~Resolvable(process, script)
    <3>1. /\ Attempt(refused) /\ refused.step = "refused" /\ refused.release = process
          /\ refused.script = script /\ refused.from = c
      BY DEF Attempt, NoAttempt
    <3> HIDE DEF refused
    <3>2. AttemptTrue(refused)
      BY <2>1, <2>2, <2>4, <3>1 DEF AttemptTrue, AsPrepared, Admissible, Acquiring
    <3>3. QED
      BY <1>0, <1>1, <2>1, <2>4, <3>1, <3>2, AttemptMoves
  <2>5. QED
    BY <2>3, <2>4
<1>3. ASSUME NEW step \in Acquiring \union {"dispatched", "coordinates_invalid", "failed"},
             attempts[a].step \in Acquiring, AttemptGoes(a, step),
             step = "coordinates_invalid" => ~AsPrepared(attempts[a])
      PROVE  AttemptsInv'
  <2> DEFINE new == [attempts[a] EXCEPT !.step = step]
  <2>1. attempts' = [attempts EXCEPT ![a] = new]
    BY <1>3 DEF AttemptGoes
  <2>2. /\ Attempt(new) /\ new.step = step /\ new.release = attempts[a].release
        /\ new.script = attempts[a].script /\ new.definition = attempts[a].definition
        /\ new.from = attempts[a].from
    BY <1>0 DEF Attempt
  <2> HIDE DEF new
  <2>3. QED
    BY <1>1, <1>3, <2>1, <2>2, AttemptGoesOn
<1>4. CASE validateRestoredCoordinates(a)
  <2> DEFINE t == attempts[a]
             d == t.definition
             p == preparations[t.from]
             valid == \A slot \in ResourceSlots(d) :
                        validateCoordinates(process, ProvidersOf(d, slot),
                                            p.binding.resources[slot].descriptor)
  <2>1. PICK step \in {"dispatched", "workspace", "coordinates_invalid"} :
          AttemptGoes(a, step) /\ (step = "coordinates_invalid" => ~valid)
    BY <1>4 DEF validateRestoredCoordinates, Onward, Definition, Binding
  <2>2. /\ t.step = "admitted" /\ t.release = process /\ d = resolve(t.release, t.script)
        /\ Admissible(p.release, p.definition, p.binding)
    BY <1>0, <1>4 DEF validateRestoredCoordinates, IInv, AttemptsInv, AttemptTrue, Acquiring,
                      PreparationsInv, PreparationTrue
  <2>3. AsPrepared(t) => valid
    BY <2>2 DEF AsPrepared, Admissible
  <2>4. QED
    BY <1>1, <1>3, <2>1, <2>2, <2>3 DEF Acquiring
<1>5. CASE acquireWorkspace(a)
  <2>1. ASSUME NEW repository, acquireWorkspaceOf(a, repository) PROVE AttemptsInv'
    <3> DEFINE all == Append(attempts[a].repositories, repository)
               new == [attempts[a] EXCEPT !.step = "credentials", !.repositories = all]
    <3>1. attempts' = [attempts EXCEPT ![a] = new]
      BY <1>0, <2>1 DEF acquireWorkspaceOf, Attempt
    <3> HIDE DEF all
    <3>2. /\ Attempt(new) /\ new.step = "credentials" /\ new.release = attempts[a].release
          /\ new.script = attempts[a].script /\ new.definition = attempts[a].definition
          /\ new.from = attempts[a].from
      BY <1>0 DEF Attempt
    <3> HIDE DEF new
    <3>3. QED
      BY <1>1, <1>5, <3>1, <3>2, AttemptGoesOn DEF acquireWorkspace, Acquiring
  <2>2. QED
    BY <1>3, <1>5, <2>1 DEF acquireWorkspace, Acquiring
<1>6. ASSUME NEW slot \in Unleased(a), acquireCredential(a, slot) PROVE AttemptsInv'
  <2> DEFINE bound == Binding(a).credentials[slot]
             lease == [slot |-> slot, alias |-> bound.alias, provider |-> credentials[bound.alias]]
             all == attempts[a].leases \union {lease}
             step == IF lease.provider = bound.provider THEN attempts[a].step ELSE "failed"
             new == [attempts[a] EXCEPT !.leases = all, !.step = step]
  <2>1. /\ attempts[a].step = "credentials"
        /\ attempts' = [attempts EXCEPT ![a] = new]
    BY <1>0, <1>6 DEF acquireCredential, Attempt
  <2>2. step \in {"credentials", "failed"}
    BY <2>1
  <2> HIDE DEF all, step
  <2>3. /\ Attempt(new) /\ new.step = step /\ new.release = attempts[a].release
        /\ new.script = attempts[a].script /\ new.definition = attempts[a].definition
        /\ new.from = attempts[a].from
    BY <1>0 DEF Attempt
  <2> HIDE DEF new
  <2>4. QED
    BY <1>1, <2>1, <2>2, <2>3, AttemptGoesOn DEF Acquiring
<1>7. CASE CredentialsAcquired(a)
  BY <1>3, <1>7 DEF CredentialsAcquired, Acquiring
<1>8. CASE createResourceClients(a)
  <2> DEFINE attached == [slot |-> Requirement(a).resource,
                          name |-> clientName(Requirement(a).contract), client |-> CreatedClient(a)]
             all == attempts[a].clients \union {attached}
             step == Onward(a, attempts[a].position + 1)
             new == [attempts[a] EXCEPT !.step = step, !.position = attempts[a].position + 1,
                                        !.clients = all]
  <2>1. CASE AttemptGoes(a, "failed")
    BY <1>3, <1>8, <2>1 DEF createResourceClients, Acquiring
  <2>2. CASE ~AttemptGoes(a, "failed")
    <3>1. attempts' = [attempts EXCEPT ![a] = new]
      BY <1>0, <1>8, <2>2 DEF createResourceClients, Attempt
    <3>2. step \in {"dispatched", "workspace"}
      BY DEF Onward
    <3> HIDE DEF all, step
    <3>3. /\ Attempt(new) /\ new.step = step /\ new.release = attempts[a].release
          /\ new.script = attempts[a].script /\ new.definition = attempts[a].definition
          /\ new.from = attempts[a].from
      BY <1>0 DEF Attempt
    <3> HIDE DEF new
    <3>4. QED
      BY <1>1, <1>8, <3>1, <3>2, <3>3, AttemptGoesOn DEF createResourceClients, Acquiring
  <2>3. QED
    BY <2>1, <2>2
<1>9. CASE AcquisitionFails(a)
  BY <1>3, <1>9 DEF AcquisitionFails, Acquiring
<1>10. QED
  BY <1>1, <1>2, <1>4, <1>5, <1>6, <1>7, <1>8, <1>9 DEF AttemptStep

-----------------------------------------------------------------------------
(* The process comes up and ends.                                          *)

LEMMA ProcessStarts ==
  ASSUME IInv, Start
  PROVE  IInv'
<1>1. ProcessInv'
  BY BindingAssumption DEF Start, IInv, ProcessInv
<1>2. ASSUME NEW c \in PrepareCalls PROVE PreparationTrue(preparations[c])'
  BY BindingAssumption DEF Start, IInv, PreparationsInv, PreparationTrue, UnderWay, Startable
<1>3. ASSUME NEW a \in AttemptCalls PROVE AttemptTrue(attempts[a])'
  BY BindingAssumption DEF Start, IInv, AttemptsInv, AttemptTrue, AsPrepared, Startable
<1>4. QED
  BY <1>1, <1>2, <1>3 DEF Start, IInv, PreparationsInv, AttemptsInv, Preparation, Attempt

(* Calls under way are lost; what was returned or dispatched stays.        *)
LEMMA ProcessStops ==
  ASSUME IInv, Stop
  PROVE  IInv'
<1>1. ProcessInv'
  BY BindingAssumption DEF Stop, IInv, ProcessInv
<1>2. /\ preparations' = [c \in PrepareCalls |-> preparations'[c]]
      /\ attempts' = [a \in AttemptCalls |-> attempts'[a]]
      /\ \A c \in PrepareCalls : preparations'[c] =
           IF preparations[c].step \in Preparing
           THEN [NoPreparation EXCEPT !.step = "lost"] ELSE preparations[c]
      /\ \A a \in AttemptCalls : attempts'[a] =
           IF attempts[a].step \in Acquiring
           THEN [NoAttempt EXCEPT !.step = "lost"] ELSE attempts[a]
  BY DEF Stop, PreparationsLost, AttemptsLost, Preparing, Acquiring
<1>3. ASSUME NEW c \in PrepareCalls
      PROVE  /\ Preparation(preparations[c])' /\ PreparationTrue(preparations[c])'
             /\ preparations[c].step = "returned" => preparations'[c] = preparations[c]
  <2>1. CASE preparations[c].step \in Preparing
    <3>1. Preparation(preparations'[c]) /\ preparations'[c].step = "lost"
      BY <1>2, <2>1 DEF Preparation, NoPreparation
    <3>2. QED
      BY <2>1, <3>1 DEF Preparation, PreparationTrue, Preparing
  <2>2. CASE preparations[c].step \notin Preparing
    BY <1>2, <2>2 DEF IInv, PreparationsInv, Preparation, PreparationTrue
  <2>3. QED
    BY <2>1, <2>2
<1>4. ASSUME NEW a \in AttemptCalls PROVE Attempt(attempts[a])' /\ AttemptTrue(attempts[a])'
  <2>1. CASE attempts[a].step \in Acquiring
    <3>1. Attempt(attempts'[a]) /\ attempts'[a].step = "lost"
      BY <1>2, <2>1 DEF Attempt, NoAttempt
    <3>2. QED
      BY <3>1 DEF Attempt, AttemptTrue, Acquiring
  <2>2. CASE attempts[a].step \notin Acquiring
    <3> DEFINE t == attempts[a]
    <3>1. Attempt(t) /\ AttemptTrue(t) /\ t' = t
      BY <1>2, <2>2 DEF IInv, AttemptsInv
    <3>2. CASE t.step \in {"idle", "lost"}
      BY <3>1, <3>2 DEF Attempt, AttemptTrue, Acquiring
    <3>3. CASE t.step \notin {"idle", "lost"}
      <4>1. t.from \in PrepareCalls /\ preparations'[t.from] = preparations[t.from]
        BY <1>3, <3>1, <3>3 DEF AttemptTrue
      <4> HIDE DEF t
      <4>2. Attempt(t)' /\ AttemptTrue(t)'
        BY <2>2, <3>1, <4>1 DEF Attempt, AttemptTrue, AsPrepared, t
      <4>3. QED
        BY <4>2 DEF t
    <3>4. QED
      BY <3>2, <3>3
  <2>3. QED
    BY <2>1, <2>2
<1>5. QED
  BY <1>1, <1>2, <1>3, <1>4 DEF IInv, PreparationsInv, AttemptsInv

LEMMA Inductive == IInv /\ [Next]_vars => IInv'
<1> SUFFICES ASSUME IInv, [Next]_vars PROVE IInv'
  OBVIOUS
<1>1. CASE HostChanges \/ UNCHANGED vars
  <2>1. UNCHANGED <<process, preparations, attempts, deployments, stops>>
    BY <1>1 DEF HostChanges, vars
  <2>2. QED
    BY <2>1 DEF IInv, ProcessInv, PreparationsInv, AttemptsInv, Preparation, PreparationTrue,
                Attempt, AttemptTrue, AsPrepared
<1>2. ASSUME NEW c \in PrepareCalls, PreparationStep(c),
             UNCHANGED <<attempts, deployments, answered, changes, stops>>
      PROVE  IInv'
  <2>1. UNCHANGED process /\ PreparationsInv' /\ PreparationsKept
    BY <1>2, PreparationKeeps
  <2>2. QED
    BY <1>2, <2>1, AttemptsFrame DEF IInv, ProcessInv
<1>3. ASSUME NEW a \in AttemptCalls, AttemptStep(a),
             UNCHANGED <<deployments, answered, changes, stops>>
      PROVE  IInv'
  <2>1. UNCHANGED <<process, preparations>> /\ AttemptsInv'
    BY <1>3, AttemptKeeps
  <2>2. QED
    BY <1>3, <2>1 DEF IInv, ProcessInv, PreparationsInv, Preparation, PreparationTrue
<1>4. QED
  BY <1>1, <1>2, <1>3, ProcessStarts, ProcessStops DEF Next

-----------------------------------------------------------------------------
(* The invariant holds of every behaviour: a binding says which definition *)
(* and providers it is of, and attempts under way were compared with them. *)
THEOREM Invariant == Spec => []IInv
<1>1. Init => IInv
  <2> SUFFICES ASSUME Init PROVE IInv
    OBVIOUS
  <2>1. ProcessInv
    BY BindingAssumption DEF Init, ProcessInv
  <2>2. PreparationsInv
    BY DEF Init, PreparationsInit, PreparationsInv, NoPreparation, Preparation, PreparationTrue,
           Preparing
  <2>3. AttemptsInv
    BY DEF Init, AttemptsInit, AttemptsInv, NoAttempt, Attempt, AttemptTrue, Acquiring
  <2>4. QED
    BY <2>1, <2>2, <2>3 DEF IInv
<1>2. QED
  BY <1>1, Inductive, PTL DEF Spec

(* No call of a running process meets a provider that is not there: what   *)
(* the constructor checked once is never found missing later.              *)
THEOREM NoProviderMissing == Spec => []ProvidersComplete
<1>1. IInv => ProvidersComplete
  BY DEF IInv, PreparationsInv, AttemptsInv, PreparationTrue, AttemptTrue, ProvidersComplete
<1>2. QED
  BY <1>1, Invariant, PTL

(* Past validateBinding(), a call runs the definition that the binding was *)
(* prepared with: the digest covers all of it but the handler, and the     *)
(* build digest names the handler's code.                                  *)
LEMMA SameDefinition ==
  ASSUME IInv, NEW a \in AttemptCalls, attempts[a].step \in Acquiring \union {"dispatched"}
  PROVE  LET p == preparations[attempts[a].from]
         IN /\ p.step = "returned" /\ Admissible(p.release, p.definition, p.binding)
            /\ Definition(a) = p.definition
            /\ attempts[a].release \in Startable
            /\ Definition(a) \in Definitions(attempts[a].release)
            /\ p.release \in Startable /\ p.definition \in Definitions(p.release)
            /\ Identifies(p.binding, attempts[a].release, Definition(a))
            /\ Identifies(p.binding, p.release, p.definition)
<1> DEFINE r == attempts[a].release
           d == Definition(a)
           p == preparations[attempts[a].from]
<1>1. /\ r \in Startable /\ d \in Definitions(r) /\ Identifies(p.binding, r, d)
      /\ p.step = "returned" /\ Admissible(p.release, p.definition, p.binding)
  BY Resolved DEF IInv, AttemptsInv, AttemptTrue, PreparationsInv, PreparationTrue, Definition,
                  Acquiring
<1>2. /\ p.release \in Startable /\ p.definition \in Definitions(p.release)
      /\ Identifies(p.binding, p.release, p.definition)
  BY <1>1, Resolved DEF Admissible, validateBinding, requireExactDefinitionBinding,
                        requireExactProviderBindings, Identifies
<1> HIDE DEF r, d, p
<1>3. digestDefinition(d) = digestDefinition(p.definition)
  BY <1>1, <1>2 DEF Identifies
<1>4. /\ d.manifest = p.definition.manifest /\ d.schemas = p.definition.schemas
      /\ d.implementation = p.definition.implementation
  BY <1>3 DEF digestDefinition
<1>5. d.handler = p.definition.handler
  BY <1>1, <1>2, <1>4, BuildDigestAssumption DEF Startable
<1>6. d = p.definition
  BY <1>1, <1>2, <1>4, <1>5, DefinitionAssumption DEF Startable
<1>7. QED
  BY <1>1, <1>2, <1>6 DEF r, d, p

(* A handler is dispatched only with the definition and the providers that *)
(* its binding was prepared with, whatever was released in between.        *)
THEOREM SameCodeDispatched == Spec => []DispatchedAsPrepared
<1>1. IInv => DispatchedAsPrepared
  <2> SUFFICES ASSUME IInv, NEW a \in Dispatched
               PROVE  /\ Definition(a) = preparations[attempts[a].from].definition
                      /\ \A q \in Requirements(Definition(a)) :
                           requireProvider(attempts[a].release, q) = requireProvider(Preparer(a), q)
    BY DEF DispatchedAsPrepared
  <2> DEFINE r == attempts[a].release
             d == Definition(a)
             p == preparations[attempts[a].from]
  <2>1. /\ r \in Startable /\ d \in Definitions(r) /\ Identifies(p.binding, r, d)
        /\ p.release \in Startable /\ Identifies(p.binding, p.release, d)
        /\ d = p.definition /\ d \in Definitions(p.release)
    BY SameDefinition DEF Dispatched
  <2> HIDE DEF r, d, p
  <2>2. ASSUME NEW q \in Requirements(d) PROVE requireProvider(r, q) = requireProvider(p.release, q)
    <3>1. PICK i \in DOMAIN d.manifest.providers : q = d.manifest.providers[i]
      BY DEF Requirements, ToSet
    <3>2. providerDescriptors(r, d) = providerDescriptors(p.release, d)
      BY <2>1 DEF Identifies
    <3>3. describe(r, q) = describe(p.release, q)
      BY <3>1, <3>2 DEF providerDescriptors
    <3>4. requireProvider(r, q).implementationDigest = requireProvider(p.release, q).implementationDigest
      BY <3>3 DEF describe
    <3>5. requireProvider(r, q) \in Providers(r) /\ requireProvider(p.release, q) \in Providers(p.release)
      BY <2>1, <2>2, ProviderFound
    <3>6. QED
      BY <2>1, <3>4, <3>5, BuildDigestAssumption DEF Providers, Startable
  <2>3. QED
    BY <2>1, <2>2 DEF r, d, p, Preparer
<1>2. QED
  BY <1>1, Invariant, PTL

(* prepareBinding() and executeAttempt() agree: in the release that        *)
(* prepared a binding, an attempt of its script is neither refused nor     *)
(* failed for its coordinates, whatever the host has changed since.        *)
THEOREM PreparedAdmitted == Spec => []PreparedIsAdmitted
<1>1. IInv => PreparedIsAdmitted
  BY DEF IInv, AttemptsInv, AttemptTrue, AsPrepared, PreparedIsAdmitted, Preparer, Binding
<1>2. QED
  BY <1>1, Invariant, PTL
-----------------------------------------------------------------------------
(* What a handler holds.  A second invariant, on top of the first: what a  *)
(* call has taken from the host is what the binding, and before it the     *)
(* host, said.                                                             *)

DataInv ==
  /\ DOMAIN resources = DOMAIN Resources /\ DOMAIN answered = DOMAIN Resources
  /\ \A ref \in DOMAIN Resources :
       resources[ref] \in answered[ref] /\ answered[ref] \subseteq Answers
  /\ \A ref \in DOMAIN workspaces : workspaces[ref] \in Repositories \union {NoRef}
  /\ \A alias \in DOMAIN credentials : credentials[alias] \in Accounts \union {NoRef}
  /\ changes \in 0 .. MaxChanges

(* The descriptors that the reference bound to a slot has stood for.       *)
StoodFor(input, slot) == answered[input.resources[slot].resourceRef] \ {NoRef}

PreparationTyped(p) ==
  /\ p.step \in PreparationSteps
  /\ p.release \in Releases \union {NoRelease}
  /\ p.input \in BindingInputs \union {NoRef}
  /\ p.step # "returned" => p.binding = NoBinding
  /\ p.step = "returned" => DOMAIN p.binding = BindingFields

PreparationGrants(p) ==
  /\ p.step \in Preparing \union {"returned"} =>
       p.input \in BindingInputs /\ DOMAIN p.input.resources = ResourceSlots(p.definition)
  /\ p.step \in Preparing =>
       \A slot \in ResourceSlots(p.definition) :
         p.step = "credentials" \/ p.slots[slot] # "resource" =>
           p.descriptors[slot] \in StoodFor(p.input, slot)
  /\ p.step = "returned" =>
       /\ \A slot \in ResourceSlots(p.definition) :
            p.binding.resources[slot].descriptor \in StoodFor(p.input, slot)
       /\ \A slot \in CredentialSlots(p.definition) :
            p.binding.credentials[slot].alias = p.input.credentials[slot]

(* What the workspace of a provider may be of, by its descriptor.          *)
RepositoryAt(binding, q) == {NoRef, binding.resources[q.resource].descriptor.repositoryId}
BoundRepositories(binding, d) == UNION {RepositoryAt(binding, q) : q \in Requirements(d)}

(* The clients that the provider of a requirement may create.              *)
ClientsFor(d, q) ==
  {IF q.contract = GitContract THEN gitClient(Resource(d, q.resource).access)
   ELSE gitHubClient(ToSet(d.manifest.permissions))} \ {NoClient}

AttemptTyped(t) ==
  /\ t.step \in AttemptSteps
  /\ t.release \in Releases \union {NoRelease}
  /\ t.from \in PrepareCalls \union {NoRef}
  /\ t.script \in Scripts \union {NoRef}
  /\ t.position \in 1 .. 9

(* The provider at work is the one at the position; the workspaces of the  *)
(* ones before it, and its own once it has one, are in order.              *)
InOrder(t) ==
  LET providers == t.definition.manifest.providers
      binding == preparations[t.from].binding
  IN /\ t.position \in 1 .. Len(providers) + 1
     /\ t.step = "admitted" => t.position = 1
     /\ t.step \in {"workspace", "credentials", "clients"} => t.position <= Len(providers)
     /\ t.step = "dispatched" => t.position = Len(providers) + 1
     /\ t.repositories \in Seq(BoundRepositories(binding, t.definition))
     /\ Len(t.repositories) =
          IF t.step \in {"credentials", "clients"} THEN t.position ELSE t.position - 1
     /\ \A i \in DOMAIN t.repositories : t.repositories[i] \in RepositoryAt(binding, providers[i])

Held(t) ==
  LET d == t.definition
      binding == preparations[t.from].binding
  IN /\ \A lease \in t.leases :
          /\ lease.slot \in CredentialSlots(d)
          /\ lease.alias = binding.credentials[lease.slot].alias
          /\ lease.provider = binding.credentials[lease.slot].provider
     /\ \A c \in t.clients : \E q \in Requirements(d) :
          c.slot = q.resource /\ c.client \in ClientsFor(d, q)

AttemptGrants(t) == t.step \in Acquiring \union {"dispatched"} => InOrder(t) /\ Held(t)

PreparationsGranted ==
  \A c \in PrepareCalls : PreparationTyped(preparations[c]) /\ PreparationGrants(preparations[c])

AttemptsGranted ==
  \A a \in AttemptCalls : AttemptTyped(attempts[a]) /\ AttemptGrants(attempts[a])

GrantInv == DataInv /\ PreparationsGranted /\ AttemptsGranted

-----------------------------------------------------------------------------
(* One call at a time changes, and the rest of the second invariant stays. *)

LEMMA PreparationGranted ==
  ASSUME IInv, PreparationsGranted, UNCHANGED answered, NEW c \in PrepareCalls,
         NEW p, preparations' = [preparations EXCEPT ![c] = p],
         PreparationTyped(p), PreparationGrants(p)
  PROVE  PreparationsGranted'
<1>1. \A o \in PrepareCalls : preparations'[o] = IF o = c THEN p ELSE preparations[o]
  BY DEF IInv, PreparationsInv
<1>2. ASSUME NEW o \in PrepareCalls
      PROVE  (PreparationTyped(preparations[o]) /\ PreparationGrants(preparations[o]))'
  <2> DEFINE s == preparations[o]
  <2>1. \E u : s' = u /\ PreparationTyped(u) /\ PreparationGrants(u)
    BY <1>1 DEF PreparationsGranted
  <2> HIDE DEF s
  <2>2. (PreparationTyped(s) /\ PreparationGrants(s))'
    BY <2>1 DEF PreparationTyped, PreparationGrants, StoodFor
  <2>3. QED
    BY <2>2 DEF s
<1>3. QED
  BY <1>2 DEF PreparationsGranted

LEMMA AttemptGranted ==
  ASSUME IInv, AttemptsGranted, UNCHANGED preparations, NEW a \in AttemptCalls,
         NEW t, attempts' = [attempts EXCEPT ![a] = t], AttemptTyped(t), AttemptGrants(t)
  PROVE  AttemptsGranted'
<1>1. \A o \in AttemptCalls : attempts'[o] = IF o = a THEN t ELSE attempts[o]
  BY DEF IInv, AttemptsInv
<1>2. ASSUME NEW o \in AttemptCalls PROVE (AttemptTyped(attempts[o]) /\ AttemptGrants(attempts[o]))'
  <2> DEFINE s == attempts[o]
  <2>1. \E u : s' = u /\ AttemptTyped(u) /\ AttemptGrants(u)
    BY <1>1 DEF AttemptsGranted
  <2> HIDE DEF s
  <2>2. (AttemptTyped(s) /\ AttemptGrants(s))'
    BY <2>1 DEF AttemptTyped, AttemptGrants, InOrder, Held
  <2>3. QED
    BY <2>2 DEF s
<1>3. QED
  BY <1>2 DEF AttemptsGranted

(* A stored binding does not change, nor what an attempt has under it.     *)
LEMMA AttemptsStayGranted ==
  ASSUME IInv, AttemptsGranted, UNCHANGED attempts, PreparationsKept
  PROVE  AttemptsGranted'
<1>1. ASSUME NEW a \in AttemptCalls PROVE (AttemptTyped(attempts[a]) /\ AttemptGrants(attempts[a]))'
  <2> DEFINE t == attempts[a]
  <2>1. AttemptTrue(t) /\ AttemptTyped(t) /\ AttemptGrants(t) /\ t' = t
    BY DEF IInv, AttemptsInv, AttemptsGranted
  <2>2. CASE t.step \notin Acquiring \union {"dispatched"}
    BY <2>1, <2>2 DEF AttemptTyped, AttemptGrants
  <2>3. CASE t.step \in Acquiring \union {"dispatched"}
    <3>1. t.from \in PrepareCalls /\ preparations'[t.from] = preparations[t.from]
      BY <2>1, <2>3 DEF AttemptTrue, PreparationsKept, Acquiring
    <3> HIDE DEF t
    <3>2. AttemptTyped(t)' /\ AttemptGrants(t)'
      BY <2>1, <3>1 DEF AttemptTyped, AttemptGrants, InOrder, Held, t
    <3>3. QED
      BY <3>2 DEF t
  <2>4. QED
    BY <2>2, <2>3
<1>2. QED
  BY <1>1 DEF AttemptsGranted

-----------------------------------------------------------------------------
(* prepareBinding() keeps it.                                              *)

LEMMA RefusedGranted ==
  ASSUME IInv, GrantInv, UNCHANGED answered, NEW c \in PrepareCalls,
         NEW step \in {"refused", "missing"},
         preparations[c].step # "returned", PreparationGoes(c, step)
  PROVE  PreparationsGranted'
<1> DEFINE new == [preparations[c] EXCEPT !.step = step]
<1>1. Preparation(preparations[c]) /\ PreparationTyped(preparations[c])
  BY DEF IInv, PreparationsInv, GrantInv, PreparationsGranted
<1>2. /\ new.step = step /\ new.release = preparations[c].release
      /\ new.input = preparations[c].input /\ new.binding = preparations[c].binding
  BY <1>1 DEF Preparation
<1>3. preparations' = [preparations EXCEPT ![c] = new]
  BY DEF PreparationGoes
<1> HIDE DEF new
<1>4. PreparationTyped(new) /\ PreparationGrants(new)
  BY <1>1, <1>2 DEF PreparationTyped, PreparationGrants, PreparationSteps, Preparing
<1>5. QED
  BY <1>3, <1>4, PreparationGranted DEF GrantInv

LEMMA PreparationKeepsGrants ==
  ASSUME IInv, GrantInv, UNCHANGED answered, NEW c \in PrepareCalls, PreparationStep(c)
  PROVE  PreparationsGranted'
<1> DEFINE call == preparations[c]
<1>0. /\ PreparationsInv /\ Preparation(call)
      /\ call.step \in Preparing => call.release = process /\ UnderWay(call)
      /\ PreparationTyped(call) /\ PreparationGrants(call)
      /\ process \in Startable \union {NoRelease}
  BY DEF IInv, ProcessInv, PreparationsInv, PreparationTrue, GrantInv, PreparationsGranted
<1>1. UNCHANGED process /\ call.step # "returned"
  BY PreparationUnderWay
<1>2. ASSUME NEW input \in BindingInputs, StartPreparation(c, input)
      PROVE  PreparationsGranted'
  <2> DEFINE d == resolve(process, input.script)
             refused == [NoPreparation EXCEPT !.step = "refused", !.release = process]
             started == [NoPreparation EXCEPT
                           !.step = "resources", !.release = process, !.input = input,
                           !.definition = d,
                           !.slots = [slot \in DOMAIN input.resources |-> "resource"],
                           !.descriptors = [slot \in DOMAIN input.resources |-> NoRef]]
  <2>1. /\ process \in Startable
        /\ \/ preparations' = [preparations EXCEPT ![c] = refused]
           \/ /\ preparations' = [preparations EXCEPT ![c] = started]
              /\ DOMAIN input.resources = ResourceSlots(d)
    BY <1>0, <1>2 DEF StartPreparation, Started, requireExactNames
  <2> HIDE DEF d
  <2>2. /\ refused.step = "refused" /\ refused.release = process
        /\ refused.input = NoRef /\ refused.binding = NoBinding
    BY DEF NoPreparation
  <2>3. /\ started.step = "resources" /\ started.release = process
        /\ started.input = input /\ started.binding = NoBinding /\ started.definition = d
        /\ started.slots = [slot \in DOMAIN input.resources |-> "resource"]
    BY DEF NoPreparation
  <2> HIDE DEF refused, started
  <2>4. PreparationTyped(refused) /\ PreparationGrants(refused)
    BY <2>1, <2>2 DEF PreparationTyped, PreparationGrants, PreparationSteps, Preparing, Startable
  <2>5. DOMAIN input.resources = ResourceSlots(d) =>
          PreparationTyped(started) /\ PreparationGrants(started)
    BY <2>1, <2>3 DEF PreparationTyped, PreparationGrants, PreparationSteps, Preparing, Startable
  <2>6. QED
    BY <2>1, <2>4, <2>5, PreparationGranted DEF GrantInv
\* What is taken is what the reference stands for now.
<1>3. ASSUME NEW slot \in DOMAIN call.slots, InspectResource(c, slot)
      PROVE  PreparationsGranted'
  <2> DEFINE bound == call.input.resources[slot]
             descriptor == resources[bound.resourceRef]
             verdict == Inspected(process, call.definition, slot, bound, descriptor)
  <2>1. /\ call.step = "resources" /\ UnderWay(call) /\ call.input \in BindingInputs
        /\ slot \in ResourceSlots(call.definition)
    BY <1>0, <1>3 DEF InspectResource, Preparing, UnderWay, PreparationGrants
  <2>2. CASE verdict \in {"refused", "missing"}
    BY <1>1, <1>3, <2>2, RefusedGranted DEF InspectResource
  <2>3. CASE verdict \notin {"refused", "missing"}
    <3> DEFINE all == [call.slots EXCEPT ![slot] = verdict]
               found == [call.descriptors EXCEPT ![slot] = descriptor]
               new == [call EXCEPT !.slots = all, !.descriptors = found]
    <3>1. descriptor # NoRef
      BY <2>3 DEF Inspected
    <3>2. bound.resourceRef \in DOMAIN Resources
      BY <2>1, HostAssumption DEF UnderWay, requireExactNames
    <3>3. descriptor \in StoodFor(call.input, slot)
      BY <3>1, <3>2 DEF StoodFor, GrantInv, DataInv
    <3>4. preparations' = [preparations EXCEPT ![c] = new]
      <4>1. preparations' = [preparations EXCEPT ![c].slots[slot] = verdict,
                                                 ![c].descriptors[slot] = descriptor]
        BY <1>3, <2>3 DEF InspectResource
      <4> HIDE DEF descriptor, verdict
      <4>2. QED
        BY <1>0, <4>1 DEF Preparation, PreparationsInv
    <3> HIDE DEF all, found, descriptor, verdict, bound
    <3>5. /\ new.step = call.step /\ new.release = call.release /\ new.input = call.input
          /\ new.definition = call.definition /\ new.binding = call.binding
          /\ new.slots = all /\ new.descriptors = found
      BY <1>0 DEF Preparation
    <3> HIDE DEF new
    <3>6. \A s \in ResourceSlots(call.definition) :
            /\ s # slot => all[s] = call.slots[s] /\ found[s] = call.descriptors[s]
            /\ s = slot => found[s] = descriptor
      BY <2>1 DEF all, found, UnderWay
    <3>7. PreparationTyped(new) /\ PreparationGrants(new)
      BY <1>0, <2>1, <3>3, <3>5, <3>6 DEF PreparationTyped, PreparationGrants, Preparing
    <3>8. QED
      BY <3>4, <3>7, PreparationGranted DEF GrantInv
  <2>4. QED
    BY <2>2, <2>3
<1>4. ASSUME NEW slot \in DOMAIN call.slots, call.step \in Preparing,
             call.step = "resources" => call.slots[slot] # "resource",
             preparations' = [preparations EXCEPT ![c].slots[slot] = "done"]
      PROVE  PreparationsGranted'
  <2> DEFINE all == [call.slots EXCEPT ![slot] = "done"]
             new == [call EXCEPT !.slots = all]
  <2>1. preparations' = [preparations EXCEPT ![c] = new]
    BY <1>4
  <2> HIDE DEF all
  <2>2. /\ new.step = call.step /\ new.release = call.release /\ new.input = call.input
        /\ new.definition = call.definition /\ new.binding = call.binding
        /\ new.slots = all /\ new.descriptors = call.descriptors
    BY <1>0 DEF Preparation
  <2> HIDE DEF new
  <2>3. \A s \in DOMAIN call.slots : s # slot => all[s] = call.slots[s]
    BY DEF all
  <2>4. call.step = "resources" => DOMAIN call.slots = ResourceSlots(call.definition)
    BY <1>0, <1>4 DEF UnderWay
  <2>5. PreparationTyped(new) /\ PreparationGrants(new)
    BY <1>0, <1>4, <2>2, <2>3, <2>4 DEF PreparationTyped, PreparationGrants, Preparing
  <2>6. QED
    BY <2>1, <2>5, PreparationGranted DEF GrantInv
<1>5. ASSUME NEW slot \in DOMAIN call.slots,
             InspectWorkspace(c, slot) \/ InspectCredential(c, slot)
      PROVE  PreparationsGranted'
  BY <1>1, <1>4, <1>5, RefusedGranted DEF InspectWorkspace, InspectCredential, Preparing
<1>6. CASE ResourcesPrepared(c)
  <2> DEFINE all == [slot \in DOMAIN call.input.credentials |-> "credential"]
             new == [call EXCEPT !.step = "credentials", !.slots = all]
  <2>1. preparations' = [preparations EXCEPT ![c] = new] /\ call.step = "resources"
    BY <1>6 DEF ResourcesPrepared
  <2> HIDE DEF all
  <2>2. /\ new.step = "credentials" /\ new.release = call.release /\ new.input = call.input
        /\ new.definition = call.definition /\ new.binding = call.binding
        /\ new.descriptors = call.descriptors
    BY <1>0 DEF Preparation
  <2> HIDE DEF new
  <2>3. \A slot \in ResourceSlots(call.definition) : call.slots[slot] # "resource"
    BY <1>0, <1>6 DEF ResourcesPrepared, Preparing, UnderWay
  <2>4. PreparationTyped(new) /\ PreparationGrants(new)
    BY <1>0, <2>1, <2>2, <2>3 DEF PreparationTyped, PreparationGrants, PreparationSteps, Preparing
  <2>5. QED
    BY <2>1, <2>4, PreparationGranted DEF GrantInv
\* What was taken becomes the binding.
<1>7. CASE FinishPreparation(c)
  <2>1. CASE ContractMissing(process, call.definition)
    BY <1>1, <1>7, <2>1, RefusedGranted DEF FinishPreparation
  <2>2. CASE ~ContractMissing(process, call.definition)
    <3> DEFINE d == call.definition
               binding == prepared(call, d)
               new == [call EXCEPT !.step = "returned", !.slots = << >>, !.descriptors = << >>,
                                   !.binding = binding]
    <3>1. preparations' = [preparations EXCEPT ![c] = new] /\ call.step = "credentials"
      BY <1>7, <2>2 DEF FinishPreparation
    <3>2. /\ DOMAIN binding = BindingFields
          /\ binding.resources = preparedResources(call, d)
          /\ binding.credentials = preparedCredentials(call, d)
      BY DEF prepared, BindingFields
    <3>3. /\ DOMAIN call.input.resources = ResourceSlots(d)
          /\ DOMAIN call.input.credentials = CredentialSlots(d)
      BY <1>0, <3>1 DEF Preparing, UnderWay, requireExactNames
    <3> HIDE DEF binding, d
    <3>4. \A slot \in ResourceSlots(d) : binding.resources[slot].descriptor = call.descriptors[slot]
      BY <3>2, <3>3 DEF preparedResources
    <3>5. \A slot \in CredentialSlots(d) : binding.credentials[slot].alias = call.input.credentials[slot]
      BY <3>2, <3>3 DEF preparedCredentials
    <3>6. /\ new.step = "returned" /\ new.release = call.release /\ new.input = call.input
          /\ new.definition = d /\ new.binding = binding
      BY <1>0 DEF Preparation, d
    <3> HIDE DEF new
    <3>7. PreparationTyped(new) /\ PreparationGrants(new)
      BY <1>0, <3>1, <3>2, <3>4, <3>5, <3>6
         DEF PreparationTyped, PreparationGrants, PreparationSteps, Preparing, StoodFor, d
    <3>8. QED
      BY <3>1, <3>7, PreparationGranted DEF GrantInv
  <2>3. QED
    BY <2>1, <2>2
<1>8. CASE InspectionFails(c)
  BY <1>1, <1>8, RefusedGranted DEF InspectionFails
<1>9. QED
  BY <1>2, <1>3, <1>5, <1>6, <1>7, <1>8 DEF PreparationStep
-----------------------------------------------------------------------------
(* executeAttempt() keeps it.                                              *)

(* The providers of a script that runs are a sequence of at most eight, on *)
(* slots of its manifest.                                                  *)
LEMMA ProvidersOfScript ==
  ASSUME NEW r \in Startable, NEW d \in Definitions(r)
  PROVE  /\ d.manifest.providers \in Seq(Requirements(d))
         /\ Len(d.manifest.providers) \in 0 .. 8
         /\ \A q \in Requirements(d) : q.resource \in ResourceSlots(d)
<1> DEFINE providers == d.manifest.providers
<1>1. CollectionsFit(d.manifest) /\ validateReferences(d.manifest)
  BY DEF Startable, Constructible, validateScriptManifest, validateManifestShape,
         validateCollectionPolicy
<1>2. providers \in Seq(Requirements(d)) /\ Len(providers) \in 0 .. 8
  <2>1. providers \in Seq(Requirements(d))
    BY DefinitionAssumption DEF Startable, Requirements
  <2>2. Len(providers) <= 8
    BY <1>1 DEF CollectionsFit
  <2> HIDE DEF providers
  <2> DEFINE last == Len(providers)
  <2>3. last \in Nat /\ last <= 8
    BY <2>1, <2>2
  <2> HIDE DEF last
  <2>4. last \in 0 .. 8
    BY <2>3
  <2>5. QED
    BY <2>1, <2>4 DEF last
<1>3. \A q \in Requirements(d) : q.resource \in ResourceSlots(d)
  BY <1>1 DEF validateReferences, Requirements, ToSet, ResourceSlots
<1>4. QED
  BY <1>1, <1>2, <1>3

(* What is known of a call past validateBinding().                         *)
LEMMA UnderBinding ==
  ASSUME IInv, GrantInv, NEW a \in AttemptCalls,
         attempts[a].step \in Acquiring \union {"dispatched"}
  PROVE  /\ Attempt(attempts[a]) /\ AttemptTyped(attempts[a])
         /\ InOrder(attempts[a]) /\ Held(attempts[a])
         /\ attempts[a].from \in PrepareCalls /\ preparations[attempts[a].from].step = "returned"
         /\ attempts[a].release \in Startable
         /\ Definition(a) \in Definitions(attempts[a].release)
         /\ Definition(a).manifest.providers \in Seq(Requirements(Definition(a)))
         /\ Len(Definition(a).manifest.providers) \in 0 .. 8
<1>1. /\ Attempt(attempts[a]) /\ AttemptTrue(attempts[a])
      /\ AttemptTyped(attempts[a]) /\ AttemptGrants(attempts[a])
  BY DEF IInv, AttemptsInv, GrantInv, AttemptsGranted
<1>2. /\ attempts[a].from \in PrepareCalls /\ preparations[attempts[a].from].step = "returned"
      /\ attempts[a].release \in Startable
      /\ Definition(a) \in Definitions(attempts[a].release)
  BY <1>1, Resolved DEF AttemptTrue, Acquiring, Definition
<1>3. QED
  BY <1>1, <1>2, ProvidersOfScript DEF AttemptGrants

LEMMA EndedGranted ==
  ASSUME IInv, GrantInv, UNCHANGED preparations, NEW a \in AttemptCalls,
         attempts[a].step \in Acquiring, NEW step \in {"failed", "coordinates_invalid"},
         AttemptGoes(a, step)
  PROVE  AttemptsGranted'
<1> DEFINE new == [attempts[a] EXCEPT !.step = step]
<1>1. attempts' = [attempts EXCEPT ![a] = new]
  BY DEF AttemptGoes
<1>2. Attempt(attempts[a]) /\ AttemptTyped(attempts[a])
  BY UnderBinding
<1>3. /\ new.step = step /\ new.release = attempts[a].release /\ new.from = attempts[a].from
      /\ new.script = attempts[a].script /\ new.position = attempts[a].position
  BY <1>2 DEF Attempt
<1> HIDE DEF new
<1>4. AttemptTyped(new) /\ AttemptGrants(new)
  BY <1>2, <1>3 DEF AttemptTyped, AttemptGrants, AttemptSteps, Acquiring
<1>5. QED
  BY <1>1, <1>4, AttemptGranted DEF GrantInv

(* A call that goes on, with what it has acquired.                         *)
LEMMA AcquiredGranted ==
  ASSUME IInv, GrantInv, UNCHANGED preparations, NEW a \in AttemptCalls,
         attempts[a].step \in Acquiring,
         NEW new, attempts' = [attempts EXCEPT ![a] = new],
         new.step \in Acquiring \union {"dispatched"},
         new.release = attempts[a].release, new.script = attempts[a].script,
         new.definition = attempts[a].definition, new.from = attempts[a].from,
         InOrder(new), Held(new)
  PROVE  AttemptsGranted'
<1>1. /\ AttemptTyped(attempts[a]) /\ Len(new.definition.manifest.providers) \in 0 .. 8
  BY UnderBinding DEF Definition
<1>2. new.position \in 1 .. 9
  <2>1. new.position \in 1 .. Len(new.definition.manifest.providers) + 1
    BY DEF InOrder
  <2> DEFINE last == Len(new.definition.manifest.providers)
  <2>2. last \in 0 .. 8 /\ new.position \in 1 .. last + 1
    BY <1>1, <2>1
  <2> HIDE DEF last
  <2>3. QED
    BY <2>2
<1>3. AttemptTyped(new) /\ AttemptGrants(new)
  BY <1>1, <1>2 DEF AttemptTyped, AttemptGrants, AttemptSteps, Acquiring
<1>4. QED
  BY <1>3, AttemptGranted DEF GrantInv

LEMMA AttemptKeepsGrants ==
  ASSUME IInv, GrantInv, NEW a \in AttemptCalls, AttemptStep(a)
  PROVE  AttemptsGranted'
<1> DEFINE t == attempts[a]
           providers == t.definition.manifest.providers
           binding == preparations[t.from].binding
<1>0. UNCHANGED preparations
  BY AttemptKeeps
<1>1. t.step \in Acquiring =>
        /\ Attempt(t) /\ InOrder(t) /\ Held(t)
        /\ providers \in Seq(Requirements(t.definition)) /\ Len(providers) \in 0 .. 8
  BY UnderBinding DEF Definition
<1>2. ASSUME NEW c \in PrepareCalls, NEW script \in Scripts, Submit(a, c, script)
      PROVE  AttemptsGranted'
  <2> DEFINE call == [NoAttempt EXCEPT !.release = process, !.script = script, !.from = c]
             d == resolve(process, script)
             verdict == Verdict(d, script, preparations[c].binding)
             admitted == [call EXCEPT !.definition = d, !.step = verdict]
             refused == [call EXCEPT !.step = "refused"]
  <2>1. /\ process \in Startable
        /\ attempts' = [attempts EXCEPT ![a] =
                          IF ~Resolvable(process, script) THEN refused ELSE admitted]
    BY <1>2 DEF Submit, IInv, ProcessInv
  <2>2. verdict \in {"refused", "missing", "admitted"}
    BY DEF Verdict
  <2> HIDE DEF d, verdict
  <2>3. /\ refused.step = "refused" /\ refused.release = process /\ refused.script = script
        /\ refused.from = c /\ refused.position = 1
    BY DEF NoAttempt
  <2>4. /\ admitted.step = verdict /\ admitted.release = process /\ admitted.script = script
        /\ admitted.definition = d /\ admitted.from = c /\ admitted.position = 1
        /\ admitted.repositories = << >> /\ admitted.leases = {} /\ admitted.clients = {}
    BY DEF NoAttempt
  <2> HIDE DEF refused, admitted
  <2>5. AttemptTyped(refused) /\ AttemptGrants(refused)
    BY <2>1, <2>3 DEF AttemptTyped, AttemptGrants, AttemptSteps, Acquiring, Startable
  <2>6. ASSUME Resolvable(process, script) PROVE AttemptTyped(admitted) /\ AttemptGrants(admitted)
    <3>1. AttemptTyped(admitted)
      BY <2>1, <2>2, <2>4 DEF AttemptTyped, AttemptSteps, Startable
    <3>2. Len(d.manifest.providers) \in 0 .. 8
      BY <2>1, <2>6, Resolved, ProvidersOfScript DEF d
    <3>3. verdict = "admitted" => InOrder(admitted) /\ Held(admitted)
      BY <2>4, <3>2 DEF InOrder, Held
    <3>4. QED
      BY <2>2, <2>4, <3>1, <3>3 DEF AttemptGrants, Acquiring
  <2>7. QED
    BY <1>0, <2>1, <2>5, <2>6, AttemptGranted DEF GrantInv
<1>3. CASE validateRestoredCoordinates(a)
  <2>1. t.step = "admitted"
    BY <1>3 DEF validateRestoredCoordinates
  <2>2. CASE AttemptGoes(a, "coordinates_invalid")
    BY <1>0, <2>1, <2>2, EndedGranted DEF Acquiring
  <2>3. CASE AttemptGoes(a, Onward(a, 1))
    <3> DEFINE step == Onward(a, 1)
               new == [t EXCEPT !.step = step]
    <3>1. attempts' = [attempts EXCEPT ![a] = new]
      BY <2>3 DEF AttemptGoes
    <3>2. step = IF 1 > Len(providers) THEN "dispatched" ELSE "workspace"
      BY DEF Onward, Definition
    <3> HIDE DEF step
    <3>3. /\ new.step = step /\ new.release = t.release /\ new.script = t.script
          /\ new.definition = t.definition /\ new.from = t.from /\ new.position = t.position
          /\ new.repositories = t.repositories /\ new.leases = t.leases /\ new.clients = t.clients
      BY <1>1, <2>1 DEF Attempt, Acquiring
    <3> HIDE DEF new
    <3>4. InOrder(new)
      <4> DEFINE last == Len(providers)
      <4>1. /\ last \in 0 .. 8 /\ t.position = 1
            /\ step = IF 1 > last THEN "dispatched" ELSE "workspace"
        BY <1>1, <2>1, <3>2 DEF InOrder, Acquiring
      <4> HIDE DEF last
      <4>2. /\ 1 \in 1 .. last + 1
            /\ step = "workspace" => 1 <= last
            /\ step = "dispatched" => 1 = last + 1
            /\ step \in {"workspace", "dispatched"}
        BY <4>1
      <4>3. /\ t.repositories \in Seq(BoundRepositories(binding, t.definition))
            /\ Len(t.repositories) = 1 - 1
            /\ \A i \in DOMAIN t.repositories :
                 t.repositories[i] \in RepositoryAt(binding, providers[i])
        BY <1>1, <2>1, <4>1 DEF InOrder, Acquiring
      <4>4. QED
        BY <3>3, <4>1, <4>2, <4>3 DEF InOrder, last
    <3>5. Held(new)
      BY <1>1, <2>1, <3>3 DEF Held, Acquiring
    <3>6. QED
      BY <1>0, <2>1, <3>1, <3>2, <3>3, <3>4, <3>5, AcquiredGranted DEF Acquiring
  <2>4. QED
    BY <1>3, <2>2, <2>3 DEF validateRestoredCoordinates
\* The workspace, if any, is of the repository of the descriptor.
<1>4. CASE acquireWorkspace(a)
  <2>1. t.step = "workspace"
    BY <1>4 DEF acquireWorkspace
  <2>2. CASE AttemptGoes(a, "failed")
    BY <1>0, <2>1, <2>2, EndedGranted DEF Acquiring
  <2>3. ASSUME NEW repository \in RepositoryAt(binding, providers[t.position]),
               acquireWorkspaceOf(a, repository)
        PROVE  AttemptsGranted'
    <3> DEFINE all == Append(t.repositories, repository)
               new == [t EXCEPT !.step = "credentials", !.repositories = all]
    <3>1. attempts' = [attempts EXCEPT ![a] = new]
      BY <1>1, <2>1, <2>3 DEF acquireWorkspaceOf, Attempt, Acquiring
    <3>2. /\ t.position \in 1 .. Len(providers) /\ Len(t.repositories) = t.position - 1
          /\ t.repositories \in Seq(BoundRepositories(binding, t.definition))
          /\ \A i \in DOMAIN t.repositories : t.repositories[i] \in RepositoryAt(binding, providers[i])
      BY <1>1, <2>1 DEF InOrder, Acquiring
    <3>3. repository \in BoundRepositories(binding, t.definition)
      BY <1>1, <2>1, <2>3, <3>2 DEF BoundRepositories, Acquiring
    <3>4. /\ all \in Seq(BoundRepositories(binding, t.definition)) /\ Len(all) = t.position
          /\ \A i \in DOMAIN all : all[i] \in RepositoryAt(binding, providers[i])
      BY <1>1, <2>1, <2>3, <3>2, <3>3 DEF Acquiring
    <3> HIDE DEF all
    <3>5. /\ new.step = "credentials" /\ new.release = t.release /\ new.script = t.script
          /\ new.definition = t.definition /\ new.from = t.from /\ new.position = t.position
          /\ new.repositories = all /\ new.leases = t.leases /\ new.clients = t.clients
      BY <1>1, <2>1 DEF Attempt, Acquiring
    <3> HIDE DEF new
    <3>6. InOrder(new)
      BY <1>1, <2>1, <3>2, <3>4, <3>5 DEF InOrder, Acquiring
    <3>7. Held(new)
      BY <1>1, <2>1, <3>5 DEF Held, Acquiring
    <3>8. QED
      BY <1>0, <2>1, <3>1, <3>5, <3>6, <3>7, AcquiredGranted DEF Acquiring
  <2>4. QED
    BY <1>4, <2>2, <2>3
       DEF acquireWorkspace, RepositoryAt, BoundResource, Binding, Requirement, Definition
\* The lease is for what was bound, or the call has failed.
<1>5. ASSUME NEW slot \in Unleased(a), acquireCredential(a, slot) PROVE AttemptsGranted'
  <2> DEFINE bound == binding.credentials[slot]
             lease == [slot |-> slot, alias |-> bound.alias, provider |-> credentials[bound.alias]]
             all == t.leases \union {lease}
             step == IF lease.provider = bound.provider THEN t.step ELSE "failed"
             new == [t EXCEPT !.leases = all, !.step = step]
  <2>1. t.step = "credentials" /\ attempts' = [attempts EXCEPT ![a] = new]
    BY <1>1, <1>5 DEF acquireCredential, Attempt, Binding, Acquiring
  <2>2. slot \in CredentialSlots(t.definition)
    BY <1>5 DEF Unleased, Definition
  <2>3. /\ lease.slot = slot /\ lease.alias = bound.alias
        /\ step \in {"credentials", "failed"}
        /\ step = "credentials" => lease.provider = bound.provider
    BY <2>1
  <2> HIDE DEF step, lease
  <2>4. /\ new.step = step /\ new.release = t.release /\ new.script = t.script
        /\ new.definition = t.definition /\ new.from = t.from /\ new.position = t.position
        /\ new.repositories = t.repositories /\ new.leases = all /\ new.clients = t.clients
    BY <1>1, <2>1 DEF Attempt, Acquiring
  <2> HIDE DEF new
  <2>5. CASE step = "credentials"
    <3>1. InOrder(new) /\ Held(new)
      BY <1>1, <2>1, <2>2, <2>3, <2>4, <2>5 DEF InOrder, Held, Acquiring
    <3>2. QED
      BY <1>0, <2>1, <2>4, <2>5, <3>1, AcquiredGranted DEF Acquiring
  <2>6. CASE step = "failed"
    <3>1. AttemptTyped(t)
      BY <2>1, UnderBinding DEF Acquiring
    <3>2. AttemptTyped(new) /\ AttemptGrants(new)
      BY <2>4, <2>6, <3>1 DEF AttemptTyped, AttemptGrants, AttemptSteps, Acquiring
    <3>3. QED
      BY <1>0, <2>1, <3>2, AttemptGranted DEF GrantInv
  <2>7. QED
    BY <2>3, <2>5, <2>6
<1>6. CASE CredentialsAcquired(a)
  <2> DEFINE new == [t EXCEPT !.step = "clients"]
  <2>1. t.step = "credentials" /\ attempts' = [attempts EXCEPT ![a] = new]
    BY <1>6 DEF CredentialsAcquired, AttemptGoes
  <2>2. /\ new.step = "clients" /\ new.release = t.release /\ new.script = t.script
        /\ new.definition = t.definition /\ new.from = t.from /\ new.position = t.position
        /\ new.repositories = t.repositories /\ new.leases = t.leases /\ new.clients = t.clients
    BY <1>1, <2>1 DEF Attempt, Acquiring
  <2> HIDE DEF new
  <2>3. InOrder(new) /\ Held(new)
    BY <1>1, <2>1, <2>2 DEF InOrder, Held, Acquiring
  <2>4. QED
    BY <1>0, <2>1, <2>2, <2>3, AcquiredGranted DEF Acquiring
\* The client is one that the provider creates for this script.
<1>7. CASE createResourceClients(a)
  <2>1. t.step = "clients"
    BY <1>7 DEF createResourceClients
  <2>2. CASE AttemptGoes(a, "failed")
    BY <1>0, <2>1, <2>2, EndedGranted DEF Acquiring
  <2>3. CASE ~AttemptGoes(a, "failed")
    <3> DEFINE q == providers[t.position]
               attached == [slot |-> q.resource, name |-> clientName(q.contract),
                            client |-> CreatedClient(a)]
               all == t.clients \union {attached}
               step == Onward(a, t.position + 1)
               new == [t EXCEPT !.step = step, !.position = t.position + 1, !.clients = all]
    <3>1. attempts' = [attempts EXCEPT ![a] = new] /\ CreatedClient(a) # NoClient
      BY <1>1, <1>7, <2>1, <2>3 DEF createResourceClients, Requirement, Definition, Attempt, Acquiring
    <3>2. t.position \in 1 .. Len(providers) /\ q \in Requirements(t.definition)
      BY <1>1, <2>1 DEF InOrder, Acquiring
    <3>3. CreatedClient(a) \in ClientsFor(t.definition, q)
      BY <3>1 DEF CreatedClient, createClient, ClientsFor, Requirement, Definition
    <3>4. step = IF t.position + 1 > Len(providers) THEN "dispatched" ELSE "workspace"
      BY DEF Onward, Definition
    <3>5. attached.slot = q.resource /\ attached.client = CreatedClient(a)
      OBVIOUS
    <3> HIDE DEF step, attached
    <3>6. /\ new.step = step /\ new.release = t.release /\ new.script = t.script
          /\ new.definition = t.definition /\ new.from = t.from /\ new.position = t.position + 1
          /\ new.repositories = t.repositories /\ new.leases = t.leases /\ new.clients = all
      BY <1>1, <2>1 DEF Attempt, Acquiring
    <3> HIDE DEF new, q
    <3>7. InOrder(new)
      BY <1>1, <2>1, <3>2, <3>4, <3>6 DEF InOrder, Acquiring
    <3>8. Held(new)
      BY <1>1, <2>1, <3>2, <3>3, <3>5, <3>6 DEF Held, Acquiring
    <3>9. QED
      BY <1>0, <2>1, <3>1, <3>4, <3>6, <3>7, <3>8, AcquiredGranted DEF Acquiring
  <2>4. QED
    BY <2>2, <2>3
<1>8. CASE AcquisitionFails(a)
  BY <1>0, <1>8, EndedGranted DEF AcquisitionFails, Acquiring
<1>9. QED
  BY <1>2, <1>3, <1>4, <1>5, <1>6, <1>7, <1>8 DEF AttemptStep
-----------------------------------------------------------------------------
(* The host, and processes that start and end, keep it.                    *)

(* What a reference has stood for is never forgotten.                      *)
LEMMA HostKeepsGrants ==
  ASSUME IInv, GrantInv, HostChanges
  PROVE  GrantInv'
<1>1. /\ UNCHANGED <<process, preparations, attempts>>
      /\ changes < MaxChanges /\ changes' = changes + 1
  BY DEF HostChanges
<1>2. /\ DOMAIN resources = DOMAIN Resources /\ DOMAIN answered = DOMAIN Resources
      /\ \A ref \in DOMAIN Resources :
           resources[ref] \in answered[ref] /\ answered[ref] \subseteq Answers
      /\ \A ref \in DOMAIN workspaces : workspaces[ref] \in Repositories \union {NoRef}
      /\ \A alias \in DOMAIN credentials : credentials[alias] \in Accounts \union {NoRef}
  BY DEF GrantInv, DataInv
<1>3. ASSUME NEW ref \in DOMAIN resources, NEW d \in Descriptors \union {NoRef},
             ChangeResource(ref, d)
      PROVE  /\ DOMAIN resources' = DOMAIN Resources /\ DOMAIN answered' = DOMAIN Resources
             /\ \A other \in DOMAIN Resources :
                  /\ resources'[other] \in answered'[other] /\ answered'[other] \subseteq Answers
                  /\ answered[other] \subseteq answered'[other]
             /\ UNCHANGED <<workspaces, credentials>>
  BY <1>2, <1>3 DEF ChangeResource, Answers
<1>4. ASSUME NEW ref \in DOMAIN workspaces, NEW repository \in Repositories \union {NoRef},
             ChangeWorkspace(ref, repository)
      PROVE  /\ UNCHANGED <<resources, credentials, answered>>
             /\ \A other \in DOMAIN workspaces' : workspaces'[other] \in Repositories \union {NoRef}
  BY <1>2, <1>4 DEF ChangeWorkspace
<1>5. ASSUME NEW alias \in DOMAIN credentials, NEW account \in Accounts \union {NoRef},
             ChangeCredential(alias, account)
      PROVE  /\ UNCHANGED <<resources, workspaces, answered>>
             /\ \A other \in DOMAIN credentials' : credentials'[other] \in Accounts \union {NoRef}
  BY <1>2, <1>5 DEF ChangeCredential
<1>6. /\ DOMAIN resources' = DOMAIN Resources /\ DOMAIN answered' = DOMAIN Resources
      /\ \A ref \in DOMAIN Resources :
           /\ resources'[ref] \in answered'[ref] /\ answered'[ref] \subseteq Answers
           /\ answered[ref] \subseteq answered'[ref]
      /\ \A ref \in DOMAIN workspaces' : workspaces'[ref] \in Repositories \union {NoRef}
      /\ \A alias \in DOMAIN credentials' : credentials'[alias] \in Accounts \union {NoRef}
  BY <1>2, <1>3, <1>4, <1>5 DEF HostChanges
<1>7. DataInv'
  <2>1. changes' \in 0 .. MaxChanges
    BY <1>1, HostAssumption DEF GrantInv, DataInv
  <2>2. QED
    BY <1>6, <2>1 DEF DataInv, Answers
<1>8. ASSUME NEW input \in BindingInputs, NEW slot \in DOMAIN input.resources
      PROVE  StoodFor(input, slot) \subseteq StoodFor(input, slot)'
  BY <1>6, HostAssumption DEF StoodFor
<1>9. PreparationsGranted'
  <2> SUFFICES ASSUME NEW c \in PrepareCalls
               PROVE  PreparationTyped(preparations[c])' /\ PreparationGrants(preparations[c])'
    BY DEF PreparationsGranted
  <2> DEFINE p == preparations[c]
  <2>1. PreparationTyped(p) /\ PreparationGrants(p) /\ p' = p
    BY <1>1 DEF GrantInv, PreparationsGranted
  <2> HIDE DEF p
  <2>2. PreparationTyped(p)'
    BY <2>1 DEF PreparationTyped
  <2>3. PreparationGrants(p)'
    BY <1>8, <2>1 DEF PreparationGrants, Preparing
  <2>4. QED
    BY <2>2, <2>3 DEF p
<1>10. AttemptsGranted'
  BY <1>1 DEF GrantInv, AttemptsGranted, AttemptTyped, AttemptGrants, InOrder, Held
<1>11. QED
  BY <1>7, <1>9, <1>10 DEF GrantInv

(* Calls under way are lost; what was returned or dispatched stays.        *)
LEMMA StopKeepsGrants ==
  ASSUME IInv, GrantInv, Stop
  PROVE  GrantInv'
<1>1. /\ UNCHANGED <<hostVars, answered, changes>>
      /\ \A c \in PrepareCalls : preparations'[c] =
           IF preparations[c].step \in Preparing
           THEN [NoPreparation EXCEPT !.step = "lost"] ELSE preparations[c]
      /\ \A a \in AttemptCalls : attempts'[a] =
           IF attempts[a].step \in Acquiring
           THEN [NoAttempt EXCEPT !.step = "lost"] ELSE attempts[a]
  BY DEF Stop, PreparationsLost, AttemptsLost, Preparing, Acquiring
<1>2. DataInv'
  BY <1>1 DEF GrantInv, DataInv, hostVars, Answers
<1>3. ASSUME NEW c \in PrepareCalls
      PROVE  PreparationTyped(preparations[c])' /\ PreparationGrants(preparations[c])'
  <2> DEFINE p == preparations[c]
             lost == [NoPreparation EXCEPT !.step = "lost"]
  <2>1. /\ PreparationTyped(p) /\ PreparationGrants(p)
        /\ p' = lost \/ p' = p
    BY <1>1 DEF GrantInv, PreparationsGranted
  <2>2. /\ lost.step = "lost" /\ lost.release = NoRelease /\ lost.input = NoRef
        /\ lost.binding = NoBinding
    BY DEF NoPreparation
  <2> HIDE DEF lost
  <2>3. PreparationTyped(lost) /\ PreparationGrants(lost)
    BY <2>2 DEF PreparationTyped, PreparationGrants, PreparationSteps, Preparing
  <2>4. \E u : p' = u /\ PreparationTyped(u) /\ PreparationGrants(u)
    BY <2>1, <2>3
  <2> HIDE DEF p
  <2>5. PreparationTyped(p)' /\ PreparationGrants(p)'
    BY <1>1, <2>4 DEF PreparationTyped, PreparationGrants, StoodFor
  <2>6. QED
    BY <2>5 DEF p
<1>4. \A c \in PrepareCalls : preparations[c].step = "returned" => preparations'[c] = preparations[c]
  BY <1>1 DEF Preparing
<1>5. ASSUME NEW a \in AttemptCalls
      PROVE  AttemptTyped(attempts[a])' /\ AttemptGrants(attempts[a])'
  <2> DEFINE t == attempts[a]
             lost == [NoAttempt EXCEPT !.step = "lost"]
  <2>1. AttemptTyped(t) /\ AttemptGrants(t) /\ AttemptTrue(t)
    BY DEF GrantInv, AttemptsGranted, IInv, AttemptsInv
  <2>2. CASE t.step \in Acquiring
    <3>1. /\ lost.step = "lost" /\ lost.release = NoRelease /\ lost.script = NoRef
          /\ lost.from = NoRef /\ lost.position = 1
      BY DEF NoAttempt
    <3>2. t' = lost
      BY <1>1, <2>2
    <3> HIDE DEF lost, t
    <3>3. AttemptTyped(t)' /\ AttemptGrants(t)'
      BY <3>1, <3>2 DEF AttemptTyped, AttemptGrants, AttemptSteps, Acquiring
    <3>4. QED
      BY <3>3 DEF t
  <2>3. CASE t.step \notin Acquiring
    <3>1. t' = t
      BY <1>1, <2>3
    <3>2. CASE t.step # "dispatched"
      BY <2>1, <2>3, <3>1, <3>2 DEF AttemptTyped, AttemptGrants
    <3>3. CASE t.step = "dispatched"
      <4>1. t.from \in PrepareCalls /\ preparations'[t.from] = preparations[t.from]
        BY <1>4, <2>1, <3>3 DEF AttemptTrue
      <4> HIDE DEF t
      <4>2. AttemptTyped(t)' /\ AttemptGrants(t)'
        BY <2>1, <3>1, <4>1 DEF AttemptTyped, AttemptGrants, InOrder, Held
      <4>3. QED
        BY <4>2 DEF t
    <3>4. QED
      BY <3>2, <3>3
  <2>4. QED
    BY <2>2, <2>3
<1>6. QED
  BY <1>2, <1>3, <1>5 DEF GrantInv, PreparationsGranted, AttemptsGranted

LEMMA GrantInductive == IInv /\ GrantInv /\ [Next]_vars => GrantInv'
<1> SUFFICES ASSUME IInv, GrantInv, [Next]_vars PROVE GrantInv'
  OBVIOUS
<1>1. CASE Start \/ UNCHANGED vars
  <2>1. UNCHANGED <<resources, workspaces, credentials, preparations, attempts, answered, changes>>
    BY <1>1 DEF Start, vars, hostVars
  <2>2. DataInv'
    BY <2>1 DEF GrantInv, DataInv, Answers
  <2>3. PreparationsGranted'
    BY <2>1 DEF GrantInv, PreparationsGranted, PreparationTyped, PreparationGrants, StoodFor
  <2>4. AttemptsGranted'
    BY <2>1 DEF GrantInv, AttemptsGranted, AttemptTyped, AttemptGrants, InOrder, Held
  <2>5. QED
    BY <2>2, <2>3, <2>4 DEF GrantInv
<1>2. ASSUME NEW c \in PrepareCalls, PreparationStep(c),
             UNCHANGED <<attempts, deployments, answered, changes, stops>>
      PROVE  GrantInv'
  <2>1. UNCHANGED hostVars
    BY <1>2 DEF PreparationStep, StartPreparation, InspectResource, InspectWorkspace,
                InspectCredential, ResourcesPrepared, FinishPreparation, InspectionFails
  <2>2. DataInv'
    BY <1>2, <2>1 DEF GrantInv, DataInv, hostVars, Answers
  <2>3. PreparationsGranted'
    BY <1>2, PreparationKeepsGrants
  <2>4. AttemptsGranted'
    BY <1>2, PreparationKeeps, AttemptsStayGranted DEF GrantInv
  <2>5. QED
    BY <2>2, <2>3, <2>4 DEF GrantInv
<1>3. ASSUME NEW a \in AttemptCalls, AttemptStep(a),
             UNCHANGED <<deployments, answered, changes, stops>>
      PROVE  GrantInv'
  <2>1. UNCHANGED <<hostVars, preparations>>
    BY <1>3 DEF AttemptStep, Submit, validateRestoredCoordinates, acquireWorkspace,
                acquireCredential, CredentialsAcquired, createResourceClients, AcquisitionFails
  <2>2. DataInv'
    BY <1>3, <2>1 DEF GrantInv, DataInv, hostVars, Answers
  <2>3. PreparationsGranted'
    BY <1>3, <2>1 DEF GrantInv, PreparationsGranted, PreparationTyped, PreparationGrants, StoodFor
  <2>4. AttemptsGranted'
    BY <1>3, AttemptKeepsGrants
  <2>5. QED
    BY <2>2, <2>3, <2>4 DEF GrantInv
<1>4. QED
  BY <1>1, <1>2, <1>3, HostKeepsGrants, StopKeepsGrants DEF Next

(* What a call has taken from the host, and the handler is given, is what  *)
(* the host said when the binding was prepared.                            *)
THEOREM Grants == Spec => []GrantInv
<1>1. Init => GrantInv
  <2> SUFFICES ASSUME Init PROVE GrantInv
    OBVIOUS
  <2>1. DataInv
    BY HostAssumption DEF Init, DataInv, Answers
  <2>2. PreparationsGranted
    BY DEF Init, PreparationsInit, NoPreparation, PreparationsGranted, PreparationTyped,
           PreparationGrants, PreparationSteps, Preparing
  <2>3. AttemptsGranted
    BY DEF Init, AttemptsInit, NoAttempt, AttemptsGranted, AttemptTyped, AttemptGrants,
           AttemptSteps, Acquiring
  <2>4. QED
    BY <2>1, <2>2, <2>3 DEF GrantInv
<1>2. QED
  BY <1>1, Invariant, GrantInductive, PTL DEF Spec

(* The program's state stays of the declared kinds: in particular, a       *)
(* binding is there exactly when a call has returned it.                   *)
THEOREM TypeCorrect == Spec => []TypeOK
<1>1. IInv /\ GrantInv => TypeOK
  <2> SUFFICES ASSUME IInv, GrantInv PROVE TypeOK
    OBVIOUS
  <2>1. process \in Releases \union {NoRelease} /\ stops \in 0 .. MaxStops
    BY DEF IInv, ProcessInv, Startable
  <2>2. DataInv
    BY DEF GrantInv
  <2>3. \A c \in PrepareCalls : PreparationTyped(preparations[c])
    BY DEF GrantInv, PreparationsGranted
  <2>4. \A a \in AttemptCalls : AttemptTyped(attempts[a])
    BY DEF GrantInv, AttemptsGranted
  <2>5. QED
    BY <2>1, <2>2, <2>3, <2>4 DEF TypeOK, DataInv, PreparationTyped, AttemptTyped
<1>2. QED
  BY <1>1, Invariant, Grants, PTL

-----------------------------------------------------------------------------
(* The scripts of the package, and the clients they are given.             *)

LEMMA PackageManifests ==
  ASSUME NEW m \in BuiltInManifests
  PROVE  m \in {approvalSubjectManifest, echoManifest, gitCommitManifest, gitPushManifest,
                gitStatusManifest, githubPullRequestUpsertManifest,
                githubPullRequestMarkReadyManifest, githubPullRequestReadinessManifest,
                githubPullRequestMergeManifest, githubReviewThreadRespondManifest,
                githubReviewThreadResolveManifest}
<1>1. PICK i \in DOMAIN builtInDefinitionInventory : m = builtInDefinitionInventory[i].manifest
  BY DEF BuiltInManifests, ToSet
<1>2. DOMAIN builtInDefinitionInventory = 1 .. 11
  BY DEF builtInDefinitionInventory
<1>3. \A manifest, build : PackageScript(manifest, build).manifest = manifest
  BY DEF PackageScript
<1>4. QED
  BY <1>1, <1>2, <1>3 DEF builtInDefinitionInventory

(* One slot, one provider on it: its access is the slot's.                 *)
LEMMA SlotOfPackageScript ==
  ASSUME NEW d, NEW access, NEW name, NEW contract,
         d.manifest.resources = OnRepository(access),
         d.manifest.providers = OfProvider(name, contract),
         NEW q \in Requirements(d)
  PROVE  q.contract = contract /\ Resource(d, q.resource).access = access
<1>1. q = [name |-> name, contract |-> contract, resource |-> "repository"]
  BY DEF Requirements, ToSet, OfProvider
<1>2. Named(OnRepository(access), "repository").access = access
  BY DEF Named, OnRepository
<1>3. QED
  BY <1>1, <1>2 DEF Resource

(* A client that a provider of the package creates for a script of the     *)
(* package carries out only operations that the script declares.           *)
LEMMA PackageClients ==
  ASSUME NEW d, d.manifest \in BuiltInManifests, NEW q \in Requirements(d),
         NEW client \in ClientsFor(d, q)
  PROVE  ClientOperations[client] \subseteq ToSet(d.manifest.operations)
<1> DEFINE m == d.manifest
\* A pure script has no provider.
<1>1. ASSUME m \in {approvalSubjectManifest, echoManifest} PROVE FALSE
  <2>1. m.providers = << >>
    BY <1>1 DEF approvalSubjectManifest, echoManifest, pureScriptManifestPolicy
  <2>2. QED
    BY <2>1 DEF Requirements, ToSet
<1>2. ASSUME NEW access, NEW operations, m.resources = OnRepository(access),
             m.providers = OfProvider("git", GitContract), m.operations = operations,
             ClientOperations[gitClient(access)] \subseteq ToSet(operations)
      PROVE  ClientOperations[client] \subseteq ToSet(m.operations)
  <2>1. q.contract = GitContract /\ Resource(d, q.resource).access = access
    BY <1>2, SlotOfPackageScript
  <2>2. client = gitClient(access)
    BY <2>1 DEF ClientsFor
  <2>3. QED
    BY <1>2, <2>2
<1>3. CASE m = gitCommitManifest
  <2>1. /\ m.resources = OnRepository("write") /\ m.providers = OfProvider("git", GitContract)
        /\ m.operations = <<"git.read", "git.write">>
    BY <1>3, SMT DEF gitCommitManifest, GitManifest
  <2>2. ClientOperations[gitClient("write")] \subseteq ToSet(<<"git.read", "git.write">>)
    BY DEF ClientOperations, gitClient, ToSet
  <2>3. QED
    BY <1>2, <2>1, <2>2
<1>4. CASE m = gitPushManifest
  <2>1. /\ m.resources = OnRepository("publish") /\ m.providers = OfProvider("git", GitContract)
        /\ m.operations = <<"git.read", "git.remote-write">>
    BY <1>4, SMT DEF gitPushManifest, GitManifest
  <2>2. ClientOperations[gitClient("publish")] \subseteq ToSet(<<"git.read", "git.remote-write">>)
    BY DEF ClientOperations, gitClient, ToSet
  <2>3. QED
    BY <1>2, <2>1, <2>2
<1>5. CASE m = gitStatusManifest
  <2>1. /\ m.resources = OnRepository("read") /\ m.providers = OfProvider("git", GitContract)
        /\ m.operations = <<"filesystem.read", "git.read">>
    BY <1>5, SMT DEF gitStatusManifest, GitManifest
  <2>2. ClientOperations[gitClient("read")] \subseteq ToSet(<<"filesystem.read", "git.read">>)
    BY DEF ClientOperations, gitClient, ToSet
  <2>3. QED
    BY <1>2, <2>1, <2>2
\* A GitHub client is the one of the script's only permission.
<1>6. ASSUME NEW access, NEW permission \in DOMAIN boundedClientFactories,
             m.resources = OnRepository(access), m.providers = OfProvider("github", GitHubContract),
             m.permissions = <<permission>>
      PROVE  client = boundedClientFactories[permission]
  <2>1. q.contract = GitHubContract
    BY <1>6, SlotOfPackageScript
  <2>2. ToSet(m.permissions) = {permission}
    BY <1>6 DEF ToSet
  <2>3. gitHubClient({permission}) = boundedClientFactories[permission]
    <3> DEFINE supported == {permission} \intersect DOMAIN boundedClientFactories
    <3>1. supported = {permission}
      OBVIOUS
    <3>2. (CHOOSE p \in {permission} : TRUE) = permission
      OBVIOUS
    <3> HIDE DEF supported
    <3>3. gitHubClient({permission}) =
            IF \E p \in supported : supported = {p}
            THEN boundedClientFactories[CHOOSE p \in supported : TRUE] ELSE NoClient
      BY DEF gitHubClient, supported
    <3>4. QED
      BY <3>1, <3>2, <3>3
  <2>4. GitHubContract # GitContract
    BY DEF GitHubContract, GitContract
  <2>5. QED
    BY <2>1, <2>2, <2>3, <2>4 DEF ClientsFor
<1>7. ASSUME NEW id, NEW permission, NEW wallClockMs, NEW maxAttempts, NEW backoffMs,
             permission \in DOMAIN boundedClientFactories,
             m = githubPublishManifestPolicyV1(id, permission, wallClockMs, maxAttempts, backoffMs)
      PROVE  ClientOperations[client] \subseteq ToSet(m.operations)
  <2>1. /\ m.resources = OnRepository("publish")
        /\ m.providers = OfProvider("github", GitHubContract)
        /\ m.permissions = <<permission>> /\ m.operations = <<"github.read", "github.write">>
    BY <1>7 DEF githubPublishManifestPolicyV1
  <2>2. client = boundedClientFactories[permission]
    BY <1>6, <1>7, <2>1
  <2>3. ToSet(m.operations) = {"github.read", "github.write"}
    BY <2>1 DEF ToSet
  <2>4. client \in {"upsert", "ready", "readiness", "merge", "respond", "resolve"}
    BY <1>7, <2>2 DEF boundedClientFactories
  <2>5. QED
    BY <2>3, <2>4 DEF ClientOperations
<1>8. CASE m \in {githubPullRequestUpsertManifest, githubPullRequestMarkReadyManifest,
                  githubPullRequestMergeManifest, githubReviewThreadRespondManifest,
                  githubReviewThreadResolveManifest}
  <2>1. \E id, wallClockMs, maxAttempts, backoffMs :
          \E permission \in DOMAIN boundedClientFactories :
            m = githubPublishManifestPolicyV1(id, permission, wallClockMs, maxAttempts, backoffMs)
    BY <1>8, SMT
       DEF githubPullRequestUpsertManifest, githubPullRequestMarkReadyManifest,
           githubPullRequestMergeManifest, githubReviewThreadRespondManifest,
           githubReviewThreadResolveManifest, boundedClientFactories
  <2>2. QED
    BY <1>7, <2>1
<1>9. CASE m = githubPullRequestReadinessManifest
  <2> DEFINE published == githubPublishManifestPolicyV1("script:github/pull-request/readiness",
                            "github.pull-request.readiness", 30000, 3, <<250, 1000>>)
  <2>1. m = [published EXCEPT !.impactClass = "read", !.resources = OnRepository("read"),
                              !.operations = <<"github.read">>, !.idempotency = "read-only"]
    BY <1>9, SMT DEF githubPullRequestReadinessManifest
  <2>2. /\ DOMAIN published = {"id", "version", "impactClass", "permissions", "resources",
                               "providers", "credentials", "operations", "timeout", "retry",
                               "idempotency"}
        /\ published.providers = OfProvider("github", GitHubContract)
        /\ published.permissions = <<"github.pull-request.readiness">>
    BY SMT DEF githubPublishManifestPolicyV1
  <2> HIDE DEF published
  <2>3. /\ m.resources = OnRepository("read") /\ m.operations = <<"github.read">>
        /\ m.providers = OfProvider("github", GitHubContract)
        /\ m.permissions = <<"github.pull-request.readiness">>
    BY <2>1, <2>2
  <2>4. client = boundedClientFactories["github.pull-request.readiness"]
    BY <1>6, <2>3 DEF boundedClientFactories
  <2>5. client = "readiness" /\ ToSet(m.operations) = {"github.read"}
    BY <2>3, <2>4 DEF boundedClientFactories, ToSet
  <2>6. QED
    BY <2>5 DEF ClientOperations
<1>10. QED
  BY <1>1, <1>3, <1>4, <1>5, <1>8, <1>9, PackageManifests

(* A handler holds only what the host granted when it was asked for the    *)
(* binding, and for what was bound.                                        *)
THEOREM HandlerGranted == Spec => []HandlerWithinGrant
<1>1. IInv /\ GrantInv => HandlerWithinGrant
  <2> SUFFICES ASSUME IInv, GrantInv, NEW a \in Dispatched
               PROVE  LET d == Definition(a)
                          input == preparations[attempts[a].from].input
                      IN /\ \A i \in DOMAIN d.manifest.providers :
                              LET slot == d.manifest.providers[i].resource
                                  granted == Binding(a).resources[slot].descriptor
                              IN /\ granted \in answered[input.resources[slot].resourceRef] \ {NoRef}
                                 /\ Granted(granted, d)
                                 /\ attempts[a].repositories[i] \in {NoRef, granted.repositoryId}
                                 /\ d.manifest \in BuiltInManifests =>
                                      \A c \in attempts[a].clients : c.slot = slot =>
                                        ClientOperations[c.client] \subseteq granted.grant.operations
                         /\ \A lease \in attempts[a].leases :
                              /\ lease.alias = input.credentials[lease.slot]
                              /\ lease.provider = Credential(d, lease.slot).provider
    BY DEF HandlerWithinGrant
  <2> DEFINE t == attempts[a]
             p == preparations[t.from]
             d == Definition(a)
             providers == d.manifest.providers
  <2>1. /\ a \in AttemptCalls /\ t.step = "dispatched"
        /\ InOrder(t) /\ Held(t) /\ t.from \in PrepareCalls
        /\ providers \in Seq(Requirements(d))
    BY UnderBinding DEF Dispatched
  <2>2. /\ p.step = "returned" /\ d = p.definition /\ d \in Definitions(p.release)
        /\ p.release \in Startable /\ Admissible(p.release, d, p.binding)
    BY <2>1, SameDefinition
  <2>3. PreparationGrants(p)
    BY <2>1 DEF GrantInv, PreparationsGranted
  <2>4. /\ requireExactResourceBindings(p.release, d, p.binding)
        /\ requireExactCredentialBindings(d, p.binding)
    BY <2>2 DEF Admissible, validateBinding
  <2>5. t.definition = d /\ Binding(a) = p.binding
    BY DEF Definition, Binding
  <2> HIDE DEF t, p, d
  <2>6. ASSUME NEW i \in DOMAIN providers
        PROVE  LET slot == providers[i].resource
                   granted == p.binding.resources[slot].descriptor
               IN /\ granted \in StoodFor(p.input, slot)
                  /\ Granted(granted, d)
                  /\ t.repositories[i] \in {NoRef, granted.repositoryId}
                  /\ d.manifest \in BuiltInManifests =>
                       \A c \in t.clients : c.slot = slot =>
                         ClientOperations[c.client] \subseteq granted.grant.operations
    <3> DEFINE slot == providers[i].resource
               granted == p.binding.resources[slot].descriptor
    <3>1. providers[i] \in Requirements(d) /\ slot \in ResourceSlots(d)
      BY <2>1, <2>2, ProvidersOfScript
    <3>2. granted \in StoodFor(p.input, slot)
      BY <2>2, <2>3, <3>1 DEF PreparationGrants
    <3>3. Granted(granted, d)
      BY <2>4, <3>1 DEF requireExactResourceBindings
    <3>4. t.repositories[i] \in {NoRef, granted.repositoryId}
      <4>1. /\ t.position = Len(providers) + 1 /\ Len(t.repositories) = t.position - 1
            /\ \A j \in DOMAIN t.repositories :
                 t.repositories[j] \in RepositoryAt(p.binding, providers[j])
            /\ t.repositories \in Seq(BoundRepositories(p.binding, d))
        BY <2>1, <2>5 DEF InOrder, p
      <4>2. i \in DOMAIN t.repositories
        BY <2>1, <4>1
      <4>3. QED
        BY <4>1, <4>2 DEF RepositoryAt
    <3>5. ASSUME d.manifest \in BuiltInManifests, NEW c \in t.clients, c.slot = slot
          PROVE  ClientOperations[c.client] \subseteq granted.grant.operations
      <4>1. ClientOperations[c.client] \subseteq ToSet(d.manifest.operations)
        BY <2>1, <2>5, <3>5, PackageClients DEF Held
      <4>2. QED
        BY <3>3, <4>1 DEF Granted
    <3>6. QED
      BY <3>2, <3>3, <3>4, <3>5
  <2>7. ASSUME NEW lease \in t.leases
        PROVE  /\ lease.alias = p.input.credentials[lease.slot]
               /\ lease.provider = Credential(d, lease.slot).provider
    <3>1. /\ lease.slot \in CredentialSlots(d)
          /\ lease.alias = p.binding.credentials[lease.slot].alias
          /\ lease.provider = p.binding.credentials[lease.slot].provider
      BY <2>1, <2>5, <2>7 DEF Held, p
    <3>2. QED
      BY <2>2, <2>3, <2>4, <3>1 DEF PreparationGrants, requireExactCredentialBindings
  <2>8. QED
    BY <2>5, <2>6, <2>7 DEF StoodFor, t, p, d
<1>2. QED
  BY <1>1, Invariant, Grants, PTL
=============================================================================

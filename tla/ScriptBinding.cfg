SPECIFICATION Spec
CONSTANTS
  Releases <- ReleaseNames
  DefinitionModules <- MCDefinitionModules
  ProviderModules <- MCProviderModules
  NoRelease = NoRelease
  NoRef = NoRef
  NoBinding = NoBinding
  PrepareCalls = {p1}
  AttemptCalls = {a1}
  BindingInputs <- MCBindingInputs
  Scripts <- MCScripts
  Descriptors <- MCDescriptors
  Repositories = {"app", "other"}
  Accounts = {"github", "gitlab"}
  Resources <- MCResources
  Workspaces <- MCWorkspaces
  Credentials <- MCCredentials
  MaxChanges = 1
  MaxStops = 1
INVARIANTS TypeOK DispatchedAsPrepared HandlerWithinGrant PreparedIsAdmitted ProvidersComplete
CHECK_DEADLOCK FALSE

-------------------------- MODULE MCScriptBinding --------------------------
(* An instance of ScriptBinding.  The host registers the package's scripts *)
(* and one of its own, which uses both package providers on one repository *)
(* and reads a second one.                                                 *)
EXTENDS ScriptBinding, MCReleases

Pin(manifest) == [id |-> manifest.id, version |-> manifest.version]
HostPin == Pin(HostManifest(Both))
Pinned == {HostPin, Pin(gitPushManifest), Pin(gitCommitManifest),
           Pin(githubPullRequestMergeManifest)}

Full == [permissions |-> {"git.push.publish", "git.commit.write", "github.pull-request.merge"},
         operations |-> {"git.read", "git.write", "git.remote-write",
                         "github.read", "github.write"}]
Less == [Full EXCEPT !.operations = {"git.read", "git.write"}]

Descriptor(repository, coordinates, grant) ==
  [kind |-> "repository", repositoryId |-> repository, providerCoordinates |-> coordinates,
   grant |-> grant]

App == Descriptor("app", [github |-> "owner/app"], Full)
OtherApp == Descriptor("other", [github |-> "owner/app"], Full)
AppLess == Descriptor("app", [github |-> "owner/app"], Less)
AppElsewhere == Descriptor("app", [github |-> "elsewhere"], Full)
Upstream == Descriptor("upstream", << >>, Full)

Described == {App, OtherApp, AppLess, AppElsewhere, Upstream}

Bound(resource, workspace) == [resourceRef |-> resource, workspaceRef |-> workspace]
OnApp(manifest, workspace, aliases) ==
  [script |-> Pin(manifest), resources |-> [repository |-> Bound("r-app", workspace)],
   credentials |-> aliases]

Asked ==
  {OnApp(gitPushManifest, "w-app", << >>), OnApp(gitPushManifest, NoRef, << >>),
   OnApp(gitCommitManifest, "w-app", << >>),
   OnApp(githubPullRequestMergeManifest, NoRef, [token |-> "bot"]),
   [script |-> HostPin,
    resources |-> [repository |-> Bound("r-app", "w-app"), upstream |-> Bound("r-up", NoRef)],
    credentials |-> [token |-> "bot"]]}

MCResources == [ref \in {"r-app", "r-up"} |-> IF ref = "r-app" THEN App ELSE Upstream]
MCWorkspaces == [ref \in {"w-app"} |-> "app"]
MCCredentials == [alias \in {"bot"} |-> "github"]

(* TLC evaluates these once, and what a configuration puts for a constant  *)
(* every time: so it puts their names.                                     *)
MCScripts == Pinned
MCDescriptors == Described
MCBindingInputs == Asked
MCDefinitionModules == Composed
MCProviderModules == Supplies
=============================================================================

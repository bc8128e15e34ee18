------------------------------ MODULE MCReleases ------------------------------
(* The releases of an instance of ScriptBinding: data alone, in a module   *)
(* without constants, whose definitions TLC evaluates once.                *)
EXTENDS PackageScripts

HostManifest(operations) ==
  [id |-> "script:host/release", version |-> 1, impactClass |-> "publish",
   permissions |-> <<"git.push.publish", "github.pull-request.merge">>,
   resources |-> OnRepository("publish")
                 \o <<[name |-> "upstream", kind |-> "repository", access |-> "read"]>>,
   providers |-> OfProvider("git", GitContract) \o OfProvider("github", GitHubContract),
   credentials |-> GitHubToken, operations |-> operations, timeout |-> 30000,
   retry |-> Transient(2, <<500>>), idempotency |-> "required"]

Both == <<"git.read", "git.remote-write", "github.read", "github.write">>

HostModule(operations) ==
  [id |-> "host", definitions |-> <<PackageScript(HostManifest(operations), "host-1")>>]

(* The package with another build of git push.                             *)
Rebuilt ==
  [builtInScripts EXCEPT !.definitions[4] = PackageScript(gitPushManifest, "rebuilt")]

(* first; a new build of a script; an operation dropped from a manifest; a *)
(* new build of a provider; scripts withdrawn.  No process comes up with a *)
(* definition registered by two modules, a provider missing, or an         *)
(* operation that no provider of its script has.                           *)
ReleaseNames == {"first", "build", "manifest", "provider", "withdrawn",
                 "twice", "incomplete", "unowned"}

Usual == <<builtInScripts, HostModule(Both)>>

Composed ==
  [first |-> Usual, provider |-> Usual, incomplete |-> Usual, unowned |-> Usual,
   build |-> <<Rebuilt, HostModule(Both)>>,
   manifest |-> <<builtInScripts, HostModule(SubSeq(Both, 1, 3))>>,
   withdrawn |-> <<systemScripts, githubScripts>>,
   twice |-> <<builtInScripts, gitScripts>>]

GitHub(digest) == FetchGitHubProvider(digest, {"owner/app"})

Supplies ==
  LET usual == <<NodeGitProvider("git-1"), GitHub("github-1")>>
  IN [first |-> usual, build |-> usual, manifest |-> usual, withdrawn |-> usual, twice |-> usual,
      provider |-> <<NodeGitProvider("git-2"), GitHub("github-1")>>,
      incomplete |-> <<NodeGitProvider("git-1")>>,
      unowned |-> <<NodeGitProvider("git-1"),
                    [GitHub("github-0") EXCEPT !.operations = <<"github.read">>]>>]
=============================================================================

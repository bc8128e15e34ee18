--------------------------- MODULE PackageScripts ---------------------------
(***************************************************************************)
(* The scripts and the providers the package itself registers: their       *)
(* manifests, the inventory of their definitions, the definition modules a *)
(* host may compose, and the public identities of both providers.          *)
(***************************************************************************)
EXTENDS ScriptManifest, BuiltInProviders

pureScriptManifestPolicy(id) ==
  [id |-> id, version |-> 1, impactClass |-> "pure", permissions |-> << >>, resources |-> << >>,
   providers |-> << >>, credentials |-> << >>, operations |-> << >>, timeout |-> 1000,
   retry |-> [mode |-> "never", maxAttempts |-> 1, backoffMs |-> << >>],
   idempotency |-> "read-only"]

(* The one resource slot, and what a provider of the package needs on it.  *)
OnRepository(access) == <<[name |-> "repository", kind |-> "repository", access |-> access]>>
OfProvider(name, contract) == <<[name |-> name, contract |-> contract, resource |-> "repository"]>>
GitHubToken == <<[name |-> "token", provider |-> "github", providerRequirement |-> "github"]>>
Transient(attempts, backoffMs) ==
  [mode |-> "transient", maxAttempts |-> attempts, backoffMs |-> backoffMs]

githubPublishManifestPolicyV1(id, permission, wallClockMs, maxAttempts, backoffMs) ==
  [id |-> id, version |-> 1, impactClass |-> "publish", permissions |-> <<permission>>,
   resources |-> OnRepository("publish"), providers |-> OfProvider("github", GitHubContract),
   credentials |-> GitHubToken, operations |-> <<"github.read", "github.write">>,
   timeout |-> wallClockMs, retry |-> Transient(maxAttempts, backoffMs),
   idempotency |-> "required"]

GitManifest(id, access, permission, operations, wallClockMs, retry, idempotency) ==
  [id |-> id, version |-> 1, impactClass |-> access, permissions |-> <<permission>>,
   resources |-> OnRepository(access), providers |-> OfProvider("git", GitContract),
   credentials |-> << >>, operations |-> operations, timeout |-> wallClockMs, retry |-> retry,
   idempotency |-> idempotency]

approvalSubjectManifest == pureScriptManifestPolicy("script:approval/subject")
echoManifest == pureScriptManifestPolicy("script:system/echo")

gitCommitManifest ==
  GitManifest("script:git/commit", "write", "git.commit.write", <<"git.read", "git.write">>,
              15000, Transient(2, <<250>>), "required")

gitPushManifest ==
  GitManifest("script:git/push", "publish", "git.push.publish", <<"git.read", "git.remote-write">>,
              30000, Transient(2, <<500>>), "required")

gitStatusManifest ==
  GitManifest("script:git/status", "read", "git.status.read", <<"filesystem.read", "git.read">>,
              5000, [mode |-> "never", maxAttempts |-> 1, backoffMs |-> << >>], "read-only")

githubPullRequestUpsertManifest ==
  githubPublishManifestPolicyV1("script:github/pull-request/upsert",
    "github.pull-request.upsert", 30000, 2, <<500>>)

githubPullRequestMarkReadyManifest ==
  githubPublishManifestPolicyV1("script:github/pull-request/mark-ready",
    "github.pull-request.mark-ready", 20000, 2, <<500>>)

githubPullRequestReadinessManifest ==
  [githubPublishManifestPolicyV1("script:github/pull-request/readiness",
     "github.pull-request.readiness", 30000, 3, <<250, 1000>>)
   EXCEPT !.impactClass = "read", !.resources = OnRepository("read"),
          !.operations = <<"github.read">>, !.idempotency = "read-only"]

githubPullRequestMergeManifest ==
  githubPublishManifestPolicyV1("script:github/pull-request/merge",
    "github.pull-request.merge", 60000, 3, <<250, 1000>>)

githubReviewThreadRespondManifest ==
  githubPublishManifestPolicyV1("script:github/review-threads/respond",
    "github.review-thread.respond", 60000, 3, <<250, 1000>>)

githubReviewThreadResolveManifest ==
  githubPublishManifestPolicyV1("script:github/review-threads/resolve",
    "github.review-thread.resolve", 60000, 3, <<250, 1000>>)

-----------------------------------------------------------------------------
(* A definition: the build digest that builtInImplementation() has for it  *)
(* is the identity of its handler's code.                                  *)
PackageScript(manifest, build) ==
  [manifest |-> manifest, schemas |-> <<manifest.id, "input", "result">>,
   implementation |-> [id |-> manifest.id, version |-> "1.0.0", buildDigest |-> build],
   handler |-> <<manifest.id, build>>]

builtInDefinitionInventory ==
  <<PackageScript(approvalSubjectManifest, "15ab9498"),
    PackageScript(echoManifest, "a7b529e7"),
    PackageScript(gitCommitManifest, "1888a6e8"),
    PackageScript(gitPushManifest, "40b9d10a"),
    PackageScript(gitStatusManifest, "fdbbb2b9"),
    PackageScript(githubPullRequestUpsertManifest, "e57330f3"),
    PackageScript(githubPullRequestMarkReadyManifest, "97f816f3"),
    PackageScript(githubPullRequestReadinessManifest, "33e0cc52"),
    PackageScript(githubReviewThreadRespondManifest, "7b93c5c7"),
    PackageScript(githubReviewThreadResolveManifest, "b6a16b11"),
    PackageScript(githubPullRequestMergeManifest, "44c1ea7e")>>

(* The modules of all of the inventory, and of one family of it.           *)
definitionModule(id, definitions) == [id |-> id, definitions |-> definitions]

builtInScripts == definitionModule("built-ins", builtInDefinitionInventory)
approvalScripts == definitionModule("approval", SubSeq(builtInDefinitionInventory, 1, 1))
systemScripts == definitionModule("system", SubSeq(builtInDefinitionInventory, 2, 2))
gitScripts == definitionModule("git", SubSeq(builtInDefinitionInventory, 3, 5))
githubScripts == definitionModule("github", SubSeq(builtInDefinitionInventory, 6, 11))

BuiltInManifests == {d.manifest : d \in ToSet(builtInDefinitionInventory)}

-----------------------------------------------------------------------------
(* The providers, by the digest of their build.                            *)

NodeGitProvider(digest) ==
  [id |-> "provider:git/node", contract |-> GitContract, implementationDigest |-> digest,
   provenance |-> "@revisium/revo-scripts@0.0.0",
   operations |-> <<"filesystem.read", "git.read", "git.write", "git.remote-write">>,
   workspace |-> "required", coordinateSchema |-> [present |-> FALSE, accepts |-> {}]]

FetchGitHubProvider(digest, coordinates) ==
  [id |-> "provider:github/fetch", contract |-> GitHubContract, implementationDigest |-> digest,
   provenance |-> "@revisium/revo-scripts@0.0.0",
   operations |-> <<"github.read", "github.write">>,
   workspace |-> "none", coordinateSchema |-> [present |-> TRUE, accepts |-> coordinates]]
=============================================================================

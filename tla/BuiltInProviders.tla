-------------------------- MODULE BuiltInProviders --------------------------
(***************************************************************************)
(* createResourceClients() of the two providers the package registers when *)
(* the host names none: which bounded client a script is given, and the    *)
(* operations such a client can carry out.                                 *)
(***************************************************************************)
EXTENDS Naturals

GitContract == "revo.provider.git/v1"
GitHubContract == "revo.provider.github/v1"

NoClient == "none"   \* the provider refuses to create one

(* The clients, by what their requests and commands do.                    *)
ClientOperations ==
  [status |-> {"filesystem.read", "git.read"},
   commit |-> {"git.read", "git.write"},
   push |-> {"git.read", "git.remote-write"},
   readiness |-> {"github.read"},
   upsert |-> {"github.read", "github.write"},
   ready |-> {"github.read", "github.write"},
   merge |-> {"github.read", "github.write"},
   respond |-> {"github.read", "github.write"},
   resolve |-> {"github.read", "github.write"}]

\* Mutant: every script that may change something is given the push client.
gitClientByMutation(access) == IF access = "read" THEN "status" ELSE "push"

(* NodeGitProvider: by the access of the resource slot.                    *)
gitClient(access) ==
  IF access = "publish" THEN "push" ELSE IF access = "write" THEN "commit" ELSE "status"

boundedClientFactories ==
  [c \in {"github.pull-request.upsert", "github.pull-request.mark-ready",
          "github.pull-request.readiness", "github.pull-request.merge",
          "github.review-thread.respond", "github.review-thread.resolve"} |->
     CASE c = "github.pull-request.upsert" -> "upsert"
       [] c = "github.pull-request.mark-ready" -> "ready"
       [] c = "github.pull-request.readiness" -> "readiness"
       [] c = "github.pull-request.merge" -> "merge"
       [] c = "github.review-thread.respond" -> "respond"
       [] OTHER -> "resolve"]

(* FetchGitHubProvider: by the one permission it supports, if it is one.   *)
gitHubClient(permissions) ==
  LET supported == permissions \intersect DOMAIN boundedClientFactories
  IN IF \E p \in supported : supported = {p}
     THEN boundedClientFactories[CHOOSE p \in supported : TRUE]
     ELSE NoClient

(* The git provider must have a workspace; the GitHub one its token lease  *)
(* and coordinates of its own slot that its schema accepts.                *)
createClient(contract, access, permissions, workspace, token, coordinates) ==
  IF contract = GitContract
  THEN IF workspace THEN gitClient(access) ELSE NoClient
  ELSE IF token /\ coordinates THEN gitHubClient(permissions) ELSE NoClient

(* The name under which the client is attached to its resource.            *)
clientName(contract) == IF contract = GitContract THEN "git" ELSE "github"
=============================================================================

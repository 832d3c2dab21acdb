-------------------------- MODULE EndpointRegistry --------------------------
(***************************************************************************)
(* The endpoints a server knows (endpoints/endpoint-registry.ts), as       *)
(* operators on a registry.  Nothing of it is persisted: a restarted       *)
(* server knows the endpoints it was built with and no other.              *)
(***************************************************************************)
CONSTANTS
    ServerEndpoints,  \* bound: the built-in endpoints somebody binds or stops
    ClientEndpoints,  \* ids a client may register
    ClientReviewers   \* those of them that declare canReview

\* The endpoints every server registers when it starts.
builtIn == {"mock-agent", "clipboard", "chatgpt-web", "codex-cli", "mock-inbound-agent",
            "claude-code-command", "codex-command", "workbuddy"}

\* canReview
reviewers == {"claude-code-command", "codex-command", "workbuddy"} \cup ClientReviewers

\* canExecute
executors == {"workbuddy"}

ASSUME EndpointAssumption ==
    /\ ServerEndpoints \subseteq builtIn
    /\ ClientEndpoints \cap builtIn = {}
    /\ ClientReviewers \subseteq ClientEndpoints

EndpointIds == ServerEndpoints \cup ClientEndpoints

EndpointStatus == {"absent", "online", "offline"}

initialRegistry ==
    [e \in EndpointIds |-> IF e \in ServerEndpoints THEN "online" ELSE "absent"]

\* POST /bridge/endpoints: a known id is refused; so is, by the route, one that
\* claims to execute (no client endpoint does).
canRegister(registry, e) == e \notin executors /\ registry[e] = "absent"

register(registry, e) == [registry EXCEPT ![e] = "online"]

\* Nothing leads back from offline: heartbeat and register refuse the endpoint.
canGoOffline(registry, e) == registry[e] = "online"

offline(registry, e) == [registry EXCEPT ![e] = "offline"]

\* validateProjectTeamPreset and validateRebindEndpoints: the planner must be
\* online and able to review, the executor online and able to execute.
validRoles(registry, roles) ==
    /\ registry[roles.planner] = "online" /\ roles.planner \in reviewers
    /\ registry[roles.executor] = "online" /\ roles.executor \in executors

Roles == [planner : EndpointIds, executor : EndpointIds]
=============================================================================

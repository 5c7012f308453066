---------------------------- MODULE ServiceAccess ----------------------------
(***************************************************************************)
(* The way of a request to its handler: the configuration the process was   *)
(* started with (src/src/config.py), the middleware that keeps remote       *)
(* clients out, authentication and the role of the endpoint's tier          *)
(* (src/src/security.py).  A bearer token is verified and then put to the   *)
(* auth service, where a principal's session may end or change its roles at *)
(* any time.                                                                *)
(*                                                                         *)
(* Requests share no state here, so one at a time is followed, with the      *)
(* session of its principal.  `had' is a history variable: the sessions that *)
(* principal had since the request arrived.                                  *)
(***************************************************************************)
EXTENDS FiniteSets

CONSTANTS
    Files, Envs,  \* contents of the configuration file and of the environment
    Requests,     \* what clients send
    Principals,
    Roles,
    Sessions,     \* the sessions the auth service may know a principal by
    Absent        \* not set

Modes == {"unison_jwt", "static_bearer", "disabled", "unknown"}
RoleList == {"read", "run", "admin"}
Lifecycle == {"admin_install", "admin_remove"}
Tier == {"open", "read", "run"} \cup Lifecycle

\* Flags and lists of the file; `token': a static bearer token is given.
File == [mode : Modes \cup {Absent}, token : BOOLEAN, noAuth : BOOLEAN, nonlocal : BOOLEAN,
         roles : [RoleList -> (SUBSET Roles) \cup {Absent}],
         services : [Lifecycle -> (SUBSET Principals) \cup {Absent}]]
Env == [mode : Modes \cup {Absent}, token : BOOLEAN, noAuth : {"true", "false", Absent},
        nonlocal : {"true", "false", Absent}, production : BOOLEAN]

\* `right': the static token, or a token that verifies; `roles': its claims.
Request == [client : {"loopback", "socket", "remote"}, tier : Tier,
            bearer : BOOLEAN, right : BOOLEAN, principal : Principals, roles : SUBSET Roles]
Session == [active : BOOLEAN, roles : SUBSET Roles]

VARIABLES
    file, env,  \* what the process was started with
    session,    \* the principal's session at the auth service
    pc,         \* "stopped", "idle", "local", "authn", "active", "authz", "handler"
    request,
    user,       \* name and roles the request goes by, and where they are from
    had

vars == <<file, env, session, pc, request, user, had>>

Nobody == [name |-> Absent, roles |-> {}, from |-> "none"]

TypeOK ==
    /\ file \in Files /\ env \in Envs
    /\ session \in Sessions \cup {Absent}
    /\ pc \in {"stopped", "idle", "local", "authn", "active", "authz", "handler"}
    /\ request \in Requests \cup {Absent}
    /\ user.roles \subseteq Roles /\ user.from \in {"none", "config", "token", "session"}
    /\ had \subseteq Sessions

Init ==
    /\ file \in Files /\ env \in Envs
    /\ session = Absent
    /\ pc = "stopped"
    /\ request = Absent
    /\ user = Nobody
    /\ had = {}

-----------------------------------------------------------------------------
(* ServiceConfig.load: the environment overrides the file, but can only turn  *)
(* unsafe_allow_no_auth on; an empty list is taken for one that is not set.   *)

Mode == IF env.mode # Absent THEN env.mode
        ELSE IF file.mode # Absent THEN file.mode ELSE "unison_jwt"
HasToken == env.token \/ file.token

UnsafeNoAuth == env.noAuth = "true" \/ file.noAuth

UnsafeNonlocal == IF env.nonlocal # Absent THEN env.nonlocal = "true" ELSE file.nonlocal

Given(list, default) == IF list = Absent \/ list = {} THEN default ELSE list

RolesFor(tier) ==
    IF tier \in Lifecycle THEN Given(file.roles["admin"], {"operator", "admin"})
    ELSE Given(file.roles[tier], {"service", "operator", "admin"})
ServicesFor(tier) ==
    IF tier \in Lifecycle THEN Given(file.services[tier], {"service-orchestrator"}) ELSE {}

-----------------------------------------------------------------------------

\* create_app refuses to be without authentication unless told that this is meant.
Start ==
    /\ pc = "stopped"
    /\ Mode = "disabled" => UnsafeNoAuth
    /\ pc' = "idle"
    /\ UNCHANGED <<file, env, session, request, user, had>>

Arrive(r, s) ==
    /\ pc = "idle"
    /\ pc' = "local"
    /\ request' = r
    /\ session' = s
    /\ had' = {s}
    /\ UNCHANGED <<file, env, user>>

Step(from, to) ==
    /\ pc = from /\ pc' = to
    /\ UNCHANGED <<file, env, session, request, had>>

\* A request is turned away or answered.
Finish(from) ==
    /\ pc = from /\ pc' = "idle"
    /\ session' = Absent /\ request' = Absent /\ user' = Nobody /\ had' = {}
    /\ UNCHANGED <<file, env>>

\* Only a request that is at the step, and then one way or the other.
OnlyIf(from, condition, step) == pc = from /\ IF condition THEN step ELSE Finish(from)

\* LocalOnlyMiddleware; a client on a UNIX socket has no address.
LocalOnly ==
    OnlyIf("local", UnsafeNonlocal \/ request.client # "remote",
           Step("local", IF request.tier = "open" THEN "handler" ELSE "authn") /\ UNCHANGED user)

GoesBy(from, to, name, roles, source) ==
    Step(from, to) /\ user' = [name |-> name, roles |-> roles, from |-> source]

Disabled ==
    /\ Mode = "disabled"
    /\ OnlyIf("authn", UnsafeNoAuth,
              GoesBy("authn", "authz", "unauthenticated", {"service"}, "config"))

\* Mutant of StaticBearer: without a configured token any bearer will do.
StaticBearer_Unconfigured ==
    /\ Mode = "static_bearer"
    /\ OnlyIf("authn", ~env.production /\ request.bearer /\ (HasToken => request.right),
              GoesBy("authn", "authz", "static-bearer", {"service"}, "config"))

\* _static_bearer_auth.
StaticBearer ==
    /\ Mode = "static_bearer"
    /\ OnlyIf("authn", ~env.production /\ request.bearer /\ HasToken /\ request.right,
              GoesBy("authn", "authz", "static-bearer", {"service"}, "config"))

\* verify_token.
VerifyToken ==
    /\ Mode = "unison_jwt"
    /\ OnlyIf("authn", request.bearer /\ request.right, Step("authn", "active") /\ UNCHANGED user)

UnknownMode == Mode = "unknown" /\ Finish("authn")

\* Mutant of AskAuthService: the claims of the token are good enough.
AskAuthService_TokenClaims ==
    /\ pc = "active"
    /\ \/ Finish("active")
       \/ /\ session.active
          /\ GoesBy("active", "authz", request.principal, request.roles, "session")

\* verify_token_with_auth_service: the session must be active, and the claims the
\* service answers with, if any, replace the token's.  A principal bound to another
\* audience is refused.
AskAuthService ==
    /\ pc = "active"
    /\ \/ Finish("active")
       \/ /\ session.active
          /\ \/ GoesBy("active", "authz", request.principal, session.roles, "session")
             \/ GoesBy("active", "authz", request.principal, request.roles, "token")

Permits(tier, name, roles) == roles \cap RolesFor(tier) # {} \/ name \in ServicesFor(tier)

\* The dependency of the tier.
Authorize ==
    OnlyIf("authz", Permits(request.tier, user.name, user.roles),
           Step("authz", "handler") /\ UNCHANGED user)

Serve == Finish("handler")

\* The auth service ends or changes a session.
ChangeSession(s) ==
    /\ session # Absent
    /\ session' = s
    /\ had' = had \cup {s}
    /\ UNCHANGED <<file, env, pc, request, user>>

Next ==
    \/ Start
    \/ \E r \in Requests, s \in Sessions : Arrive(r, s)
    \/ LocalOnly \/ Disabled \/ StaticBearer \/ VerifyToken \/ UnknownMode
    \/ AskAuthService \/ Authorize \/ Serve
    \/ \E s \in Sessions : ChangeSession(s)

Spec == Init /\ [][Next]_vars

-----------------------------------------------------------------------------

Protected == pc = "handler" /\ request.tier # "open"

\* Nothing that is not expressly configured opens the service: a protected handler
\* serves a request without a credential only when both the mode and the flag say
\* so, and any handler a remote client only when the flag does; the environment
\* has the last word on the latter (README.md, "Security defaults").
OpenOnlyOnRequest ==
    /\ Protected /\ ~(request.bearer /\ request.right) =>
          /\ "disabled" \in {file.mode, env.mode}
          /\ file.noAuth \/ env.noAuth = "true"
    /\ pc = "handler" /\ request.client = "remote" =>
          env.nonlocal = "true" \/ (env.nonlocal = Absent /\ file.nonlocal)

\* A verified token alone is not enough: while the request was under way its
\* principal had an active session, with the rights of the endpoint when the auth
\* service told them.
ServedWithCurrentRights ==
    Protected /\ user.from \in {"session", "token"} =>
        \E s \in had :
            /\ s.active
            /\ user.from = "session" => Permits(request.tier, request.principal, s.roles)

\* Whatever the mode, a principal that only has the role of a service installs and
\* removes nothing unless the file gives that role the right or a list names it
\* (config.example.yaml, authz).
LifecyclePrivileged ==
    Protected /\ request.tier \in Lifecycle /\ user.roles = {"service"} =>
        LET list == file.services[request.tier] IN
            \/ file.roles["admin"] # Absent /\ "service" \in file.roles["admin"]
            \/ list = Absent /\ user.name = "service-orchestrator"
            \/ list # Absent /\ (list = {} \/ user.name \in list)

\* Who is served in a protected handler has the rights for it.
ServedWithRights == ServedWithCurrentRights /\ LifecyclePrivileged
=============================================================================

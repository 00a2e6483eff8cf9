----------------------------- MODULE HTTPLayer -----------------------------
(***************************************************************************)
(* What an HTTP server of this repository does with a request before and   *)
(* after its handler:                                                      *)
(*   pkg/http/router.go, pkg/http/middleware   routes and their wrapping   *)
(*   pkg/auth/http.go, pkg/auth/config.go      the check of the token      *)
(*   pkg/http/errors.go, pkg/errors            errors to status codes      *)
(* and the route tables of the two servers.  A request is identified by    *)
(* its path, its method and its Authorization header.                      *)
(***************************************************************************)
EXTENDS Naturals, Sequences

CONSTANT AuthType  \* ValidatorConfiguration.Type of the servers

ASSUME AuthTypeAssumption == AuthType \in {"noop", "jwtRSA"}

\* What the header holds: nothing, or a text that is not signed or has expired;
\* or a token that validates, with or without "Bearer " before it.
Credential == {"invalid", "valid"}
-----------------------------------------------------------------------------
(* RouterBuilder *)

NewRouterBuilder == [middlewares |-> <<>>, handlersAdded |-> FALSE]
SubGroup(b) == [b EXCEPT !.handlersAdded = FALSE]

\* It panics once the group has handlers: there is no value for that case.
With(b, ms) == CASE ~b.handlersAdded -> [b EXCEPT !.middlewares = @ \o ms]
HandleJSONFunc(b) == [b EXCEPT !.handlersAdded = TRUE]

\* Each middleware is put around the ones before it: outermost first, the
\* chain a request runs through is the list reversed.
Wrap(b) == LET ms == b.middlewares
           IN  [i \in 1 .. Len(ms) |-> ms[Len(ms) + 1 - i]]

Route(b, method) == [method |-> method, chain |-> Wrap(b)]

RawRouter == NewRouterBuilder
InstrumentedRouter == With(SubGroup(RawRouter), <<"metrics", "logger">>)

\* Seeded fault: the routes stay in the instrumented group.
FaultAuthenticatedRouter == SubGroup(HandleJSONFunc(InstrumentedRouter))

AuthenticatedRouter == With(SubGroup(HandleJSONFunc(InstrumentedRouter)), <<"auth">>)

EventServerRoutes ==
  [path \in {"/metrics", "/health", "/send-message"} |->
     CASE path = "/metrics"      -> Route(RawRouter, "GET")
       [] path = "/health"       -> Route(InstrumentedRouter, "GET")
       [] path = "/send-message" -> Route(AuthenticatedRouter, "POST")]

\* /send-message of the gateway is given no method: it takes any.
GatewayRoutes ==
  [path \in {"/metrics", "/health", "/register", "/login", "/heartbeat",
             "/active-users", "/select-server", "/send-message"} |->
     CASE path = "/metrics"      -> Route(RawRouter, "GET")
       [] path = "/health"       -> Route(InstrumentedRouter, "GET")
       [] path \in {"/register", "/login"}              -> Route(InstrumentedRouter, "POST")
       [] path = "/heartbeat"                           -> Route(AuthenticatedRouter, "POST")
       [] path \in {"/active-users", "/select-server"}  -> Route(AuthenticatedRouter, "GET")
       [] path = "/send-message" -> Route(AuthenticatedRouter, "any")]
-----------------------------------------------------------------------------
(* Middlewares and responses *)

\* HTTPNoopMiddleware lets everything pass, HTTPTokenAuthorizationMiddleware a
\* token that validates.
Admits(middleware, cred) ==
  middleware = "auth" => AuthType = "noop" \/ cred = "valid"

Admitted(route, cred) == \A i \in DOMAIN route.chain : Admits(route.chain[i], cred)

\* RequestLogger writes its line when what it wraps has returned: it has to be
\* reached for that.
Logs(route, cred) ==
  \E i \in DOMAIN route.chain : /\ route.chain[i] = "logger"
                                /\ \A j \in 1 .. i - 1 : Admits(route.chain[j], cred)

\* A GenericErr in the chain of an error gives it a type.
ErrorType == {"none", "bad_request", "unauthorized", "internal"}

\* Seeded fault: the code is the one pkg/grpc/error.go has for the type.
FaultGRPCCode ==
  [errorType \in ErrorType |-> CASE errorType = "bad_request"  -> 3
                                [] errorType = "unauthorized" -> 16
                                [] OTHER -> 13]

\* An error with a type in its chain has that type's code, any other is 500.
DetermineHTTPError ==
  [errorType \in ErrorType |-> CASE errorType = "bad_request"  -> 400
                                [] errorType = "unauthorized" -> 401
                                [] OTHER -> 500]

\* What the mux and the middlewares answer; 0 if the handler is called.
AnswerBefore(routes, path, method, cred) ==
  CASE path \notin DOMAIN routes -> 404
    [] path \in DOMAIN routes /\ routes[path].method \notin {"any", method} -> 405
    [] OTHER -> IF Admitted(routes[path], cred) THEN 0
              ELSE DetermineHTTPError["unauthorized"]
=============================================================================

---------------------------- MODULE GatewayStart ----------------------------
(***************************************************************************)
(* One run of the gateway process under WaitForInterrupt:                  *)
(*   gateway/services.go:33-110  StartServices                             *)
(*   gateway/server.go:38-93     Start                                     *)
(*   pkg/io/lifecycle.go         the loops over starters and closers       *)
(* StartServices builds the parts one after the other, collecting what to  *)
(* start and what to close; then it starts them; Start serves HTTP until   *)
(* it is told to stop or Serve fails, and its deferred call closes them.   *)
(***************************************************************************)
EXTENDS Launch, Naturals, Sequences, FiniteSets

CONSTANT Request  \* HTTP requests in flight at the same time

\* The parts that hold a connection or a goroutine, in the order they are
\* built; which of them are appended to closers and to starters.
Build == <<"memStore", "usersDB", "etcdClient", "registry", "pool">>
Part == {Build[i] : i \in DOMAIN Build}
ToClose == {"memStore", "usersDB", "registry", "pool"}
ToStart == {"usersDB", "registry"}

VARIABLES
  stage,      \* where Start is
  built,     \* parts built so far
  started,   \* parts started so far
  closers,   \* pkgio.Closers: what is still to be closed, in order
  closes,    \* how often each part has been closed
  http,      \* the HTTP server
  handlers,  \* requests whose handlers are running
  outcome     \* what Start returns

servicesVars == <<built, started, closers, closes>>
httpVars == <<http, handlers>>
gatewayVars == <<stage, servicesVars, httpVars, outcome, launchVars>>

GatewayTypeOK ==
  /\ stage \in {"off", "build", "start", "abort", "bind", "serve", "shutdown", "close", "returned"}
  /\ built \in SUBSET Part
  /\ started \in SUBSET ToStart
  /\ closers \in Seq(ToClose)
  /\ closes \in [Part -> 0 .. 2]
  /\ http \in {"off", "serving", "failed", "shut"}
  /\ handlers \in SUBSET Request
  /\ outcome \in {"none", "nil", "init", "serve", "shutdown"}
  /\ LaunchTypeOK

GatewayInit ==
  /\ stage = "off"
  /\ built = {}
  /\ started = {}
  /\ closers = <<>>
  /\ closes = [r \in Part |-> 0]
  /\ http = "off"
  /\ handlers = {}
  /\ outcome = "none"
  /\ LaunchInit
-----------------------------------------------------------------------------
(* StartServices *)

\* cmd/gateway/main.go comes to Start.
GatewayMain ==
  /\ LoggerBuilt
  /\ config \in GatewayConfiguration
  /\ stage' = "build"
  /\ UNCHANGED <<servicesVars, httpVars, outcome>>

NextPart == Build[Cardinality(built) + 1]

\* validateAndSetDefaults, of the users' database, sets its defaults in a copy
\* of the configuration: without dbType there is no dialect.
Buildable(r) == r = "usersDB" => config.auth # "other" /\ config.dbType = "mysql"

\* The etcd client is built, but not appended to closers (lines 81-86).
BuildPart ==
  /\ Running
  /\ stage = "build"
  /\ built # Part
  /\ Buildable(NextPart)
  /\ built' = built \cup {NextPart}
  /\ closers' = IF NextPart \in ToClose THEN Append(closers, NextPart) ELSE closers
  /\ UNCHANGED <<stage, started, closes, httpVars, outcome, launchVars>>

\* A Build fails, or the middleware or the token issuer between the first two.
\* The last two parts are made by constructors that cannot fail.
BuildFails ==
  /\ Running
  /\ stage = "build"
  /\ Cardinality(built) < 3
  /\ stage' = "abort"
  /\ UNCHANGED <<servicesVars, httpVars, outcome, launchVars>>

StartersBegin ==
  /\ Running
  /\ stage = "build"
  /\ built = Part
  /\ stage' = "start"
  /\ UNCHANGED <<servicesVars, httpVars, outcome, launchVars>>

\* Starters.Start: the users' database is migrated before the registry starts.
StartPart(r) ==
  /\ Running
  /\ stage = "start"
  /\ r \in ToStart \ started
  /\ r = "registry" => "usersDB" \in started
  /\ started' = started \cup {r}
  /\ UNCHANGED <<stage, built, closers, closes, httpVars, outcome, launchVars>>

\* The first that fails ends the loop, and the deferred call closes everything.
StartPartFails ==
  /\ Running
  /\ stage = "start"
  /\ started # ToStart
  /\ stage' = "abort"
  /\ UNCHANGED <<servicesVars, httpVars, outcome, launchVars>>

ServicesReady ==
  /\ Running
  /\ stage = "start"
  /\ started = ToStart
  /\ stage' = "bind"
  /\ UNCHANGED <<servicesVars, httpVars, outcome, launchVars>>
-----------------------------------------------------------------------------
(* Start *)

\* The routes or the listener fail.
BindFails ==
  /\ Running
  /\ stage = "bind"
  /\ stage' = "close"
  /\ outcome' = "init"
  /\ UNCHANGED <<servicesVars, httpVars, launchVars>>

Serve ==
  /\ Running
  /\ stage = "bind"
  /\ stage' = "serve"
  /\ http' = "serving"
  /\ UNCHANGED <<servicesVars, handlers, outcome, launchVars>>

\* Serve returns an error into srvErrCh; the handlers, and the connections that
\* are open, go on.
HTTPServeFails ==
  /\ Running
  /\ http = "serving"
  /\ http' = "failed"
  /\ UNCHANGED <<stage, servicesVars, handlers, outcome, launchVars>>

RequestBegins(q) ==
  /\ Running
  /\ http \in {"serving", "failed"}
  /\ q \notin handlers
  /\ handlers' = handlers \cup {q}
  /\ UNCHANGED <<stage, servicesVars, http, outcome, launchVars>>

RequestEnds(q) ==
  /\ Running
  /\ q \in handlers
  /\ handlers' = handlers \ {q}
  /\ UNCHANGED <<stage, servicesVars, http, outcome, launchVars>>

\* case <-p.CloseCh: Shutdown, which refuses new requests ...
CloseRequested ==
  /\ Running
  /\ stage = "serve"
  /\ requested
  /\ stage' = "shutdown"
  /\ http' = "shut"
  /\ UNCHANGED <<servicesVars, handlers, outcome, launchVars>>

\* Seeded fault: http.Server.Close in place of Shutdown.
FaultClosesConnections ==
  /\ Running
  /\ stage = "shutdown"
  /\ stage' = "close"
  /\ outcome' = "nil"
  /\ UNCHANGED <<servicesVars, httpVars, launchVars>>

\* ... and waits for those in flight, without a time limit.
ShutdownReturns ==
  /\ Running
  /\ stage = "shutdown"
  /\ handlers = {}
  /\ stage' = "close"
  /\ outcome' \in {"nil", "shutdown"}
  /\ UNCHANGED <<servicesVars, httpVars, launchVars>>

\* Seeded fault: the select waits for the close request only.
FaultServeErrorIgnored == http = "off" /\ stage = "serve" /\ UNCHANGED gatewayVars

\* case err = <-srvErrCh
ServeErrorReceived ==
  /\ Running
  /\ stage = "serve"
  /\ http = "failed"
  /\ stage' = "close"
  /\ outcome' = "serve"
  /\ UNCHANGED <<servicesVars, httpVars, launchVars>>
-----------------------------------------------------------------------------
(* Closers.Close, called by StartServices when it fails, by Start otherwise *)

\* Seeded fault: the first error ends the loop.
FaultStopsAtError ==
  /\ Running
  /\ stage \in {"abort", "close"}
  /\ closers # <<>>
  /\ closes' = [closes EXCEPT ![Head(closers)] = @ + 1]
  /\ closers' \in {Tail(closers), <<>>}
  /\ UNCHANGED <<stage, built, started, httpVars, outcome, launchVars>>

\* An error of one is collected; the loop goes on.
CloseNext ==
  /\ Running
  /\ stage \in {"abort", "close"}
  /\ closers # <<>>
  /\ closes' = [closes EXCEPT ![Head(closers)] = @ + 1]
  /\ closers' = Tail(closers)
  /\ UNCHANGED <<stage, built, started, httpVars, outcome, launchVars>>

GatewayReturns ==
  /\ Running
  /\ stage \in {"abort", "close"}
  /\ closers = <<>>
  /\ stage' = "returned"
  /\ outcome' = IF stage = "abort" THEN "init" ELSE outcome
  /\ UNCHANGED <<servicesVars, httpVars, launchVars>>
-----------------------------------------------------------------------------
ClosingStep == CloseNext \/ GatewayReturns

GatewayMainStep == \/ BuildPart
                   \/ BuildFails
                   \/ StartersBegin
                   \/ \E r \in ToStart : StartPart(r)
                   \/ StartPartFails
                   \/ ServicesReady
                   \/ BindFails
                   \/ Serve
                   \/ CloseRequested
                   \/ ShutdownReturns
                   \/ ServeErrorReceived
                   \/ ClosingStep

HTTPStep == HTTPServeFails \/ \E q \in Request : RequestBegins(q) \/ RequestEnds(q)

GatewayLaunchStep == /\ \/ Load(GatewayConfiguration)
                        \/ LoadFails
                        \/ Interrupt
                        \/ LaunchReturns(stage = "returned")
                        \/ LaunchTimesOut
                     /\ UNCHANGED <<stage, servicesVars, httpVars, outcome>>

GatewayNext == GatewayMain \/ GatewayMainStep \/ HTTPStep \/ GatewayLaunchStep

GatewaySafety == GatewayInit /\ [][GatewayNext]_gatewayVars

\* Start goes on where it does not wait for something else: the clients are
\* built or fail; handlers end (the calls they make to Redis and MySQL return),
\* and so do the closers; nobody need interrupt, and Starters.Start, which has
\* no deadline, need not return.
GatewayFairness == /\ WF_gatewayVars(BuildPart \/ BuildFails)
                   /\ WF_gatewayVars(CloseRequested \/ ServeErrorReceived)
                   /\ WF_gatewayVars(ShutdownReturns)
                   /\ WF_gatewayVars(ClosingStep)
                   /\ \A q \in Request : WF_gatewayVars(RequestEnds(q))

GatewaySpec == GatewaySafety /\ GatewayFairness
-----------------------------------------------------------------------------
\* However far StartServices or Start came, each part it collected is closed
\* exactly once when Start returns: not again by the other deferred call, and
\* not left out because another one failed to close.  (The etcd client is
\* never closed: see BuildPart.)
PartsClosedOnce ==
  /\ \A r \in Part : closes[r] <= 1
  /\ stage = "returned" => \A r \in built \cap ToClose : closes[r] = 1

\* After a close request no handler runs on parts that are being closed.
RequestsEndFirst ==
  http = "shut" /\ (\E r \in Part : closes[r] > 0) => handlers = {}

\* Start comes back from a close request, from a failure of Serve and from a
\* configuration it does not accept.  (The interrupted process may be gone
\* before, after 15 seconds.)
GatewayStops ==
  /\ stage = "serve" /\ (requested \/ http = "failed") ~> stage = "returned" \/ ~Running
  /\ stage = "build" /\ ~Buildable("usersDB") ~> stage = "returned" \/ ~Running
=============================================================================

# OCCA in TLA+

Specifications, model checks and proofs of OCCA, a chat application in Go: event
servers that hold the clients' streams, gateways in front of them, and the etcd,
Redis and MySQL they share. Paths below are relative to the repository's `src/`.

Contents: [The system](#1-the-system) · [Modules](#2-modules-and-how-they-follow-the-code)
· [Runs](#3-runs) · [Fairness](#4-fairness) · [Proofs](#5-proofs) ·
[Disagreements found](#6-disagreements-found) · [Not modelled](#7-what-is-not-modelled)
· [Plan](#8-plan)

## 1. The system

| Component | State it keeps | Operations | Talks to |
|---|---|---|---|
| Lease of an event server (`pkg/etcd/lease.go`) | `leaseOK`, `leaseID`, `leaseLostCh`, `closeCh`, the keep-alive channel | `Start`, `keepAlive` (goroutine), `Put`, `Close`, `LeaseLostC` | etcd: Grant, KeepAlive, Put, Revoke |
| Membership manager (`pkg/eventserver/membership/manager.go`) | `closeCh`, the lease client | `JoinCluster`, `refreshInfoLoop` (goroutine, every `refreshInfoDuration`), `LeaveCluster` | the lease client; called by `Start` |
| Server registry of a gateway (`.../membership/registry.go`) | `servers` under `mu`, `closeCh` | `Start` (Get, then Watch at the next revision), `watchForUpdates` (goroutine), `Resolve`, `SelectServerForConnection`, `Close` | etcd: Get, Watch |
| Connections (`eventserver/services/event_server.go`, `eventserver/grpc`) | `connections` by user under `mu`, a `waitCh` per stream | `ServeConnection`, `SendEvent`, `InitiateShutdown` | hearts, gRPC streams |
| Hearts (`pkg/eventserver/rtconn/heartbeat.go`) | `hearts` by user under `mu`, a goroutine and a `stopCh` each | `LaunchForUser`, `heartBeat`, `StopForUser`, `Close` | Redis: Set with a TTL of 20 s |
| Event-server process (`eventserver/server.go`, `services.go`) | `closeCh` with a buffer of 10, four goroutines that send to it | `Start` | all of the above |
| Launch (`pkg/launch/launch.go`, `cmd/*/main.go`) | `closeCh`, `errCh`, a 15 s timer | `WaitForInterrupt` | `Start` of either server |
| Gateway process (`gateway/server.go`, `services.go`, `pkg/io/lifecycle.go`) | starters, closers, the HTTP server | `StartServices`, `Start` | Redis, MySQL, etcd |
| Users of a gateway (`pkg/auth`, `gateway/services/active_users.go`, `pkg/memstore/redis.go`) | the `users` table, the collection `active_users` | `Register`, `Login`, token check, `HeartBeat`, `ActiveUsers` | MySQL, Redis |
| HTTP layer (`pkg/http`, `pkg/auth/http.go`, `pkg/errors`, the two `routes.go`) | none: a table of routes and the middlewares around each | `Configure`, `RouterBuilder`, the middlewares, errors to codes | the services |
| Relay (`gateway/services/event_relay.go`, `pkg/eventserver/client`, `rtconn/server_resolver.go`) | none | `Forward`, `ClientForServer`, `Resolve` | Redis, the registry, event servers over HTTP |
| Gateway client (`gateway/client/client.go`) | `lastRequestAt`, `stopCh` | `heartbeatLoop` (goroutine), `Close` | a gateway's `/heartbeat` |
| Configuration (`pkg/config`, `pkg/*/config.go`, `pkg/net`) | the addresses bound so far | `LoadConfig`, the `Build`s, `ListenAddr.Listener`, `String` | files, etcd, Redis, MySQL |

How they interact. An event server joins the cluster by putting its record under
`/event_servers/<id>` with a lease, and every gateway follows that prefix. A
client asks a gateway for a server (`/select-server`) and opens a gRPC stream to
it; the server keeps a record "user u is on server s" in Redis as long as its
heart beats. A message is to be forwarded by reading that record, then the
registry, then calling the server.

What is hard here: goroutines that outlive the call that started them; requests
to etcd and Redis that land after their caller has given up; leases that expire
while their holder still acts on them; two runs of one server ID (a restart
within the TTL, a redeploy); channels with several receivers; shutdowns with
parts that have no time limit; failures half way through a start. What makes each component correct:

- **lease and manager**: a record exists only with a lease of its server; a run
  that has left, or was told that its lease is lost, never comes back; a dead run
  is forgotten; a serving run is (again and again) listed;
- **registry**: it shows etcd's prefix at exactly one revision, moves forward one
  revision at a time, and catches up while its watch lives;
- **connections and hearts**: one heart per user and server, never one that cannot
  be stopped, none without a handler; a shutdown releases what it found; a record
  of a server that is gone disappears;
- **delivery**: an event goes to the recipient's current stream and to no other, past a
  check of its sender's token; the sender is not told that it was accepted when it was not, nor
  the reverse; the request ends;
- **processes**: no sender is left blocked, nil means a requested end, what was
  built is closed exactly once, an interrupted process exits, and so does one whose start fails;
- **heartbeats**: no record expires between two beats; closing ends the loop;
- **users**: a name means one user, a listing is right although it takes two
  commands, a silent user is forgotten.

`PROJECT.json` lists the hazards line by line, each with the properties that
would catch it going wrong, or why none does: of some, the code is not free, and the passing properties hold in
spite of them (section 6).

## 2. Modules and how they follow the code

| Module | Models | Composes |
|---|---|---|
| `Etcd` | leases and keys, as the code uses them (external) | |
| `LeasedClient` | `lease.go` | EXTENDS `Etcd` |
| `Membership` | `manager.go` | EXTENDS `LeasedClient` |
| `Directory` | abstract: what membership promises | implemented by `Membership` |
| `ServerRegistry` | `registry.go` | EXTENDS `Etcd` |
| `Replica` | abstract: a lagging copy of a versioned map | implemented by `ServerRegistry` |
| `Cluster` | event servers, etcd's history and gateways together | EXTENDS `Membership`, `ServerRegistry` |
| `EventServer` | connections, hearts, the Redis record, the order of a shutdown | |
| `HTTPLayer` | routes, middlewares, errors to status codes (operators, no state) | |
| `Delivery` | `SendEvent`, both `/send-message`, the relay | EXTENDS `EventServer`, `HTTPLayer` |
| `Messenger` | abstract: what a sender can rely on | implemented by `Delivery` |
| `Heartbeats` | the heartbeat loops of the client and of a heart, with time as a number | |
| `Launch` | `main` and `WaitForInterrupt` | |
| `ServerStart` | `StartServices` and `Start` of the event server | EXTENDS `Launch` |
| `GatewayStart` | `StartServices` and `Start` of the gateway, `lifecycle.go` | EXTENDS `Launch` |
| `Programs` | one run of either program | EXTENDS `ServerStart`, `GatewayStart` |
| `GatewayUsers` | accounts, tokens, heartbeats, the listing | |
| `MembershipProofs`, `RegistryProofs`, `EventServerProofs`, `DeliveryProofs`, `UsersProofs`, `HeartbeatsProofs` | theorems | EXTEND their module and `TLAPS` |
| `StartProofs` | theorems about both programs | EXTENDS `Programs` and `TLAPS` |
| `ClusterProofs` | theorems about the composition | EXTENDS `Cluster`, `MembershipProofs`, `RegistryProofs` |
| `MCMembership`, `MCServerRegistry`, `MCCluster`, `MCEventServer`, `MCDelivery` | constants of the runs | |

A step is what happens between two calls that can block: a network call, a channel
operation, an acquisition of a lock. A critical section without such a call is
one step. Where a goroutine stands is a field that names the point.

**`Etcd`, `LeasedClient`, `Membership`.** An element of `Proc` is one *run* of an
event-server process; a run has one lease in its life, so lease and record are named after
the run. `lc[p]` has the fields of the struct, with channels as "is closed".
`Start` is one step (`StartLease`, `StartLeaseFails` with every partial effect),
as `leaseOK` is published only at its end. `keepAlive` is: the channel closes
(`KeepAliveChCloses`, the library's choice, or after the lease is gone), the goroutine
sees that or `closeCh` (`KeepAliveEnds`), revokes (`RevokeSucceeds`,
`RevokeFails`: failing is also "the lease does not exist", and it may fail after
the revocation took effect) and only after a success closes `leaseLostCh`
(`NotifyLost`). `Close` waits for that channel or for its context. In `Membership`
a `Put` may be given up (`GiveUpPut`) and land later (`LatePutLands`) or
never (`LatePutLost`). `ProcessEnds` may happen at any step. `closeCh` of manager
and lease are closed back to back by `LeaveCluster` and are one flag here.

**`ServerRegistry`, `Cluster`.** `hist` is etcd's history of the prefix: the key written and
the map after it. `reg[g]` is a registry: `servers`, the next revision of
its watch, how far `Start` is. An event puts or deletes one key. A canceled watch
(`WatchCanceled`) logs and returns (`registry.go:121-124`); nothing updates the map after
it. In `Cluster` a step of `Membership` that changes a listing makes a
revision. A refresh that rewrites the same record makes one in etcd but not here; its event would only repair a
registry that had missed one, so leaving it out makes no property easier. (The mutant of `ServingIsFound`
leaves unknown servers out of the map whatever event brings them, a fault such events would not repair either;
a watch from a wrong revision is what `ReflectsRevision` catches.)

**`EventServer`.** An element of `Stream` is one `Connect` call; handler, `privConn`,
heart and releasing goroutine are named after it. The interceptor may turn it down
(`RefuseStream`). `Register` stores the connection
(overwriting another of the user), `LaunchForUser` starts a heart unless the user
has one, in which case the handler returns an error and its entry stays.
A heart sets the record, waits for its ticker or its `stopCh`; after a failed `Set`
it returns. A `Set` given up, or sent by a process that has died since, may still reach Redis, at any later time
(`beat` = "late", `LateSetLands`) or never. The record expires only while nothing keeps it (`Kept`).
`InitiateShutdown` starts a goroutine per stored connection, which sends to
`errCh` (buffered) and closes `waitCh`; it returns when all are received or closeCtx is over.

**`HTTPLayer`, `Delivery`, `Messenger`.** `HTTPLayer` translates `RouterBuilder` and the two
`Configure` functions: the chain of a route is the list of its group's middlewares reversed, as
`wrap` puts each around the ones before. `AnswerBefore` is what mux and middlewares answer, `Logs`
whether the request logger is reached. In `Delivery` an element of `Message` is one request.
`Post` comes to the handler of an event server; `Find` is the read under `RLock`, which
`InitiateShutdown` keeps out as long as it has not returned; `Send` hands the event to
the stream that was *found*, whatever has become of the entry; `SendFails` is a stream
that is over (also one whose client has gone: gRPC notices sooner or later). The sender may have given up or run into
`WriteTimeout` before it is answered (`Received`). `GatewayPost` ends in the panic of the nil relay.
`Forward`, `Resolve`, `ClientForServer` and `PostEvent` are the relay that `StartServices`
builds and nobody calls; any registry answer is possible in between. `replaced` is a
history variable: the streams whose connection had been overwritten when the request came. Two
`Send`s on one gRPC stream, which nothing in the code keeps apart, count as one after the other.

**`Heartbeats`.** Time is counted in units, `Second` of them to a second; it passes only while no goroutine can
run. A ticker has a period and a buffer of one; `since` is the difference of the two Unix times
`maybeHeartbeat` compares, so it changes at the boundary of a second (`subsec`). A behaviour is one run of one of the loops
(`kind`); a beat is sent, executed by Redis (`BeatLands`) and answered, in at most `Latency`. `Close` of the client is two
steps, and `AtSelect` is the read of the field that races the second one.

**`Launch`, `ServerStart`, `GatewayStart`, `Programs`.** `config` holds what decides how a start ends: `auth.type`, `serverID`
and `dbType`. `main` of `ServerStart` and `stage` of `GatewayStart` say where `Start` is; the event server's `StartServices` is
one step per dial and one for the rest (`BuildServices`), the listeners are bound one by one.
The four senders of `closeCh` have a program counter and a message each;
receiving is a step of whoever is in a select on the channel. What the rest of the
system may do to `Start` is in the flags `lost` (the lease) and `orphan` (a stream that nothing will
release, see `EventServer`). In `GatewayStart` parts are built one by one in the
order of `StartServices`; a `Build` can fail, so can a starter, the routes, the
listener and `Serve`; requests run in handlers next to `Start`. `Programs` is one run
of one of the two: which, is the choice of the configuration that is loaded.

**`GatewayUsers`.** Each request has a handler; MySQL and Redis commands are single
steps. A password stands for itself and its hash; a token for the principal it
was issued to; 24 hours and 30 seconds are steps that may come at any time. `span`
is a history variable: who was active at some time and at all times of a listing.

Deliberate abstractions: JSON, protobuf, logging and metrics are left out; a
`ServerInfo` is the run that wrote it; unmarshalling cannot fail as the same code
marshalled the data; `serverInfoFn` never fails and never returns an empty ID
(`server.go:127`, `Configuration.Validate`); names are compared
exactly, so a `Name` stands for all the spellings MySQL's collation takes for equal (its default ignores case).

The definitions named `Fault...` are no part of the specifications: each is a
plausible bug, put in the place of the definition next to it to see that the
property in question can be violated.

## 3. Runs

| Run | Checks | Instance | What it shows |
|---|---|---|---|
| `membership` | `MembershipTypeOK` `LeftStaysGone` `ListingIsLeased` `ImplementsDirectory` `RefreshHeals` | two runs of one server ID that may overlap | whatever expires, fails, is late or dies, listings are leased, left runs stay gone, the manager implements `Directory`, and the refresh loop repairs a record the other run has overwritten or taken with it |
| `loss_notified` | `LossIsNotified` | one run | **violated**, see 6 |
| `registry` | `RegistryTypeOK` `ReflectsRevision` `ImplementsReplica` `CatchesUp` | one gateway, three runs under two IDs, 5 revisions | no change between Get and Watch is lost or applied twice |
| `cluster_live` | `DeadForgotten` `LeaveQuiesces` `DeadUnlisted` `ServingIsFound` | one run, one gateway | the end and the presence of a server reach etcd and the gateway; leaving ends both goroutines |
| `cluster_history` | `AdvertisedWhileLeased` `OneListingInterval` | two runs of one ID that do not overlap | a joined run stays listed while its lease exists; each run is listed in one interval of the history, so no late request brings one back |
| `delivery` | `DeliveryTypeOK` `NoLeakedHeart` `HeartHasHandler` `HandedWasCurrent` `HandedIsAudited` `AskedServedRecipient` `ImplementsMessenger` `RequestsEnd` `StoredHandlersReleased` `GoneServerForgotten` | two streams of one user to one server, a second user, one message, tokens checked | hearts and handlers belong together; shutdown releases what it found; a gone server is forgotten in Redis; whatever happens to the connection between its lookup and its use, an event reaches only a current stream of its recipient, past the check of the token, the answer can be relied on, and the request ends |
| `shutdown_ends` | `ShutdownEnds` | the same | **violated**, see 6 |
| `served_is_resolved` | `ServedIsResolved` | a user who moves between two servers | **violated**, see 6 |
| `programs` | `ProgramsTypeOK` `NoSenderBlocked` `NilMeansRequested` `ServicesClosedOnce` `PartsClosedOnce` `RequestsEndFirst` `ProcessExits` `GatewayStops` | one process, every configuration, all failures, two requests | the goroutines around `closeCh`; what was collected is closed once, and not under requests; interrupts, failed starts and rejected configurations end the program |
| `start_heard` | `CloseRequestIsHeard` | the same | **violated**, see 6 |
| `gateway_users` | `UsersTypeOK` `OneUserPerName` `ListMatchesSpan` `SilentUserForgotten` | two requests at a time, two names, two passwords, two IDs | see the names |
| `heartbeats` | `HeartbeatsTypeOK` `RecordKept` `CloseEndsWaiting` | half seconds; calls of up to 9.5 s (client) and 9 s (heart), every jitter | no record expires between two beats that succeed; `Close` ends a loop that waits |

Bounds, and why they are enough. No module has a bounded counter except the
revisions of the `registry` run (`MaxRev` = 5: create, overwrite, delete and create
again a key, and one change of another key in between, at every point of Get and
Watch; the theorems hold for every `MaxRev`, and those of `ClusterProofs` for a history without a bound) and one late request per run
(`late`: a second one would write the same record under the same lease). Two runs of one ID are
the pair the epoch TODO (`manager.go:111`) is about: a third adds another
overwriter of the same kind. Two streams of one user give every order of
registering, launching and releasing one `hearts` entry; streams of
different users share nothing but the lock, and the safety of any number is proved. In
`gateway_users` two handlers are enough for two registrations of a name, a login
during a registration and a listing during a heartbeat, with expiries as steps of their own.
In `delivery` one message meets every step of two streams of its recipient: messages share nothing but the
lock for reading. Two streams and two users make the case of an entry that is overwritten between lookup and use, and of a record that is another
user's; that several servers compete for one record is `served_is_resolved`'s. In `heartbeats` the bounds of the latencies are the largest, in half seconds, for which the properties hold: with 10 s for the client, `RecordKept` is
violated, because a beat whose POST crosses the boundary of a second lets the next tick be skipped; with 9.5 s for the heart it is, too, at the
largest jitter. Half seconds are enough to cross a second's boundary.
`CHECK_DEADLOCK FALSE` is set (but not in `heartbeats`, where time goes on) because these processes do end, and because
etcd and Redis need not do anything any more when they have.

Every property has, in `PROJECT.json`, a mutant of the code's model that violates it
in the run that checks it.

## 4. Fairness

Only for what the code's scheduling forces:

- goroutines that can take a step do (Go's scheduler), timers and tickers fire,
  contexts with a time limit end;
- strong fairness for a ready case of a select that competes with a ticker that
  keeps firing (`RefreshStops`, `HeartStops`): Go chooses among ready cases at random;
- strong fairness for `RefreshPut` (`RefreshFairness`): a Put that is repeated for ever while the
  lease exists reaches etcd. `RefreshHeals` and `ServingIsFound` need it; they say nothing
  while etcd is out of reach for ever;
- a request given up is delivered or lost at last; a lease that nobody renews expires, an
  unkept Redis record expires;
- a watch that has an event to deliver delivers it, unless etcd cancels it;
- a handler goes on unless it waits for the lock or for a client that is there and does not read (`RequestsEnd` excepts that one);
- the builds of clients and the binding of addresses return, with or without an error, and so do handlers and closers of the gateway.

Not forced: failures, deaths, interrupts, clients, the loading of a configuration, `JoinCluster` in `ServerStart` (it has no deadline),
the success of anything that can fail. `RefreshSpec` has less fairness than `MembershipSpec`
so that the run with two runs stays small.

## 5. Proofs

All for every value of the constants under the named assumptions: a run has
an ID of `ServerID` and `NoProc` is no run (`EtcdAssumption`), and the like in
`RegistryAssumption`, `EventServerAssumption`, `NoRowAssumption`.

**`MembershipProofs`.**
- `MembershipTypes`: the type invariant.
- `ListingsAreLeased` by `EtcdInv` = every key's writer holds a lease and has that ID, and,
  without overlap, one ID has one lease. Inductive because a Put is accepted only with a lease that exists and
  the end of a lease deletes its keys. The second conjunct is what the next theorem needs.
- `JoinedStayListed`: `~AllowOverlap => []AdvertisedWhileLeased`. The record of a joined run
  with a lease could only be overwritten by another run with a lease under the ID,
  or deleted with another lease; there is none.
- `LeftServersStayGone` by `ReleasedInv`: the notification, the closed `leaseLostCh` and
  a nil from `Close` all come after a successful revocation, leases are never granted
  again, and a record needs a lease.
- `ManagerImplementsDirectory`: each step maps to a step of `Directory` or a stutter, from
  the two invariants.

**`RegistryProofs`.** `RegistryInv` = types, `ReflectsRevision`, and that each entry of the history differs
from the one before in the key it names at most, and that the last one is the prefix.
From it `RegistryTypes`, `RegistryShowsOneRevision`, `RegistryImplementsReplica`.

**`EventServerProofs`.** `HeartInv` = `NoLeakedHeart`, that a handler that has not come to its
wait has no heart, that a beating heart's handler waits or has been released, and
that releases happen only after serving. From it `NoHeartIsLeaked` and `HeartsHaveHandlers`;
`EventServerTypes` for the types.

**`DeliveryProofs`.** `DeliveryRunsEventServers`: a request changes nothing of the event servers, so the theorems above hold with
requests running. `DeliveryInv` adds to the types and the three properties what is known of a request at each of its steps (`MessageInv`), that a
connection is stored under its own user and server, that a record was written by a heart, and that a connection which was overwritten is
never stored again, since a handler registers once (`Past`). The order of the middlewares enters by `EventServerChain`, computed from the router's operators. From it
`DeliveryTypes`, `EventsReachTheirRecipient`, `EventsAreAudited`, `RelayAsksServersOfRecipient`, and `DeliveryImplementsMessenger`: each step
of a request is a step of `Messenger` or a stutter.

**`UsersProofs`.** `AccountsInv` = rows have different names and IDs, and everything held
about a user (tokens, records, requests under way, a login that has read its row) agrees with a
row; inductive because rows are only added. `SpanOK` = during a listing, who was active at all times is
still active, and has a key once KEYS has answered. It needs `AccountsInv`: storing one user's
heartbeat replaces by ID, and would take away another user's record if two names had one ID
(`StoreReplacesOwn`). Theorems `UsersTypes`, `OneUser`, `ListsMatchSpans`.

**`ClusterProofs`.** What is proved of the two parts holds of the whole: a step of `Cluster` is a step of `Membership` seen from the
event servers (`ClusterRunsMembership`), and seen from the gateways it is one of the changes of etcd that `RegistryProofs` reasons about,
a step of a registry, or a stutter (`ClusterStepOnRegistry`; that a `DropLease` changes the one key of its run is `EtcdInv`). So every theorem of
`MembershipProofs` carries over, and `RegistryInv` is invariant with the modelled servers as writers: `ClusterShowsOneRevision`,
`ClusterImplementsReplica`. `RunsAreListedOnce` (`~AllowOverlap => []OneListingInterval`) by `ListedInv` = a run that some revision
lists has been granted its lease, and while that lease exists the record is still its own. It is inductive by `OneLeasePerID`: only a
holder of a lease under the ID could overwrite the record. A run that is newly listed holds a lease, so if it was listed before, nothing
came in between. With `ClusterShowsOneRevision` this gives `GatewaysForgetForGood`: no event still to be delivered puts a run back
that was listed before the revision a gateway shows and is not in it.

**`StartProofs`.** About `ProgramsSpec`, one run of either program with any number of requests, by `ProgramsInv` = `ServerInv` /\ `GatewayInv`.
Of the event server: the goroutines that can send to `closeCh` run only once `Start` has launched them (`GoroutinesInv`), and each
message in it is one of a goroutine that is done (`RoomInv`: the length is at most the number of those, of which there are four, and one
that is about to send is not among them), hence `SendersFindRoom`; before a close request, and before `Start` tells the servers to
stop, no nil is in the channel or on its way (`NilInv`), hence `NilOnlyOnRequest`; the services are open between the end of
`StartServices` and the deferred call (`ServicesInv`), hence `ServicesAreClosed`. Of the gateway: the parts are built in their order
(`BuiltInv`); each part that is to be closed is either in the list of closers, once, or closed, and a part in the list is not closed yet
(`ClosersInv`), hence `PartsAreClosed`; no part is closed while `Start` serves or waits in
`Shutdown`, and no handler is left once `Shutdown` has returned (`HandlersInv`), hence `HandlersEndFirst`.

**`HeartbeatsProofs`.** `HeartbeatsTypes`, and `RecordsAreKept`: `LatencyBound => []RecordKept`, for every unit of time (`Second`) and every jitter.
`LatencyBound` is a condition of the theorem and not an assumption of the module: the code gives neither call a limit. It says that a
POST of the client takes less than its interval of 10 s and a SET of a heart at most the 9 s its record has left when a ticker with the largest jitter fires;
the latencies of the run are the largest that meet it, and one unit more violates the property (section 3). The invariant `KeptInv` bounds `ttl` from
below by the place of the loop. A heart has written its record in this period (`HeartInv`). A client has done so in this period or in the one
before (`FirstRound`, `SecondRound`, and the same at a tick): at the first tick after a success
`since`, which counts the boundaries of seconds, may still be one short of `Interval`, and the tick is skipped; at the second one it has
reached it (`SecondTick`), so no two ticks in a row are.

**Only model-checked.** Every liveness property: `RefreshHeals`, `CatchesUp`, the four of `cluster_live`, the three of `delivery`, `ProcessExits`,
`GatewayStops`, `SilentUserForgotten` and `CloseEndsWaiting`. They need fairness and ENABLED, which the proof system does not have. Every safety
property and both kinds of refinement (`ImplementsDirectory`, `ImplementsReplica`, `ImplementsMessenger`) that a run checks are stated by a theorem. That a
property is violated (section 6) is shown by TLC's counterexample.

## 6. Disagreements found

| Run | The code's own words | What happens |
|---|---|---|
| `loss_notified` | `lease.go:43`: "To get a notification when the lease is lost, wait on channel returned by LeaseLostC." | a lease that is really lost cannot be revoked any more, and the channel is closed only after a successful Revoke: the notification never comes, the server stays up outside the cluster, and `LeaveCluster` later waits for its context |
| `shutdown_ends` | `server.go:53`: Start "blocks until close request is received" | a stream accepted during the shutdown, or one whose entry was overwritten by a newer stream of the user, is never released, and `GracefulStop` waits for it without a limit |
| `served_is_resolved` | `README.md:13`: the gateway "resolves the event server where the recipient is connected to" | a heart ends for good with its first failed `Set` while its entry stays in `hearts`, so no other is launched |
| `start_heard` | `server.go:53` | a watch goroutine takes the message meant for `Start`, which blocks with nobody left to wake it; only the 15 s of `WaitForInterrupt` end the process |

Gaps the code itself marks, or that no document contradicts, met on the way: a canceled watch leaves the
registry stale for good (TODO at `registry.go:113`), which is why `CatchesUp` and
`DeadUnlisted` except it; a second stream of a user replaces the first one's connection and is then refused
(TODO at `event_server.go:64`); a `JoinCluster` that fails in its first Put leaves the lease
being renewed until the process exits; the event server's `StartServices` drops the closers it has collected
when a later part fails (`services.go:47`), and only the process's end closes them ("dropped" in `ServerStart`); nothing
notices the end of a client's stream (TODO at `event_server.go:71`), so the heart on a server a user has left goes on and
writes the record in turn with the new one; `services.go:81` of the gateway builds an etcd client nobody closes;
`RegistererImpl.Close` (`registerer.go:61`) calls itself (it has no caller). More of them, found with the modules of delivery and start:

- `gateway/server.go:51` does not pass the relay to the routes: `/send-message` of the gateway panics in a nil interface once the token and the
  body are accepted (`GatewayPost`). The relay itself, were it called, always fails: its client posts to `/send-event`
  (`pkg/eventserver/client/client.go:70`), a path the event server does not have, and without a token (`PostEvent`). Nothing is delivered through a gateway at this commit.
- Middlewares of a group are wrapped around those of its parent: the check of the token is the outermost, and a request it refuses is neither logged nor
  counted (`HandedIsAudited` speaks of those that pass). `writeJsonBody` adds the content type after `WriteHeader`, too late for it to be sent.
- `validateAndSetDefaults` (`pkg/db/config.go:31`) sets its defaults on a copy: without `dbType` the gateway does not start, in spite of `defaultDBType` (`Buildable`).
- An interrupt before `WaitForInterrupt` listens kills the process; `main` exits with 0 whatever went wrong.
- `Client.Close` of the gateway's client closes `stopCh` and then sets it to nil, unsynchronised: a loop that beats in between selects on nil and never ends (`pc = "leaked"`).
- One failed heartbeat can take a user off the list for up to a beat, as beats that cross a second's boundary are 20 s apart (`RecordKept` needs the last beat to have succeeded).
- `SendEvent` may call `Send` of one gRPC stream from two goroutines, which gRPC does not allow.

## 7. What is not modelled

- **Keys, tokens and files as texts**: parsing and signing are the libraries'; a token is valid or not.
- **Users without authentication**: `GatewayUsers` is a gateway with `jwtRSA`. With `noop` every request has one fixed principal
  (`auth/http.go:40-46`), which has no row in `users`; `HTTPLayer` has both chains.
- **The CLI** is a terminal interface; `Register`, `Login` and `ActiveUsers` of the client are commented out, so
  nothing starts its heartbeat loop at this commit (`Heartbeats` is what it would do). The relay is built but never called (`Forward`).
- **Time as numbers** outside of `Heartbeats`: intervals and TTLs appear as what may happen before what. `EventServer` takes from
  `RecordKept` that a beating heart's record does not expire (`Kept`), and with it that a `Set` takes at most 9 s.
- **The registry in `Delivery`**: `ClientForServer` may succeed or fail at any time; what the map can hold is `ServerRegistry`'s.
- **The random choice of `SelectServerForConnection`**, helpers that only convert, generated code, mocks, test
  fixtures. The **Archiver** of the README has no code.

## 8. Plan

All of these are done, in this order; what is left is below.

1. `Etcd`, `LeasedClient`, `Membership` with `Directory`, and their proofs.
2. `ServerRegistry` with `Replica`, its proofs, and `Cluster`.
3. `EventServer` and its proofs.
4. `Launch`, `ServerStart`, `GatewayStart`.
5. `GatewayUsers` and its proofs.
6. `HTTPLayer`, `Delivery` with `Messenger`.
7. Configurations, the event server's `StartServices` step by step, the listeners; `Programs`.
8. `Heartbeats`.
9. Proofs about `Delivery`, with the refinement of `Messenger`.
10. Proofs about `Programs`: `StartProofs`.
11. That the theorems of `Membership` and `ServerRegistry` carry over to `Cluster`, with `OneListingInterval`: `ClusterProofs`.
12. `RecordKept` for every unit of time: `HeartbeatsProofs`.

Left: the safety part of the liveness arguments as theorems (for each waiting state, that its owner's next step is possible, stated without
ENABLED: the guard of the step from the invariants), first for `StoredHandlersReleased` and `GatewayStops`.

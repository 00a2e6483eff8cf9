--------------------------- MODULE ServerRegistry ---------------------------
(***************************************************************************)
(* pkg/eventserver/membership/registry.go: the copy of /event_servers/     *)
(* that every gateway keeps.                                               *)
(*                                                                         *)
(* reg[g] is the ServerRegistry of gateway g.  Its servers map is written  *)
(* as a function on all IDs (NoProc: no entry); phase says how far Start   *)
(* and watchForUpdates are; next is the revision the watch delivers next.  *)
(* The unmarshalling branches are left out: every value under the prefix   *)
(* was marshalled from a ServerInfo by manager.go:106.                     *)
(***************************************************************************)
EXTENDS Etcd, Sequences

CONSTANTS
  Gateway,   \* gateway processes
  MaxRev     \* bound: revisions of the prefix in RegistrySpec's environment

ASSUME RegistryAssumption == MaxRev \in Nat \ {0}

VARIABLES
  hist,      \* etcd's revisions of the prefix: the key written, the map after
  reg

registryVars == <<hist, reg>>

Listing == [ServerID -> Proc \cup {NoProc}]
NoServers == [s \in ServerID |-> NoProc]

RegistryState == [phase   : {"new", "got", "watching", "canceled", "closed", "failed"},
                  servers : Listing,
                  next    : Nat,
                  closeCh : BOOLEAN]

RegistryTypeOK == /\ hist \in Seq([id : ServerID, kv : Listing])
                  /\ Len(hist) >= 1
                  /\ reg \in [Gateway -> RegistryState]

RegistryInit == /\ \E s \in ServerID : hist = <<[id |-> s, kv |-> NoServers]>>
                /\ reg = [g \in Gateway |-> [phase |-> "new", servers |-> NoServers,
                                             next |-> 0, closeCh |-> FALSE]]

\* A write to key s makes a revision.
Revision(s) == hist' = Append(hist, [id |-> s, kv |-> kv'])
Current == hist[Len(hist)].kv
-----------------------------------------------------------------------------
(* Start, lines 52-77; mu is held, so nobody reads servers before it is full *)

GetServers(g) ==
  /\ reg[g].phase = "new"
  /\ reg' = [reg EXCEPT ![g].phase = "got", ![g].servers = Current,
                        ![g].next = Len(hist) + 1]
  /\ UNCHANGED hist

\* The gateway does not come up; its closers close the registry.
GetServersFails(g) ==
  /\ reg[g].phase = "new"
  /\ reg' = [reg EXCEPT ![g].phase = "failed", ![g].closeCh = TRUE]
  /\ UNCHANGED hist

\* Seeded fault: no WithRev, the watch starts at the revision it finds.
FaultWatchFromNow(g) ==
  /\ reg[g].phase = "got"
  /\ reg' = [reg EXCEPT ![g].phase = "watching", ![g].next = Len(hist) + 1]
  /\ UNCHANGED hist

\* Watch WithRev(watchStartRevision), the revision after the one Get has read
\* whatever has been written in between; then watchForUpdates is launched.
StartWatch(g) ==
  /\ reg[g].phase = "got"
  /\ reg' = [reg EXCEPT ![g].phase = "watching"]
  /\ UNCHANGED hist
-----------------------------------------------------------------------------
(* watchForUpdates, lines 114-168, one event at a time: mu is taken and      *)
(* released for each event of a response                                    *)

\* Seeded faults: a deletion ends the loop; it is not applied; the key of a
\* record is stored in its place; a server that is not in the map is not added.
FaultPutStoresKey(g, s, p) == reg' = [reg EXCEPT ![g].servers[s] = s, ![g].next = @ + 1]
FaultDeleteEndsLoop(g, s) ==
  reg' = [reg EXCEPT ![g].servers[s] = NoProc, ![g].next = @ + 1, ![g].phase = "closed"]
FaultDeleteIgnored(g, s) == reg' = [reg EXCEPT ![g].next = @ + 1]

FaultPutUpdatesOnly(g, s, p) ==
  reg' = [reg EXCEPT ![g].servers[s] = IF @ = NoProc THEN NoProc ELSE p, ![g].next = @ + 1]

ApplyPut(g, s, p) == reg' = [reg EXCEPT ![g].servers[s] = p, ![g].next = @ + 1]

\* Deleting an absent server only logs a warning: it changes nothing either way.
ApplyDelete(g, s) == reg' = [reg EXCEPT ![g].servers[s] = NoProc, ![g].next = @ + 1]

WatchEvent(g) ==
  /\ reg[g].phase = "watching"
  /\ reg[g].next <= Len(hist)
  /\ LET e == hist[reg[g].next] IN
       \/ e.kv[e.id] # NoProc /\ ApplyPut(g, e.id, e.kv[e.id])
       \/ e.kv[e.id] = NoProc /\ ApplyDelete(g, e.id)
  /\ UNCHANGED hist

\* A canceled response or an error (a compacted revision, a lost leader, a
\* closed client): the goroutine returns, nothing starts another.
WatchCanceled(g) ==
  /\ reg[g].phase = "watching"
  /\ reg' = [reg EXCEPT ![g].phase = "canceled"]
  /\ UNCHANGED hist

WatchCloses(g) ==
  /\ reg[g].phase = "watching"
  /\ reg[g].closeCh
  /\ reg' = [reg EXCEPT ![g].phase = "closed"]
  /\ UNCHANGED hist

\* Close, lines 170-174: called once, by the closers of a gateway that is up.
CloseRegistry(g) ==
  /\ reg[g].phase \in {"watching", "canceled"}
  /\ ~reg[g].closeCh
  /\ reg' = [reg EXCEPT ![g].closeCh = TRUE]
  /\ UNCHANGED hist
-----------------------------------------------------------------------------
RegistryStep(g) == \/ GetServers(g)
                   \/ GetServersFails(g)
                   \/ StartWatch(g)
                   \/ WatchEvent(g)
                   \/ WatchCanceled(g)
                   \/ WatchCloses(g)
                   \/ CloseRegistry(g)

\* The registry on its own: any event servers write and lose leases.
EtcdChanges(p) ==
  \/ Grant(p) /\ UNCHANGED hist
  \/ PutWithLease(p) /\ Revision(IDOf[p])
  \/ kv[IDOf[p]] = p /\ DropLease(p) /\ Revision(IDOf[p])
  \/ kv[IDOf[p]] # p /\ p \in leases /\ DropLease(p) /\ UNCHANGED hist

RegistryNext ==
  \/ \E g \in Gateway : RegistryStep(g) /\ UNCHANGED etcdVars
  \/ \E p \in Proc : EtcdChanges(p) /\ Len(hist') <= MaxRev /\ UNCHANGED reg

WatchedInit == EtcdInit /\ RegistryInit

RegistrySafety == WatchedInit /\ [][RegistryNext]_<<etcdVars, registryVars>>

\* Start goes on after Get, and a watch that has an event to deliver delivers it.
RegistryFairness == \A g \in Gateway : /\ WF_registryVars(StartWatch(g))
                                       /\ WF_registryVars(WatchEvent(g))

RegistrySpec == RegistrySafety /\ RegistryFairness
-----------------------------------------------------------------------------
Loaded(g) == reg[g].phase \notin {"new", "failed"}

\* Between two events the map is exactly the prefix at one revision: nothing
\* written between Get and Watch is lost, nothing is applied twice.
ReflectsRevision ==
  \A g \in Gateway : Loaded(g) => /\ reg[g].next - 1 \in 1 .. Len(hist)
                                  /\ reg[g].servers = hist[reg[g].next - 1].kv

\* A registry whose watch etcd does not cancel, and that is not closed, shows
\* the current servers again and again.
CatchesUp ==
  \A g \in Gateway : []<>\/ reg[g].phase \in {"new", "failed", "canceled"}
                         \/ reg[g].closeCh
                         \/ reg[g].servers = Current

Copy == INSTANCE Replica WITH
          Reader   <- Gateway, Key <- ServerID, Value <- Proc, Absent <- NoProc,
          versions <- [i \in 1 .. Len(hist) |-> hist[i].kv],
          seen     <- [g \in Gateway |-> IF Loaded(g) THEN reg[g].next - 1 ELSE 0],
          copy     <- [g \in Gateway |-> reg[g].servers]

\* The registry, through Get, Watch and its end, is such a copy of etcd.
ImplementsReplica == Copy!ReplicaSpec
=============================================================================

----------------------------- MODULE Membership -----------------------------
(***************************************************************************)
(* pkg/eventserver/membership/manager.go on top of LeasedClient: each run  *)
(* p of an event server joins the cluster, rewrites its record every       *)
(* refreshInfoDuration, and leaves; or it dies at any point.               *)
(*                                                                         *)
(* serverInfoFn never fails and never returns an empty ID (server.go:127,  *)
(* Configuration.Validate), so the error of refreshInfo is that of Put.    *)
(* m.closeCh and the closeCh of the lease are closed back to back by       *)
(* LeaveCluster; lc[p].closeCh stands for both.                            *)
(***************************************************************************)
EXTENDS LeasedClient

CONSTANT
  AllowOverlap  \* FALSE: a run is launched only once every lease held under
                \* its server ID is gone; TRUE: at any time

ASSUME MembershipAssumption == AllowOverlap \in BOOLEAN

VARIABLES
  mgr,       \* the manager of each run: where JoinCluster and the refresh loop are
  late       \* runs with a Put whose caller has given up and that is still on
             \* its way to etcd (bound: one such request per run)

memberVars == <<mgr, late>>
membershipVars == <<etcdVars, lcVars, memberVars>>

ManagerState == [join    : {"idle", "put", "joined", "failed"},
                 refresh : {"none", "select", "put", "returned"}]

MembershipTypeOK == /\ EtcdTypeOK
                    /\ LCTypeOK
                    /\ mgr \in [Proc -> ManagerState]
                    /\ late \in SUBSET Proc

MembershipInit == /\ EtcdInit
                  /\ LCInit
                  /\ mgr = [p \in Proc |-> [join |-> "idle", refresh |-> "none"]]
                  /\ late = {}

SameID(p) == {q \in Proc : IDOf[q] = IDOf[p]}

MayLaunch(p) == /\ proc[p] = "down"
                /\ AllowOverlap \/ SameID(p) \cap leases = {}

\* A caller gives up on its Put: the request is lost, or reaches etcd later.
GiveUpPut(p) == late' = late \/ late' = late \cup {p}
-----------------------------------------------------------------------------
(* JoinCluster, lines 59-71 *)

JoinLease(p) ==
  /\ MayLaunch(p)
  /\ StartLease(p)
  /\ proc' = [proc EXCEPT ![p] = "up"]
  /\ mgr' = [mgr EXCEPT ![p].join = "put"]
  /\ UNCHANGED late

JoinLeaseFails(p) ==
  /\ MayLaunch(p)
  /\ StartLeaseFails(p)
  /\ proc' = [proc EXCEPT ![p] = "up"]
  /\ mgr' = [mgr EXCEPT ![p].join = "failed"]
  /\ UNCHANGED late

\* The first refreshInfo succeeds; the refresh loop is launched.
JoinPut(p) ==
  /\ Up(p)
  /\ mgr[p].join = "put"
  /\ PutWithLease(p)
  /\ mgr' = [mgr EXCEPT ![p].join = "joined", ![p].refresh = "select"]
  /\ UNCHANGED <<lcVars, late>>

\* Seeded fault: the error of the first refreshInfo is ignored.
FaultJoinIgnoresError(p) ==
  /\ Up(p)
  /\ mgr[p].join = "put"
  /\ mgr' = [mgr EXCEPT ![p].join = "joined", ![p].refresh = "select"]
  /\ GiveUpPut(p)
  /\ UNCHANGED <<etcdVars, lcVars>>

\* It fails: JoinCluster returns the error, and the lease stays behind.
JoinPutFails(p) ==
  /\ Up(p)
  /\ mgr[p].join = "put"
  /\ mgr' = [mgr EXCEPT ![p].join = "failed"]
  /\ GiveUpPut(p)
  /\ UNCHANGED <<etcdVars, lcVars>>
-----------------------------------------------------------------------------
(* refreshInfoLoop and refreshInfo, lines 73-117 *)

RefreshTick(p) ==
  /\ Up(p)
  /\ mgr[p].refresh = "select"
  /\ mgr' = [mgr EXCEPT ![p].refresh = "put"]
  /\ UNCHANGED <<etcdVars, lcVars, late>>

RefreshPut(p) ==
  /\ Up(p)
  /\ mgr[p].refresh = "put"
  /\ PutWithLease(p)
  /\ mgr' = [mgr EXCEPT ![p].refresh = "select"]
  /\ UNCHANGED <<lcVars, late>>

\* Seeded fault: an error ends the loop.
FaultRefreshGivesUp(p) ==
  /\ Up(p)
  /\ mgr[p].refresh = "put"
  /\ mgr' = [mgr EXCEPT ![p].refresh = "returned"]
  /\ GiveUpPut(p)
  /\ UNCHANGED <<etcdVars, lcVars>>

\* refused (no such lease), lost, or timed out: only logged
RefreshPutFails(p) ==
  /\ Up(p)
  /\ mgr[p].refresh = "put"
  /\ mgr' = [mgr EXCEPT ![p].refresh = "select"]
  /\ GiveUpPut(p)
  /\ UNCHANGED <<etcdVars, lcVars>>

\* Seeded fault: the loop only watches for the loss of the lease.
FaultRefreshIgnoresClose(p) ==
  /\ Up(p)
  /\ mgr[p].refresh = "select"
  /\ lc[p].leaseLostCh
  /\ mgr' = [mgr EXCEPT ![p].refresh = "returned"]
  /\ UNCHANGED <<etcdVars, lcVars, late>>

RefreshStops(p) ==
  /\ Up(p)
  /\ mgr[p].refresh = "select"
  /\ lc[p].leaseLostCh \/ lc[p].closeCh
  /\ mgr' = [mgr EXCEPT ![p].refresh = "returned"]
  /\ UNCHANGED <<etcdVars, lcVars, late>>
-----------------------------------------------------------------------------
(* LeaveCluster, lines 119-123; CloseLeaseReturns and CloseLeaseTimesOut   *)
(* are its return.  server.go calls it only after JoinCluster succeeded.   *)

LeaveCluster(p) ==
  /\ mgr[p].join = "joined"
  /\ CloseLease(p)
  /\ UNCHANGED memberVars
-----------------------------------------------------------------------------
(* Network and process *)

LatePutLands(p) ==
  /\ p \in late
  /\ PutWithLease(p)
  /\ late' = late \ {p}
  /\ UNCHANGED <<lcVars, mgr>>

LatePutLost(p) ==
  /\ p \in late
  /\ late' = late \ {p}
  /\ UNCHANGED <<etcdVars, lcVars, mgr>>

\* The process exits or is killed, with whatever Put it had sent.
ProcessEnds(p) ==
  /\ Up(p)
  /\ proc' = [proc EXCEPT ![p] = "dead"]
  /\ IF "put" \in {mgr[p].join, mgr[p].refresh} THEN GiveUpPut(p) ELSE UNCHANGED late
  /\ UNCHANGED <<etcdVars, lc, mgr>>
-----------------------------------------------------------------------------
ManagerStep(p) == \/ JoinLease(p)
                  \/ JoinLeaseFails(p)
                  \/ JoinPut(p)
                  \/ JoinPutFails(p)
                  \/ RefreshTick(p)
                  \/ RefreshPut(p)
                  \/ RefreshPutFails(p)
                  \/ RefreshStops(p)
                  \/ LeaveCluster(p)
                  \/ LatePutLands(p)
                  \/ LatePutLost(p)
                  \/ ProcessEnds(p)

MembershipNext == \E p \in Proc : \/ ManagerStep(p)
                                  \/ LCStep(p) /\ UNCHANGED memberVars

MembershipSafety == MembershipInit /\ [][MembershipNext]_membershipVars

\* The refresh loop runs: its ticker fires, a Put returns, and one that is
\* repeated for ever while the lease exists reaches etcd.
RefreshFairness ==
  \A p \in Proc : /\ WF_membershipVars(RefreshTick(p))
                  /\ WF_membershipVars(RefreshPut(p) \/ RefreshPutFails(p))
                  /\ SF_membershipVars(RefreshPut(p))

\* The rest: LCFairness; the first Put returns; the select of the refresh loop
\* does not prefer the ticker for ever; a request does not stay in the network
\* for ever; a process whose JoinCluster failed exits (server.go:134,
\* launch.go:24).
ProcessFairness ==
  \A p \in Proc : /\ LCFairness(p)
                  /\ WF_membershipVars(JoinPut(p) \/ JoinPutFails(p))
                  /\ SF_membershipVars(RefreshStops(p))
                  /\ WF_membershipVars(LatePutLands(p) \/ LatePutLost(p))
                  /\ WF_membershipVars(mgr[p].join = "failed" /\ ProcessEnds(p))

RefreshSpec == MembershipSafety /\ RefreshFairness
MembershipSpec == RefreshSpec /\ ProcessFairness
-----------------------------------------------------------------------------
Joined(p) == mgr[p].join = "joined"
Advertised(p) == kv[IDOf[p]] = p
Serving(p) == Up(p) /\ Joined(p) /\ p \in leases /\ ~lc[p].closeCh

\* A server that has joined is listed under its ID for as long as its lease
\* exists: no restart, late request or expiry of another lease unlists it.
\* (Only without overlapping runs of one ID: the TODO at manager.go:111.)
AdvertisedWhileLeased ==
  \A p \in Proc : Joined(p) /\ p \in leases => Advertised(p)

\* The wait in LeasedClient.Close is a handshake: once LeaveCluster has
\* returned nil (or the lost-lease notification was given) no request of this
\* run that is still on its way can list it again.
LeftStaysGone ==
  \A p \in Proc : lc[p].leaseLostCh \/ lc[p].close = "ok"
                     => p \in granted \ leases /\ ~Advertised(p)

\* A listing is always backed by a lease, so whatever happens to its writer
\* it ends with the lease.
ListingIsLeased == \A s \in ServerID : kv[s] # NoProc => kv[s] \in leases /\ IDOf[kv[s]] = s

\* A run that has died, at whatever step, is off the list in the end and
\* never gets back on it.
DeadForgotten == \A p \in Proc : proc[p] = "dead" ~> []~Advertised(p)

\* After LeaveCluster both background goroutines of the run come to an end.
LeaveQuiesces ==
  \A p \in Proc : lc[p].close # "none" ~> \/ ~Up(p)
                                          \/ /\ lc[p].keepAlive = "returned"
                                             /\ mgr[p].refresh = "returned"

\* When another run of the same ID has overwritten the record, or its expiry
\* has deleted it, the refresh loop restores it.
RefreshHeals == \A p \in Proc : Serving(p) ~> ~Serving(p) \/ Advertised(p)

\* lease.go:43-44: "To get a notification when the lease is lost, wait on
\* channel returned by LeaseLostC".
LossIsNotified ==
  \A p \in Proc : Up(p) /\ lc[p].keepAlive = "select" /\ p \notin leases
                     ~> ~Up(p) \/ lc[p].leaseLostCh
-----------------------------------------------------------------------------
(* The manager implements Directory. *)

StageOf(p) == CASE p \in leases           -> "member"
                [] p \in granted \ leases -> "after"
                [] OTHER                  -> "before"

AckedBar == {p \in Proc : lc[p].close = "ok"}

Dir == INSTANCE Directory WITH stage <- [p \in Proc |-> StageOf(p)],
                               entry <- kv,
                               acked <- AckedBar

\* Every step of the lease, the refresh loop, the network and etcd is a step
\* of Directory or leaves it alone.
ImplementsDirectory == Dir!DirSpec
=============================================================================

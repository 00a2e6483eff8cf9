-------------------------- MODULE MembershipProofs --------------------------
(***************************************************************************)
(* Theorems about the membership of event servers, for any number of runs, *)
(* server IDs, crashes, lost and late requests.                            *)
(***************************************************************************)
EXTENDS Membership, TLAPS

\* What every step of LeasedClient, the manager or etcd may rely on: the
\* constants are well formed.
LEMMA RunHasID == ASSUME NEW p \in Proc PROVE IDOf[p] \in ServerID
  BY EtcdAssumption

\* A run asks for its lease only where MayLaunch allows it; every other step
\* writes its record under its lease, ends its lease, or leaves etcd alone.
LEMMA StepOnEtcd ==
  ASSUME NEW p \in Proc, ManagerStep(p) \/ LCStep(p)
  PROVE  \/ MayLaunch(p) /\ Grant(p)
         \/ PutWithLease(p)
         \/ DropLease(p)
         \/ UNCHANGED etcdVars
<1>1. CASE LCStep(p)
  BY <1>1 DEF LCStep, KeepAliveEnds, RevokeSucceeds, RevokeFails, NotifyLost, CloseLeaseReturns,
              CloseLeaseTimesOut, KeepAliveChCloses, LeaseExpires
<1>2. CASE ManagerStep(p)
  BY <1>2 DEF ManagerStep, JoinLease, JoinLeaseFails, StartLease, StartLeaseFails, JoinPut,
              JoinPutFails, RefreshTick, RefreshPut, RefreshPutFails, RefreshStops,
              LeaveCluster, CloseLease, LatePutLands, LatePutLost, ProcessEnds
<1> QED
  BY <1>1, <1>2

LEMMA StepEtcdType ==
  ASSUME EtcdTypeOK, NEW p \in Proc, ManagerStep(p) \/ LCStep(p)
  PROVE  EtcdTypeOK'
<1> USE DEF EtcdTypeOK
<1>1. CASE Grant(p)
  BY <1>1 DEF Grant
<1>2. CASE PutWithLease(p)
  BY <1>2, RunHasID DEF PutWithLease
<1>3. CASE DropLease(p)
  <2>1. granted' \in SUBSET Proc /\ leases' \in SUBSET granted'
    BY <1>3 DEF DropLease
  <2>2. kv' \in [ServerID -> Proc \cup {NoProc}]
    BY <1>3 DEF DropLease
  <2> QED
    BY <2>1, <2>2
<1>4. CASE UNCHANGED etcdVars
  BY <1>4 DEF etcdVars
<1> QED
  BY <1>1, <1>2, <1>3, <1>4, StepOnEtcd

\* What a step may do to the client of run p: give one of its fields another
\* value the field may have.
LEMMA ClientUpdate ==
  ASSUME NEW r \in LeasedClientState,
         NEW st \in {"new", "started", "failed"},
         NEW ok \in BOOLEAN,
         NEW ka \in {"nil", "open", "closed"},
         NEW g \in {"none", "select", "revoke", "notify", "returned"},
         NEW lost \in BOOLEAN,
         NEW cc \in BOOLEAN,
         NEW cl \in {"none", "waiting", "ok", "timeout"}
  PROVE  /\ [r EXCEPT !.start = st] \in LeasedClientState
         /\ [r EXCEPT !.leaseOK = ok] \in LeasedClientState
         /\ [r EXCEPT !.kaCh = ka] \in LeasedClientState
         /\ [r EXCEPT !.keepAlive = g] \in LeasedClientState
         /\ [r EXCEPT !.leaseLostCh = lost] \in LeasedClientState
         /\ [r EXCEPT !.closeCh = cc] \in LeasedClientState
         /\ [r EXCEPT !.close = cl] \in LeasedClientState
  BY DEF LeasedClientState

\* The client of run p becomes r, and the other clients stay.
LEMMA ClientsUpdate ==
  ASSUME lc \in [Proc -> LeasedClientState], NEW p \in Proc, NEW r \in LeasedClientState,
         lc' = [lc EXCEPT ![p] = r]
  PROVE  lc' \in [Proc -> LeasedClientState]
  OBVIOUS

LEMMA LCStepClient ==
  ASSUME LCTypeOK, NEW p \in Proc, LCStep(p)
  PROVE  lc' \in [Proc -> LeasedClientState] /\ proc' = proc
<1>0. lc[p] \in LeasedClientState /\ lc \in [Proc -> LeasedClientState]
  BY DEF LCTypeOK
<1>1. CASE KeepAliveEnds(p)
  <2> DEFINE k == IF lc[p].leaseOK THEN "revoke" ELSE "returned"
             r == [[lc[p] EXCEPT !.leaseOK = FALSE] EXCEPT !.keepAlive = k]
  <2>1. k \in {"none", "select", "revoke", "notify", "returned"}
    OBVIOUS
  <2>2. lc' = [lc EXCEPT ![p] = r] /\ proc' = proc
    BY <1>0, <1>1 DEF KeepAliveEnds
  <2>3. r \in LeasedClientState
    <3> HIDE DEF k
    <3> QED
      BY <1>0, <2>1, ClientUpdate
  <2> HIDE DEF r
  <2> QED
    BY <1>0, <2>2, <2>3, ClientsUpdate
<1>2. CASE RevokeSucceeds(p)
  <2>1. lc' = [lc EXCEPT ![p] = [@ EXCEPT !.keepAlive = "notify"]] /\ proc' = proc
    BY <1>2 DEF RevokeSucceeds
  <2> QED
    BY <1>0, <2>1, ClientUpdate, ClientsUpdate
<1>3. CASE RevokeFails(p)
  <2>1. lc' = [lc EXCEPT ![p] = [@ EXCEPT !.keepAlive = "returned"]] /\ proc' = proc
    BY <1>3 DEF RevokeFails
  <2> QED
    BY <1>0, <2>1, ClientUpdate, ClientsUpdate
<1>4. CASE NotifyLost(p)
  <2> DEFINE r == [[lc[p] EXCEPT !.keepAlive = "returned"] EXCEPT !.leaseLostCh = TRUE]
  <2>1. lc' = [lc EXCEPT ![p] = r] /\ proc' = proc
    BY <1>0, <1>4 DEF NotifyLost
  <2>2. r \in LeasedClientState
    BY <1>0, ClientUpdate
  <2> HIDE DEF r
  <2> QED
    BY <1>0, <2>1, <2>2, ClientsUpdate
<1>5. CASE CloseLeaseReturns(p)
  <2>1. lc' = [lc EXCEPT ![p] = [@ EXCEPT !.close = "ok"]] /\ proc' = proc
    BY <1>5 DEF CloseLeaseReturns
  <2> QED
    BY <1>0, <2>1, ClientUpdate, ClientsUpdate
<1>6. CASE CloseLeaseTimesOut(p)
  <2>1. lc' = [lc EXCEPT ![p] = [@ EXCEPT !.close = "timeout"]] /\ proc' = proc
    BY <1>6 DEF CloseLeaseTimesOut
  <2> QED
    BY <1>0, <2>1, ClientUpdate, ClientsUpdate
<1>7. CASE KeepAliveChCloses(p)
  <2>1. lc' = [lc EXCEPT ![p] = [@ EXCEPT !.kaCh = "closed"]] /\ proc' = proc
    BY <1>7 DEF KeepAliveChCloses
  <2> QED
    BY <1>0, <2>1, ClientUpdate, ClientsUpdate
<1>8. CASE LeaseExpires(p)
  BY <1>0, <1>8 DEF LeaseExpires, lcVars
<1> QED
  BY <1>1, <1>2, <1>3, <1>4, <1>5, <1>6, <1>7, <1>8 DEF LCStep

LEMMA ManagerStepClient ==
  ASSUME LCTypeOK, NEW p \in Proc, ManagerStep(p)
  PROVE  lc' \in [Proc -> LeasedClientState]
<1>0. lc[p] \in LeasedClientState /\ lc \in [Proc -> LeasedClientState]
  BY DEF LCTypeOK
<1>1. CASE JoinLease(p)
  <2> DEFINE r1 == [[lc[p] EXCEPT !.start = "started"] EXCEPT !.leaseOK = TRUE]
             r2 == [[r1 EXCEPT !.kaCh = "open"] EXCEPT !.keepAlive = "select"]
  <2>1. lc' = [lc EXCEPT ![p] = r2]
    BY <1>0, <1>1 DEF JoinLease, StartLease
  <2>2. r1 \in LeasedClientState
    BY <1>0, ClientUpdate
  <2>3. r2 \in LeasedClientState
    <3> HIDE DEF r1
    <3> QED
      BY <2>2, ClientUpdate
  <2> HIDE DEF r2
  <2> QED
    BY <1>0, <2>1, <2>3, ClientsUpdate
<1>2. CASE JoinLeaseFails(p)
  <2>1. lc' = [lc EXCEPT ![p] = [@ EXCEPT !.start = "failed"]]
    BY <1>2 DEF JoinLeaseFails, StartLeaseFails
  <2> QED
    BY <1>0, <2>1, ClientUpdate, ClientsUpdate
<1>3. CASE LeaveCluster(p)
  <2> DEFINE r == [[lc[p] EXCEPT !.closeCh = TRUE] EXCEPT !.close = "waiting"]
  <2>1. lc' = [lc EXCEPT ![p] = r]
    BY <1>0, <1>3 DEF LeaveCluster, CloseLease
  <2>2. r \in LeasedClientState
    BY <1>0, ClientUpdate
  <2> HIDE DEF r
  <2> QED
    BY <1>0, <2>1, <2>2, ClientsUpdate
<1>4. CASE UNCHANGED lc
  BY <1>0, <1>4
<1> QED
  BY <1>1, <1>2, <1>3, <1>4
     DEF ManagerStep, lcVars, JoinPut, JoinPutFails, RefreshTick, RefreshPut, RefreshPutFails,
         RefreshStops, LatePutLands, LatePutLost, ProcessEnds

\* The manager, the process and the late requests of a run.
LEMMA ManagerStepManager ==
  ASSUME MembershipTypeOK, NEW p \in Proc, ManagerStep(p)
  PROVE  /\ mgr' \in [Proc -> ManagerState]
         /\ proc' \in [Proc -> ProcState]
         /\ late' \in SUBSET Proc
<1>0. /\ mgr \in [Proc -> ManagerState] /\ proc \in [Proc -> ProcState] /\ late \in SUBSET Proc
      /\ mgr[p] \in ManagerState
  BY DEF MembershipTypeOK, LCTypeOK
<1>1. CASE JoinLease(p) \/ JoinLeaseFails(p)
  BY <1>0, <1>1 DEF JoinLease, JoinLeaseFails, ManagerState, ProcState
<1>2. CASE JoinPut(p) \/ JoinPutFails(p)
  BY <1>0, <1>2 DEF JoinPut, JoinPutFails, GiveUpPut, ManagerState, lcVars
<1>3. CASE RefreshTick(p) \/ RefreshStops(p)
  BY <1>0, <1>3 DEF RefreshTick, RefreshStops, ManagerState, lcVars
<1>4. CASE RefreshPut(p) \/ RefreshPutFails(p)
  BY <1>0, <1>4 DEF RefreshPut, RefreshPutFails, GiveUpPut, ManagerState, lcVars
<1>5. CASE LatePutLands(p) \/ LatePutLost(p)
  BY <1>0, <1>5 DEF LatePutLands, LatePutLost, lcVars
<1>6. CASE LeaveCluster(p)
  BY <1>0, <1>6 DEF LeaveCluster, CloseLease, memberVars
<1>7. CASE ProcessEnds(p)
  BY <1>0, <1>7 DEF ProcessEnds, GiveUpPut, ProcState
<1> QED
  BY <1>1, <1>2, <1>3, <1>4, <1>5, <1>6, <1>7 DEF ManagerStep

\* Type correctness: the goroutines of every run are at one of the places the
\* model names, and etcd only ever holds leases it has granted.
THEOREM MembershipTypes == MembershipSafety => []MembershipTypeOK
<1>1. MembershipInit => MembershipTypeOK
  BY DEF MembershipInit, EtcdInit, LCInit, NewLeasedClient, LeasedClientState, ProcState,
         ManagerState, MembershipTypeOK, EtcdTypeOK, LCTypeOK
<1>2. MembershipTypeOK /\ [MembershipNext]_membershipVars => MembershipTypeOK'
  <2> SUFFICES ASSUME MembershipTypeOK, [MembershipNext]_membershipVars
               PROVE  MembershipTypeOK'
    OBVIOUS
  <2>1. ASSUME NEW p \in Proc, ManagerStep(p) \/ (LCStep(p) /\ UNCHANGED memberVars)
        PROVE  MembershipTypeOK'
    <3>1. EtcdTypeOK'
      BY <2>1, StepEtcdType DEF MembershipTypeOK
    <3>2. CASE ManagerStep(p)
      BY <2>1, <3>1, <3>2, ManagerStepClient, ManagerStepManager DEF MembershipTypeOK, LCTypeOK
    <3>3. CASE LCStep(p) /\ UNCHANGED memberVars
      BY <2>1, <3>1, <3>3, LCStepClient DEF MembershipTypeOK, LCTypeOK, memberVars
    <3> QED
      BY <2>1, <3>2, <3>3
  <2>2. CASE UNCHANGED membershipVars
    BY <2>2 DEF membershipVars, memberVars, lcVars, etcdVars,
                MembershipTypeOK, EtcdTypeOK, LCTypeOK
  <2> QED
    BY <2>1, <2>2 DEF MembershipNext
<1> QED
  BY <1>1, <1>2, PTL DEF MembershipSafety
-----------------------------------------------------------------------------
(* Listings and leases *)

\* Without overlapping runs at most one lease exists per server ID.
OneLeasePerID == \A p, q \in leases : IDOf[p] = IDOf[q] => p = q

EtcdInv == ListingIsLeased /\ (~AllowOverlap => OneLeasePerID)

LEMMA EtcdInvStep ==
  ASSUME MembershipTypeOK, EtcdInv, NEW p \in Proc, ManagerStep(p) \/ LCStep(p)
  PROVE  EtcdInv'
<1> USE DEF MembershipTypeOK, EtcdTypeOK, EtcdInv, ListingIsLeased, OneLeasePerID
<1>1. CASE MayLaunch(p) /\ Grant(p)
  <2>1. ListingIsLeased'
    BY <1>1 DEF Grant
  <2>2. (~AllowOverlap => OneLeasePerID)'
    BY <1>1 DEF Grant, MayLaunch, SameID
  <2> QED
    BY <2>1, <2>2
<1>2. CASE PutWithLease(p)
  BY <1>2, RunHasID, EtcdAssumption DEF PutWithLease
<1>3. CASE DropLease(p)
  BY <1>3, EtcdAssumption DEF DropLease
<1>4. CASE UNCHANGED etcdVars
  BY <1>4 DEF etcdVars
<1> QED
  BY <1>1, <1>2, <1>3, <1>4, StepOnEtcd

LEMMA EtcdInvHolds == MembershipSafety => [](MembershipTypeOK /\ EtcdInv)
<1>1. MembershipInit => EtcdInv
  BY DEF MembershipInit, EtcdInit, EtcdInv, ListingIsLeased, OneLeasePerID
<1>2. MembershipTypeOK /\ EtcdInv /\ [MembershipNext]_membershipVars => EtcdInv'
  <2> SUFFICES ASSUME MembershipTypeOK, EtcdInv, [MembershipNext]_membershipVars
               PROVE  EtcdInv'
    OBVIOUS
  <2>1. CASE MembershipNext
    BY <2>1, EtcdInvStep DEF MembershipNext
  <2>2. CASE UNCHANGED membershipVars
    BY <2>2 DEF membershipVars, etcdVars, EtcdInv, ListingIsLeased, OneLeasePerID
  <2> QED
    BY <2>1, <2>2
<1> QED
  BY <1>1, <1>2, MembershipTypes, PTL DEF MembershipSafety

\* A listing is backed by an existing lease of the run it names, and stands
\* under the ID of that run (WithLease in lease.go:119, the key in
\* manager.go:112).
THEOREM ListingsAreLeased == MembershipSafety => []ListingIsLeased
  BY EtcdInvHolds, PTL DEF EtcdInv
-----------------------------------------------------------------------------
(* Joined servers stay listed *)

\* The step of run p keeps every joined run listed while its lease exists.
LEMMA AdvertisedStep ==
  ASSUME ~AllowOverlap, MembershipTypeOK, EtcdInv, AdvertisedWhileLeased,
         NEW p \in Proc, ManagerStep(p) \/ (LCStep(p) /\ UNCHANGED memberVars)
  PROVE  AdvertisedWhileLeased'
<1> USE DEF AdvertisedWhileLeased, Joined, Advertised
<1> SUFFICES ASSUME NEW q \in Proc, Joined(q)', q \in leases'
             PROVE  kv'[IDOf[q]] = q
  OBVIOUS
<1>1. Joined(q) \/ (q = p /\ JoinPut(p))
  <2> USE DEF MembershipTypeOK, ManagerState
  <2>1. CASE JoinLease(p) \/ JoinLeaseFails(p) \/ JoinPutFails(p)
    BY <2>1 DEF JoinLease, JoinLeaseFails, JoinPutFails
  <2>2. CASE RefreshTick(p) \/ RefreshPut(p) \/ RefreshPutFails(p) \/ RefreshStops(p)
    BY <2>2 DEF RefreshTick, RefreshPut, RefreshPutFails, RefreshStops
  <2>3. CASE JoinPut(p)
    BY <2>3 DEF JoinPut
  <2>4. CASE LatePutLands(p) \/ LatePutLost(p) \/ ProcessEnds(p) \/ UNCHANGED memberVars
    BY <2>4 DEF LatePutLands, LatePutLost, ProcessEnds, memberVars
  <2> QED
    BY <2>1, <2>2, <2>3, <2>4 DEF ManagerStep, LeaveCluster
<1>2. CASE MayLaunch(p) /\ Grant(p)
  <2>1. p \notin granted /\ p \notin leases
    BY <1>2 DEF Grant, MembershipTypeOK, EtcdTypeOK
  <2>2. JoinLease(p) \/ JoinLeaseFails(p)
    <3> SUFFICES ASSUME ~JoinLease(p), ~JoinLeaseFails(p)
                 PROVE  granted' = granted
      BY <1>2, <2>1 DEF Grant
    <3> USE DEF PutWithLease, DropLease, etcdVars
    <3>1. CASE LCStep(p)
      BY <3>1 DEF LCStep, KeepAliveEnds, RevokeSucceeds, RevokeFails, NotifyLost,
                  CloseLeaseReturns, CloseLeaseTimesOut, KeepAliveChCloses, LeaseExpires
    <3>2. CASE ManagerStep(p)
      BY <3>2 DEF ManagerStep, JoinPut, JoinPutFails, RefreshTick, RefreshPut, RefreshPutFails,
                  RefreshStops, LeaveCluster, CloseLease, LatePutLands, LatePutLost, ProcessEnds
    <3> QED
      BY <3>1, <3>2
  <2>3. q # p
    BY <2>2 DEF JoinLease, JoinLeaseFails, MembershipTypeOK, ManagerState
  <2> QED
    BY <1>1, <1>2, <2>3 DEF Grant, JoinPut, JoinLease, JoinLeaseFails
<1>3. CASE PutWithLease(p)
  <2>1. q \in leases /\ p \in leases
    BY <1>3 DEF PutWithLease
  <2>2. CASE IDOf[q] = IDOf[p]
    BY <1>3, <2>1, <2>2, RunHasID DEF PutWithLease, EtcdInv, OneLeasePerID, MembershipTypeOK, EtcdTypeOK
  <2>3. CASE IDOf[q] # IDOf[p]
    BY <1>1, <1>3, <2>1, <2>3, RunHasID DEF PutWithLease, MembershipTypeOK, EtcdTypeOK
  <2> QED
    BY <2>2, <2>3
<1>4. CASE DropLease(p) /\ ~JoinPut(p)
  BY <1>1, <1>4, RunHasID DEF DropLease
<1>5. CASE UNCHANGED etcdVars /\ ~JoinPut(p)
  BY <1>1, <1>5 DEF etcdVars
<1> QED
  BY <1>2, <1>3, <1>4, <1>5, StepOnEtcd DEF JoinPut

\* Without overlapping runs, a server that has joined is listed for as long as
\* its lease exists, whatever the other runs, late requests and expiries do.
THEOREM JoinedStayListed == ~AllowOverlap /\ MembershipSafety => []AdvertisedWhileLeased
<1> SUFFICES ASSUME ~AllowOverlap
             PROVE  MembershipSafety => []AdvertisedWhileLeased
  OBVIOUS
<1>1. MembershipInit => AdvertisedWhileLeased
  BY DEF MembershipInit, EtcdInit, AdvertisedWhileLeased
<1>2. MembershipTypeOK /\ EtcdInv /\ AdvertisedWhileLeased /\ [MembershipNext]_membershipVars
        => AdvertisedWhileLeased'
  <2> SUFFICES ASSUME MembershipTypeOK, EtcdInv, AdvertisedWhileLeased,
                      [MembershipNext]_membershipVars
               PROVE  AdvertisedWhileLeased'
    OBVIOUS
  <2>1. CASE MembershipNext
    BY <2>1, AdvertisedStep DEF MembershipNext
  <2>2. CASE UNCHANGED membershipVars
    BY <2>2 DEF membershipVars, etcdVars, memberVars, AdvertisedWhileLeased, Joined, Advertised
  <2> QED
    BY <2>1, <2>2
<1> QED
  BY <1>1, <1>2, EtcdInvHolds, PTL DEF MembershipSafety
-----------------------------------------------------------------------------
(* Left servers stay unlisted *)

\* Why LeftStaysGone holds: from the moment Revoke has succeeded the lease of
\* the run is one that etcd has granted and will not grant again.
ReleasedInv ==
  \A p \in Proc : lc[p].keepAlive = "notify" \/ lc[p].leaseLostCh \/ lc[p].close = "ok"
                     => p \in granted \ leases

\* A lease that is gone does not come back.
LEMMA GoneIsForever ==
  ASSUME MembershipTypeOK, NEW p \in Proc, ManagerStep(p) \/ LCStep(p)
  PROVE  granted \ leases \subseteq granted' \ leases'
<1>1. CASE MayLaunch(p) /\ Grant(p)
  BY <1>1 DEF Grant
<1>2. CASE PutWithLease(p) \/ DropLease(p) \/ UNCHANGED etcdVars
  BY <1>2 DEF PutWithLease, DropLease, etcdVars
<1> QED
  BY <1>1, <1>2, StepOnEtcd

LEMMA ReleasedStep ==
  ASSUME MembershipTypeOK, ReleasedInv, NEW p \in Proc,
         ManagerStep(p) \/ (LCStep(p) /\ UNCHANGED memberVars)
  PROVE  ReleasedInv'
<1> USE DEF ReleasedInv, MembershipTypeOK, LCTypeOK
<1> DEFINE Told(q) == lc[q].keepAlive = "notify" \/ lc[q].leaseLostCh \/ lc[q].close = "ok"
<1> SUFFICES ASSUME NEW q \in Proc, Told(q)'
             PROVE  q \in granted' \ leases'
  OBVIOUS
<1>1. Told(q) \/ (q = p /\ p \in granted' \ leases')
  <2> USE DEF LeasedClientState
  <2>1. CASE JoinLease(p) \/ JoinLeaseFails(p) \/ LeaveCluster(p)
    BY <2>1 DEF JoinLease, StartLease, JoinLeaseFails, StartLeaseFails, LeaveCluster, CloseLease
  <2>2. CASE UNCHANGED lc
    BY <2>2
  <2>3. CASE KeepAliveEnds(p) \/ RevokeFails(p) \/ CloseLeaseTimesOut(p) \/ KeepAliveChCloses(p)
    BY <2>3 DEF KeepAliveEnds, RevokeFails, CloseLeaseTimesOut, KeepAliveChCloses
  <2>4. CASE RevokeSucceeds(p)
    BY <2>4 DEF RevokeSucceeds, DropLease, EtcdTypeOK
  <2>5. CASE NotifyLost(p)
    BY <2>5 DEF NotifyLost
  <2>6. CASE CloseLeaseReturns(p)
    BY <2>6 DEF CloseLeaseReturns
  <2> QED
    BY <2>1, <2>2, <2>3, <2>4, <2>5, <2>6
       DEF LCStep, LeaseExpires, lcVars, ManagerStep, JoinPut, JoinPutFails, RefreshTick,
           RefreshPut, RefreshPutFails, RefreshStops, LatePutLands, LatePutLost, ProcessEnds
<1> QED
  BY <1>1, GoneIsForever

LEMMA ReleasedHolds == MembershipSafety => []ReleasedInv
<1>1. MembershipInit => ReleasedInv
  BY DEF MembershipInit, LCInit, NewLeasedClient, ReleasedInv
<1>2. MembershipTypeOK /\ ReleasedInv /\ [MembershipNext]_membershipVars => ReleasedInv'
  <2> SUFFICES ASSUME MembershipTypeOK, ReleasedInv, [MembershipNext]_membershipVars
               PROVE  ReleasedInv'
    OBVIOUS
  <2>1. CASE MembershipNext
    BY <2>1, ReleasedStep DEF MembershipNext
  <2>2. CASE UNCHANGED membershipVars
    BY <2>2 DEF membershipVars, etcdVars, lcVars, ReleasedInv
  <2> QED
    BY <2>1, <2>2
<1> QED
  BY <1>1, <1>2, MembershipTypes, PTL DEF MembershipSafety

\* Once LeaveCluster has returned nil, or the lost-lease channel is closed, the
\* run is not listed and no Put of it that is still under way can list it.
THEOREM LeftServersStayGone == MembershipSafety => []LeftStaysGone
<1>1. MembershipTypeOK /\ EtcdInv /\ ReleasedInv => LeftStaysGone
  BY RunHasID, EtcdAssumption
     DEF MembershipTypeOK, EtcdTypeOK, EtcdInv, ListingIsLeased, ReleasedInv, LeftStaysGone, Advertised
<1> QED
  BY <1>1, EtcdInvHolds, ReleasedHolds, PTL
-----------------------------------------------------------------------------
(* Refinement *)

\* A step of run p changes the close result of no other run, and only to "ok"
\* when the lost-lease channel is closed.
LEMMA StepOnAck ==
  ASSUME MembershipTypeOK, NEW p \in Proc,
         ManagerStep(p) \/ (LCStep(p) /\ UNCHANGED memberVars)
  PROVE  \/ AckedBar' = AckedBar
         \/ CloseLeaseReturns(p) /\ AckedBar' = AckedBar \cup {p}
<1> USE DEF AckedBar, MembershipTypeOK, LCTypeOK, LeasedClientState
<1>1. CASE JoinLease(p) \/ JoinLeaseFails(p)
  BY <1>1 DEF JoinLease, StartLease, JoinLeaseFails, StartLeaseFails
<1>2. CASE LeaveCluster(p)
  BY <1>2 DEF LeaveCluster, CloseLease
<1>3. CASE UNCHANGED lc
  BY <1>3
<1>4. CASE KeepAliveEnds(p) \/ RevokeSucceeds(p) \/ RevokeFails(p) \/ NotifyLost(p)
           \/ KeepAliveChCloses(p)
  BY <1>4 DEF KeepAliveEnds, RevokeSucceeds, RevokeFails, NotifyLost, KeepAliveChCloses
<1>5. CASE CloseLeaseTimesOut(p)
  BY <1>5 DEF CloseLeaseTimesOut
<1>6. CASE CloseLeaseReturns(p)
  BY <1>6 DEF CloseLeaseReturns
<1> QED
  BY <1>1, <1>2, <1>3, <1>4, <1>5, <1>6
     DEF LCStep, LeaseExpires, lcVars, ManagerStep, JoinPut, JoinPutFails, RefreshTick,
         RefreshPut, RefreshPutFails, RefreshStops, LatePutLands, LatePutLost, ProcessEnds

\* Each of the four things a step can do to etcd is a step of Directory.
LEMMA StepRefines ==
  ASSUME MembershipTypeOK, EtcdInv, ReleasedInv, NEW p \in Proc,
         ManagerStep(p) \/ (LCStep(p) /\ UNCHANGED memberVars)
  PROVE  [Dir!DirNext]_(Dir!dirVars)
<1> DEFINE stageBar == [q \in Proc |-> StageOf(q)]
<1> USE DEF MembershipTypeOK, EtcdTypeOK, StageOf
<1>1. CASE CloseLeaseReturns(p) /\ AckedBar' = AckedBar \cup {p}
  <2>1. stageBar' = stageBar /\ kv' = kv
    BY <1>1 DEF CloseLeaseReturns, etcdVars
  <2>2. stageBar[p] = "after"
    BY <1>1 DEF CloseLeaseReturns, ReleasedInv
  <2>3. Dir!DirAck(p)
    BY <1>1, <2>1, <2>2 DEF Dir!DirAck
  <2> QED
    BY <2>3 DEF Dir!DirNext
<1>2. CASE AckedBar' = AckedBar
  <2>1. CASE MayLaunch(p) /\ Grant(p)
    <3>1. stageBar[p] = "before"
      BY <2>1 DEF Grant
    <3>2. stageBar' = [stageBar EXCEPT ![p] = "member"]
      BY <2>1 DEF Grant
    <3>3. Dir!DirEnter(p)
      BY <1>2, <2>1, <3>1, <3>2 DEF Dir!DirEnter, Grant
    <3> QED
      BY <3>3 DEF Dir!DirNext
  <2>2. CASE PutWithLease(p)
    <3>1. stageBar[p] = "member" /\ stageBar' = stageBar
      BY <2>2 DEF PutWithLease
    <3>2. Dir!DirList(p)
      BY <1>2, <2>2, <3>1 DEF Dir!DirList, PutWithLease
    <3> QED
      BY <3>2 DEF Dir!DirNext
  <2>3. CASE DropLease(p) /\ p \in leases
    <3>1. stageBar[p] = "member"
      BY <2>3
    <3>2. stageBar' = [stageBar EXCEPT ![p] = "after"]
      BY <2>3 DEF DropLease
    <3>3. Dir!DirDepart(p)
      BY <1>2, <2>3, <3>1, <3>2 DEF Dir!DirDepart, DropLease
    <3> QED
      BY <3>3 DEF Dir!DirNext
  <2>4. CASE DropLease(p) /\ p \notin leases /\ kv' = kv
    <3>1. stageBar' = stageBar
      BY <2>4 DEF DropLease
    <3> QED
      BY <1>2, <2>4, <3>1 DEF Dir!dirVars
  <2>5. CASE UNCHANGED etcdVars
    <3>1. stageBar' = stageBar
      BY <2>5 DEF etcdVars
    <3> QED
      BY <1>2, <2>5, <3>1 DEF Dir!dirVars, etcdVars
  <2>6. DropLease(p) /\ p \notin leases => kv' = kv
    BY DEF DropLease, EtcdInv, ListingIsLeased
  <2> QED
    BY <2>1, <2>2, <2>3, <2>4, <2>5, <2>6, StepOnEtcd
<1> QED
  BY <1>1, <1>2, StepOnAck

\* The manager, with its lease, its retries and the network under it,
\* implements the directory: one membership interval per run, only members
\* listed, and no acknowledgement of a departure that has not happened.
THEOREM ManagerImplementsDirectory == MembershipSafety => ImplementsDirectory
<1>1. MembershipInit => Dir!DirInit
  BY DEF MembershipInit, EtcdInit, LCInit, NewLeasedClient, Dir!DirInit, StageOf, AckedBar
<1>2. MembershipTypeOK /\ EtcdInv /\ ReleasedInv /\ [MembershipNext]_membershipVars
        => [Dir!DirNext]_(Dir!dirVars)
  <2> SUFFICES ASSUME MembershipTypeOK, EtcdInv, ReleasedInv, [MembershipNext]_membershipVars
               PROVE  [Dir!DirNext]_(Dir!dirVars)
    OBVIOUS
  <2>1. CASE MembershipNext
    BY <2>1, StepRefines DEF MembershipNext
  <2>2. CASE UNCHANGED membershipVars
    BY <2>2 DEF membershipVars, etcdVars, lcVars, Dir!dirVars, StageOf, AckedBar
  <2> QED
    BY <2>1, <2>2
<1> QED
  BY <1>1, <1>2, EtcdInvHolds, ReleasedHolds, PTL
     DEF MembershipSafety, ImplementsDirectory, Dir!DirSpec
=============================================================================

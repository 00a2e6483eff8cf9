--------------------------- MODULE ClusterProofs ---------------------------
(***************************************************************************)
(* Theorems about event servers and gateways around one etcd, for any      *)
(* number of runs, server IDs and gateways.  A step of the composition is  *)
(* a step of the membership seen from the event servers, and a change of   *)
(* etcd or a step of a registry seen from the gateways: what is proved of  *)
(* the two parts holds of the whole.                                       *)
(***************************************************************************)
EXTENDS Cluster, MembershipProofs, RegistryProofs

\* What a step of the cluster is to the two parts.
LEMMA ClusterStep ==
  ASSUME ClusterNext
  PROVE  \/ \E p \in Proc : /\ ManagerStep(p) \/ (LCStep(p) /\ UNCHANGED memberVars)
                            /\ Publish /\ UNCHANGED reg
         \/ \E g \in Gateway : RegistryStep(g) /\ UNCHANGED membershipVars
  BY DEF ClusterNext, MembershipNext

\* The gateways only read: seen from the event servers, a cluster with
\* registries (registry.go) behaves like the membership on its own.
THEOREM ClusterRunsMembership == ClusterSafety => MembershipSafety
<1>1. ClusterInit => MembershipInit
  BY DEF ClusterInit
<1>2. [ClusterNext]_clusterVars => [MembershipNext]_membershipVars
  BY DEF ClusterNext, clusterVars
<1> QED
  BY <1>1, <1>2, PTL DEF ClusterSafety, MembershipSafety

\* What the event servers know of etcd holds in the cluster too.
LEMMA ClusterEtcdInv == ClusterSafety => [](MembershipTypeOK /\ EtcdInv)
  BY ClusterRunsMembership, EtcdInvHolds, PTL
-----------------------------------------------------------------------------
(* The registries *)

\* The steps of the event servers are the changes of etcd that the registry
\* was proved against: Publish adds the one revision each of them makes.
LEMMA PublishedChange ==
  ASSUME MembershipTypeOK, EtcdInv, NEW p \in Proc, ManagerStep(p) \/ LCStep(p), Publish
  PROVE  EtcdChanges(p) \/ UNCHANGED <<etcdVars, hist>>
<1> USE DEF MembershipTypeOK, EtcdTypeOK
<1>1. CASE MayLaunch(p) /\ Grant(p)
  BY <1>1 DEF Grant, Publish, EtcdChanges
<1>2. CASE UNCHANGED etcdVars
  BY <1>2 DEF etcdVars, Publish
<1>3. CASE PutWithLease(p)
  <2>1. CASE kv' = kv
    BY <1>3, <2>1 DEF PutWithLease, Publish, etcdVars
  <2>2. CASE kv' # kv
    <3>1. PICK s \in ServerID : kv'[s] # kv[s] /\ Revision(s)
      BY <2>2 DEF Publish
    <3>2. s = IDOf[p]
      BY <1>3, <3>1, RunHasID DEF PutWithLease
    <3> QED
      BY <1>3, <3>1, <3>2 DEF EtcdChanges
  <2> QED
    BY <2>1, <2>2
<1>4. CASE DropLease(p)
  <2>1. CASE kv[IDOf[p]] = p
    <3>1. kv'[IDOf[p]] # kv[IDOf[p]]
      BY <1>4, <2>1, RunHasID, EtcdAssumption DEF DropLease
    <3>2. PICK s \in ServerID : kv'[s] # kv[s] /\ Revision(s)
      BY <3>1 DEF Publish
    <3>3. s = IDOf[p]
      BY <1>4, <3>2, EtcdAssumption DEF DropLease, EtcdInv, ListingIsLeased
    <3> QED
      BY <1>4, <2>1, <3>2, <3>3 DEF EtcdChanges
  <2>2. CASE kv[IDOf[p]] # p
    <3>1. kv' = kv
      BY <1>4, <2>2, EtcdAssumption DEF DropLease, EtcdInv, ListingIsLeased
    <3>2. hist' = hist
      BY <3>1 DEF Publish
    <3>3. p \notin leases => UNCHANGED etcdVars
      BY <1>4, <3>1 DEF DropLease, etcdVars
    <3> QED
      BY <1>4, <2>2, <3>2, <3>3 DEF EtcdChanges
  <2> QED
    BY <2>1, <2>2
<1> QED
  BY <1>1, <1>2, <1>3, <1>4, StepOnEtcd

\* Seen from the registries, a step of the cluster is one of these three.
LEMMA ClusterStepOnRegistry ==
  ASSUME MembershipTypeOK, EtcdInv, [ClusterNext]_clusterVars
  PROVE  \/ \E p \in Proc : EtcdChanges(p) /\ UNCHANGED reg
         \/ \E g \in Gateway : RegistryStep(g) /\ UNCHANGED etcdVars
         \/ UNCHANGED <<etcdVars, registryVars>>
<1>1. CASE \E p \in Proc : (ManagerStep(p) \/ LCStep(p)) /\ Publish /\ UNCHANGED reg
  BY <1>1, PublishedChange DEF registryVars
<1>2. CASE \E g \in Gateway : RegistryStep(g) /\ UNCHANGED membershipVars
  BY <1>2 DEF membershipVars
<1>3. CASE UNCHANGED clusterVars
  BY <1>3 DEF clusterVars, membershipVars
<1> QED
  BY <1>1, <1>2, <1>3, ClusterStep

LEMMA StutterInv ==
  ASSUME RegistryInv, UNCHANGED <<etcdVars, registryVars>>
  PROVE  RegistryInv'
  BY DEF etcdVars, registryVars, RegistryInv, EtcdTypeOK, OwnKey, RegistryTypeOK, HistoryInv,
         Current, ReflectsRevision, Loaded

LEMMA ClusterRegistryInv == ClusterSafety => []RegistryInv
<1>1. ClusterInit => RegistryInv
  BY RegistryInitInv DEF ClusterInit, MembershipInit
<1>2. MembershipTypeOK /\ EtcdInv /\ RegistryInv /\ [ClusterNext]_clusterVars => RegistryInv'
  BY ClusterStepOnRegistry, EtcdStepInv, RegistryStepInv, StutterInv
<1> QED
  BY <1>1, <1>2, ClusterEtcdInv, PTL DEF ClusterSafety

\* With the event servers of manager.go and lease.go as its writers, and any
\* number of revisions, a registry (registry.go) shows one revision at a time.
THEOREM ClusterShowsOneRevision == ClusterSafety => []ReflectsRevision
  BY ClusterRegistryInv, PTL DEF RegistryInv

\* The registries of a cluster are copies of etcd that are loaded whole and
\* follow it revision by revision (Start and watchForUpdates in registry.go).
THEOREM ClusterImplementsReplica == ClusterSafety => ImplementsReplica
<1>1. ClusterInit => Copy!ReplicaInit
  BY RegistryStartsEmpty DEF ClusterInit, MembershipInit
<1>2. MembershipTypeOK /\ EtcdInv /\ RegistryInv /\ RegistryInv' /\ [ClusterNext]_clusterVars
        => [Copy!ReplicaNext]_(Copy!replicaVars)
  <2> SUFFICES ASSUME MembershipTypeOK, EtcdInv, RegistryInv, RegistryInv',
                      [ClusterNext]_clusterVars
               PROVE  [Copy!ReplicaNext]_(Copy!replicaVars)
    OBVIOUS
  <2>1. CASE UNCHANGED <<etcdVars, registryVars>>
    BY <2>1 DEF registryVars, Copy!replicaVars, Loaded
  <2> QED
    BY <2>1, ClusterStepOnRegistry, EtcdStepRefines, RegistryStepRefines
<1> QED
  BY <1>1, <1>2, ClusterEtcdInv, ClusterRegistryInv, PTL
     DEF ClusterSafety, ImplementsReplica, Copy!ReplicaSpec
-----------------------------------------------------------------------------
(* One interval in the history *)

\* Why OneListingInterval holds: a run that some revision lists has been
\* granted its lease, and while the lease exists nobody else has overwritten
\* the record; so a run whose record is gone can never write it again.
ListedInv ==
  \A p \in Proc : \A i \in 1 .. Len(hist) :
    hist[i].kv[IDOf[p]] = p => p \in granted /\ (p \in leases => kv[IDOf[p]] = p)

\* A change of etcd leaves the old revisions alone and adds at most one.
LEMMA HistoryGrows ==
  ASSUME RegistryInv, NEW p \in Proc, EtcdChanges(p) \/ hist' = hist
  PROVE  /\ Len(hist) \in Nat /\ Len(hist) >= 1
         /\ \A i \in 1 .. Len(hist) : hist'[i] = hist[i]
         /\ hist' # hist => /\ Len(hist') = Len(hist) + 1
                            /\ hist'[Len(hist) + 1].kv = kv'
<1>1. Len(hist) \in Nat /\ Len(hist) >= 1 /\ hist \in Seq(Entry)
  BY DEF RegistryInv, RegistryTypeOK, Entry
<1>2. CASE Revision(IDOf[p])
  <2> DEFINE e == [id |-> IDOf[p], kv |-> kv']
  <2>1. hist' = Append(hist, e) /\ e.kv = kv'
    BY <1>2 DEF Revision
  <2> HIDE DEF e
  <2> QED
    BY <1>1, <2>1
<1>3. CASE hist' = hist
  BY <1>1, <1>3
<1> QED
  BY <1>2, <1>3 DEF EtcdChanges

\* What a step of run p does to a run q that some revision has listed.
LEMMA ListedStep ==
  ASSUME ~AllowOverlap, MembershipTypeOK, EtcdInv, NEW p \in Proc, ManagerStep(p) \/ LCStep(p),
         NEW q \in Proc, q \in granted, q \in leases => kv[IDOf[q]] = q
  PROVE  q \in granted' /\ (q \in leases' => q \in leases /\ kv'[IDOf[q]] = q)
<1> USE RunHasID DEF MembershipTypeOK, EtcdTypeOK
<1>1. CASE MayLaunch(p) /\ Grant(p)
  BY <1>1 DEF Grant
<1>2. CASE PutWithLease(p)
  BY <1>2 DEF PutWithLease, EtcdInv, OneLeasePerID
<1>3. CASE DropLease(p)
  BY <1>3 DEF DropLease
<1>4. CASE UNCHANGED etcdVars
  BY <1>4 DEF etcdVars
<1> QED
  BY <1>1, <1>2, <1>3, <1>4, StepOnEtcd

\* A run that a new revision lists holds a lease; if an old one lists it too,
\* it has held that lease, and its record, all the time in between.
LEMMA NewlyListed ==
  ASSUME RegistryInv, ListedInv, OneListingInterval, NEW p \in Proc,
         \A q \in Proc : q \in granted /\ (q \in leases => kv[IDOf[q]] = q)
                           => (q \in leases' => q \in leases),
         ListingIsLeased', EtcdChanges(p) \/ hist' = hist
  PROVE  OneListingInterval'
<1> SUFFICES ASSUME NEW q \in Proc, NEW i \in 1 .. Len(hist'), NEW j \in 1 .. Len(hist'),
                    NEW k \in 1 .. Len(hist'), i < j, j < k,
                    hist'[i].kv[IDOf[q]] = q, hist'[k].kv[IDOf[q]] = q
             PROVE  hist'[j].kv[IDOf[q]] = q
  BY DEF OneListingInterval
<1>1. /\ Len(hist) \in Nat /\ Len(hist) >= 1
      /\ \A n \in 1 .. Len(hist) : hist'[n] = hist[n]
      /\ hist' # hist => /\ Len(hist') = Len(hist) + 1
                         /\ hist'[Len(hist) + 1].kv = kv'
  BY HistoryGrows
<1>2. CASE k \in 1 .. Len(hist)
  <2>1. i \in 1 .. Len(hist) /\ j \in 1 .. Len(hist)
    BY <1>1, <1>2
  <2> QED
    BY <1>1, <1>2, <2>1 DEF OneListingInterval
<1>3. CASE k \notin 1 .. Len(hist)
  <2>1. hist' # hist /\ k = Len(hist) + 1 /\ i \in 1 .. Len(hist) /\ j \in 1 .. Len(hist)
    BY <1>1, <1>3
  <2>2. kv'[IDOf[q]] = q
    BY <1>1, <2>1
  <2>3. q \in leases'
    BY <2>2, RunHasID, EtcdAssumption DEF ListingIsLeased
  <2>4. q \in leases /\ kv[IDOf[q]] = q
    BY <1>1, <2>1, <2>3 DEF ListedInv
  <2>5. hist[Len(hist)].kv[IDOf[q]] = q
    BY <2>4 DEF RegistryInv, HistoryInv, Current
  <2>6. CASE j = Len(hist)
    BY <1>1, <2>1, <2>5, <2>6
  <2>7. CASE j # Len(hist)
    <3>1. Len(hist) \in 1 .. Len(hist) /\ j < Len(hist)
      BY <1>1, <2>1, <2>7
    <3> QED
      BY <1>1, <2>1, <2>5, <3>1 DEF OneListingInterval
  <2> QED
    BY <2>6, <2>7
<1> QED
  BY <1>2, <1>3

LEMMA IntervalStep ==
  ASSUME ~AllowOverlap, MembershipTypeOK, EtcdInv, EtcdInv', RegistryInv,
         ListedInv, OneListingInterval,
         NEW p \in Proc, ManagerStep(p) \/ LCStep(p), Publish
  PROVE  ListedInv' /\ OneListingInterval'
<1>1. EtcdChanges(p) \/ hist' = hist
  BY PublishedChange
<1>2. /\ Len(hist) \in Nat
      /\ \A n \in 1 .. Len(hist) : hist'[n] = hist[n]
      /\ hist' # hist => /\ Len(hist') = Len(hist) + 1
                         /\ hist'[Len(hist) + 1].kv = kv'
  BY <1>1, HistoryGrows
<1>3. ListedInv'
  <2> SUFFICES ASSUME NEW q \in Proc, NEW i \in 1 .. Len(hist'), hist'[i].kv[IDOf[q]] = q
               PROVE  q \in granted' /\ (q \in leases' => kv'[IDOf[q]] = q)
    BY DEF ListedInv
  <2>1. CASE i \in 1 .. Len(hist)
    BY <1>2, <2>1, ListedStep DEF ListedInv
  <2>2. CASE i \notin 1 .. Len(hist)
    <3>1. kv'[IDOf[q]] = q
      BY <1>2, <2>2
    <3>2. q \in leases'
      BY <3>1, RunHasID, EtcdAssumption DEF EtcdInv, ListingIsLeased
    <3>3. leases' \subseteq granted'
      BY StepEtcdType DEF MembershipTypeOK, EtcdTypeOK
    <3> QED
      BY <3>1, <3>2, <3>3
  <2> QED
    BY <2>1, <2>2
<1> QED
  BY <1>1, <1>3, ListedStep, NewlyListed DEF EtcdInv

\* Without overlapping runs of one ID, every run is listed during one interval
\* of the history that the gateways replay: neither a refresh of its manager
\* (manager.go:77-96) nor a Put that arrives late lists it again once Revoke,
\* expiry or a successor has taken its record away.
THEOREM RunsAreListedOnce == ~AllowOverlap /\ ClusterSafety => []OneListingInterval
<1> SUFFICES ASSUME ~AllowOverlap
             PROVE  ClusterSafety => []OneListingInterval
  OBVIOUS
<1>1. ClusterInit => ListedInv /\ OneListingInterval
  <2> SUFFICES ASSUME ClusterInit PROVE ListedInv /\ OneListingInterval
    OBVIOUS
  <2> PICK s \in ServerID : hist = <<[id |-> s, kv |-> NoServers]>>
    BY DEF ClusterInit, RegistryInit
  <2>1. Len(hist) = 1 /\ \A i \in 1 .. Len(hist) : hist[i].kv = NoServers
    OBVIOUS
  <2> QED
    BY <2>1, RunHasID, EtcdAssumption DEF ListedInv, OneListingInterval, NoServers
<1>2. MembershipTypeOK /\ EtcdInv /\ EtcdInv' /\ RegistryInv /\ ListedInv /\ OneListingInterval
        /\ [ClusterNext]_clusterVars => ListedInv' /\ OneListingInterval'
  <2> SUFFICES ASSUME MembershipTypeOK, EtcdInv, EtcdInv', RegistryInv, ListedInv,
                      OneListingInterval, [ClusterNext]_clusterVars
               PROVE  ListedInv' /\ OneListingInterval'
    OBVIOUS
  <2>1. CASE \E p \in Proc : (ManagerStep(p) \/ LCStep(p)) /\ Publish
    BY <2>1, IntervalStep
  <2>2. CASE UNCHANGED <<etcdVars, hist>>
    BY <2>2 DEF etcdVars, ListedInv, OneListingInterval
  <2>3. CASE \E g \in Gateway : RegistryStep(g) /\ UNCHANGED membershipVars
    <3>1. UNCHANGED <<etcdVars, hist>>
      BY <2>3 DEF membershipVars, RegistryStep, GetServers, GetServersFails, StartWatch,
                  WatchEvent, WatchCanceled, WatchCloses, CloseRegistry
    <3> QED
      BY <2>2, <3>1
  <2>4. CASE UNCHANGED clusterVars
    BY <2>2, <2>4 DEF clusterVars, membershipVars, registryVars
  <2> QED
    BY <2>1, <2>3, <2>4, ClusterStep
<1> QED
  BY <1>1, <1>2, ClusterEtcdInv, ClusterRegistryInv, PTL DEF ClusterSafety
-----------------------------------------------------------------------------
(* What the gateways make of it *)

\* A revision before the one gateway g shows has listed run p.
Outdated(g, p) == \E i \in 1 .. Len(hist) : i < reg[g].next - 1 /\ hist[i].kv[IDOf[p]] = p

\* No event the watch still has to deliver brings back a run that was listed
\* before the revision the gateway shows, and is not in it.
ForgottenForGood ==
  \A g \in Gateway, p \in Proc :
    Loaded(g) /\ Outdated(g, p) /\ ~Shows(g, p)
      => \A k \in 1 .. Len(hist) : k > reg[g].next - 1 => hist[k].kv[IDOf[p]] # p

\* From the manager to the map of a gateway: once watchForUpdates (registry.go)
\* has taken a run out, neither its process nor a delayed Put of it puts it back.
THEOREM GatewaysForgetForGood == ~AllowOverlap /\ ClusterSafety => []ForgottenForGood
<1>1. ReflectsRevision /\ OneListingInterval => ForgottenForGood
  BY DEF ReflectsRevision, OneListingInterval, ForgottenForGood, Outdated, Shows
<1> QED
  BY <1>1, ClusterShowsOneRevision, RunsAreListedOnce, PTL
=============================================================================

--------------------------- MODULE RegistryProofs ---------------------------
(***************************************************************************)
(* Theorems about the server registry of a gateway, for any number of      *)
(* servers, gateways and revisions.                                        *)
(***************************************************************************)
EXTENDS ServerRegistry, SequenceTheorems, TLAPS

\* Each revision changes the key it names and no other, and etcd holds the last.
HistoryInv == /\ Current = kv
              /\ \A i \in 1 .. Len(hist) - 1 :
                   LET e == hist[i + 1]
                   IN  e.kv = [hist[i].kv EXCEPT ![e.id] = e.kv[e.id]]

\* A run is listed under its own ID only.
OwnKey == \A s \in ServerID : kv[s] # NoProc => IDOf[kv[s]] = s

RegistryInv == EtcdTypeOK /\ OwnKey /\ RegistryTypeOK /\ HistoryInv /\ ReflectsRevision

Entry == [id : ServerID, kv : Listing]

LEMMA EntryType ==
  ASSUME RegistryTypeOK, NEW i \in 1 .. Len(hist)
  PROVE  /\ hist[i] \in Entry
         /\ hist[i].id \in ServerID /\ hist[i].kv \in Listing
<1>1. hist \in Seq(Entry)
  BY DEF RegistryTypeOK, Entry
<1>2. hist[i] \in Entry
  BY <1>1
<1> QED
  BY <1>2 DEF Entry

\* Etcd's types are preserved by its three operations.
LEMMA EtcdStepType ==
  ASSUME EtcdTypeOK, NEW p \in Proc, Grant(p) \/ PutWithLease(p) \/ DropLease(p)
  PROVE  EtcdTypeOK'
<1> USE DEF EtcdTypeOK
<1>1. CASE Grant(p)
  BY <1>1 DEF Grant
<1>2. CASE PutWithLease(p)
  BY <1>2, EtcdAssumption DEF PutWithLease
<1>3. CASE DropLease(p)
  BY <1>3 DEF DropLease
<1> QED
  BY <1>1, <1>2, <1>3

LEMMA RegistryInitInv == EtcdInit /\ RegistryInit => RegistryInv
<1> SUFFICES ASSUME EtcdInit, RegistryInit PROVE RegistryInv
  OBVIOUS
<1> PICK s \in ServerID : hist = <<[id |-> s, kv |-> NoServers]>>
  BY DEF RegistryInit
<1>1. EtcdTypeOK
  BY DEF EtcdInit, EtcdTypeOK
<1>2. RegistryTypeOK
  BY DEF RegistryInit, RegistryTypeOK, RegistryState, Listing, NoServers
<1>3. HistoryInv
  BY DEF HistoryInv, Current, EtcdInit, NoServers
<1>4. ReflectsRevision /\ OwnKey
  BY DEF RegistryInit, ReflectsRevision, Loaded, EtcdInit, OwnKey
<1> QED
  BY <1>1, <1>2, <1>3, <1>4 DEF RegistryInv

\* A revision for the key of p extends the history and keeps its old part.
LEMMA RevisionStep ==
  ASSUME RegistryInv, NEW p \in Proc, Revision(IDOf[p]), EtcdTypeOK', OwnKey', UNCHANGED reg,
         kv' = [kv EXCEPT ![IDOf[p]] = kv'[IDOf[p]]]
  PROVE  RegistryInv'
<1> USE DEF RegistryInv
<1> DEFINE e == [id |-> IDOf[p], kv |-> kv']
<1>1. e \in Entry /\ hist \in Seq(Entry) /\ hist' = Append(hist, e)
  BY EtcdAssumption DEF Entry, Listing, EtcdTypeOK, RegistryTypeOK, Revision
<1>2. /\ hist' \in Seq(Entry)
      /\ Len(hist') = Len(hist) + 1
      /\ hist'[Len(hist) + 1] = e
      /\ \A i \in 1 .. Len(hist) : hist'[i] = hist[i]
      /\ Len(hist) \in Nat /\ Len(hist) >= 1
  BY <1>1 DEF RegistryTypeOK
<1>3. RegistryTypeOK'
  BY <1>2 DEF RegistryTypeOK, Entry
<1>4. HistoryInv'
  <2>1. Current' = kv'
    BY <1>2 DEF Current
  <2>2. hist[Len(hist)].kv = kv
    BY DEF HistoryInv, Current
  <2> SUFFICES ASSUME NEW i \in 1 .. Len(hist)
               PROVE  LET d == hist'[i + 1]
                      IN  d.kv = [hist'[i].kv EXCEPT ![d.id] = d.kv[d.id]]
    BY <1>2, <2>1 DEF HistoryInv
  <2>3. CASE i = Len(hist)
    BY <1>2, <2>2, <2>3
  <2>4. CASE i # Len(hist)
    <3>1. i \in 1 .. Len(hist) - 1 /\ i + 1 \in 1 .. Len(hist)
      BY <1>2, <2>4
    <3> QED
      BY <1>2, <3>1 DEF HistoryInv
  <2> QED
    BY <2>3, <2>4
<1>5. ReflectsRevision'
  BY <1>2 DEF ReflectsRevision, Loaded
<1> QED
  BY <1>3, <1>4, <1>5

LEMMA EtcdStepInv ==
  ASSUME RegistryInv, NEW p \in Proc, EtcdChanges(p), UNCHANGED reg
  PROVE  RegistryInv'
<1> USE DEF RegistryInv
<1>1. EtcdTypeOK' /\ OwnKey'
  BY EtcdStepType, EtcdAssumption DEF EtcdChanges, OwnKey, Grant, PutWithLease, DropLease, EtcdTypeOK
<1>2. CASE UNCHANGED <<kv, hist>>
  BY <1>1, <1>2 DEF RegistryTypeOK, HistoryInv, Current, ReflectsRevision, Loaded
<1>3. CASE Revision(IDOf[p]) /\ kv' = [kv EXCEPT ![IDOf[p]] = kv'[IDOf[p]]]
  BY <1>1, <1>3, RevisionStep
<1>4. CASE PutWithLease(p) /\ Revision(IDOf[p])
  BY <1>3, <1>4, EtcdAssumption DEF PutWithLease, EtcdTypeOK
<1>5. CASE kv[IDOf[p]] = p /\ DropLease(p) /\ Revision(IDOf[p])
  <2>1. kv' = [kv EXCEPT ![IDOf[p]] = kv'[IDOf[p]]]
    BY <1>5, EtcdAssumption DEF DropLease, EtcdTypeOK, OwnKey
  <2> QED
    BY <1>3, <1>5, <2>1
<1>6. CASE kv[IDOf[p]] # p /\ DropLease(p) /\ UNCHANGED hist
  <2>1. kv' = kv
    BY <1>6, EtcdAssumption DEF DropLease, EtcdTypeOK, OwnKey
  <2> QED
    BY <1>2, <1>6, <2>1
<1> QED
  BY <1>2, <1>4, <1>5, <1>6 DEF EtcdChanges, Grant

\* What a gateway shows after the next event is the next revision.
LEMMA RegistryStepInv ==
  ASSUME RegistryInv, NEW g \in Gateway, RegistryStep(g), UNCHANGED etcdVars
  PROVE  RegistryInv'
<1> USE DEF RegistryInv
<1>1. hist' = hist
  BY DEF RegistryStep, GetServers, GetServersFails, StartWatch, WatchEvent, WatchCanceled,
         WatchCloses, CloseRegistry
<1>2. EtcdTypeOK' /\ OwnKey' /\ HistoryInv'
  BY <1>1 DEF etcdVars, EtcdTypeOK, OwnKey, HistoryInv, Current
<1>3. Len(hist) \in Nat /\ Len(hist) \in 1 .. Len(hist)
  BY DEF RegistryTypeOK
<1> DEFINE Good(r) == /\ r \in RegistryState
                      /\ r.phase \notin {"new", "failed"} => /\ r.next - 1 \in 1 .. Len(hist)
                                                            /\ r.servers = hist[r.next - 1].kv
<1>4. \A h \in Gateway : Good(reg[h])
  BY DEF RegistryTypeOK, ReflectsRevision, Loaded
<1>5. reg \in [Gateway -> RegistryState]
  BY DEF RegistryTypeOK
<1>6. ASSUME NEW r, Good(r), reg' = [reg EXCEPT ![g] = r]
      PROVE  RegistryInv'
  BY <1>1, <1>2, <1>4, <1>5, <1>6 DEF RegistryTypeOK, ReflectsRevision, Loaded
<1>7. CASE GetServers(g)
  <2> DEFINE r == [reg[g] EXCEPT !.phase = "got", !.servers = Current, !.next = Len(hist) + 1]
  <2>1. Current \in Listing
    BY <1>3, EntryType DEF Current
  <2>2. r \in RegistryState /\ r.next = Len(hist) + 1 /\ r.servers = Current
    <3>1. reg[g] \in RegistryState /\ Len(hist) + 1 \in Nat
      BY <1>3, <1>5
    <3>2. ASSUME NEW m \in Listing, NEW i \in Nat
          PROVE  LET x == [reg[g] EXCEPT !.phase = "got", !.servers = m, !.next = i]
                 IN  x \in RegistryState /\ x.next = i /\ x.servers = m
      BY <3>1 DEF RegistryState
    <3> QED
      BY <2>1, <3>1, <3>2
  <2>3. (Len(hist) + 1) - 1 = Len(hist)
    BY <1>3
  <2>4. Good(r)
    BY <1>3, <2>2, <2>3 DEF Current
  <2>5. reg' = [reg EXCEPT ![g] = r]
    BY <1>7 DEF GetServers
  <2> QED
    BY <1>6, <2>4, <2>5
<1>8. CASE WatchEvent(g)
  <2> DEFINE n == reg[g].next
             e == hist[n]
             m == [reg[g].servers EXCEPT ![e.id] = e.kv[e.id]]
             r == [reg[g] EXCEPT !.servers = m, !.next = n + 1]
  <2>1. /\ n \in Nat /\ n - 1 \in 1 .. Len(hist) - 1
        /\ reg[g].servers = hist[n - 1].kv
        /\ reg[g].phase = "watching"
    BY <1>3, <1>4, <1>8 DEF WatchEvent, RegistryState
  <2>2. n \in 1 .. Len(hist) /\ (n - 1) + 1 = n /\ (n + 1) - 1 = n /\ n + 1 \in Nat
    BY <1>3, <2>1
  <2>3. e.kv = [hist[n - 1].kv EXCEPT ![e.id] = e.kv[e.id]]
    BY <2>1, <2>2 DEF HistoryInv
  <2>4. m = e.kv
    BY <2>1, <2>3
  <2>5. m \in Listing
    BY <2>2, <2>4, EntryType
  <2>6. r \in RegistryState /\ r.servers = m /\ r.next = n + 1 /\ r.phase = "watching"
    <3> HIDE DEF m, n
    <3>1. reg[g] \in RegistryState
      BY <1>4
    <3> QED
      BY <2>1, <2>2, <2>5, <3>1 DEF RegistryState
  <2>7. Good(r)
    <3> HIDE DEF m, r
    <3> QED
      BY <2>2, <2>4, <2>6
  <2>8. reg' = [reg EXCEPT ![g] = r]
    BY <1>5, <1>8 DEF WatchEvent, ApplyPut, ApplyDelete
  <2> HIDE DEF r
  <2> QED
    BY <1>6, <2>7, <2>8
<1>9. CASE GetServersFails(g)
  <2> DEFINE r == [reg[g] EXCEPT !.phase = "failed", !.closeCh = TRUE]
  <2>1. Good(r)
    BY <1>4 DEF RegistryState
  <2> QED
    BY <1>6, <1>9, <2>1 DEF GetServersFails
<1>10. CASE CloseRegistry(g)
  <2> DEFINE r == [reg[g] EXCEPT !.closeCh = TRUE]
  <2>1. Good(r)
    BY <1>4 DEF RegistryState
  <2> QED
    BY <1>6, <1>10, <2>1 DEF CloseRegistry
<1>11. ASSUME NEW ph \in {"watching", "canceled", "closed"}, reg[g].phase \notin {"new", "failed"},
              reg' = [reg EXCEPT ![g].phase = ph]
       PROVE  RegistryInv'
  <2> DEFINE r == [reg[g] EXCEPT !.phase = ph]
  <2>1. Good(r)
    BY <1>4, <1>11 DEF RegistryState
  <2> QED
    BY <1>6, <1>11, <2>1
<1> QED
  BY <1>7, <1>8, <1>9, <1>10, <1>11 DEF RegistryStep, StartWatch, WatchCanceled, WatchCloses

LEMMA RegistryInvHolds == RegistrySafety => []RegistryInv
<1>1. RegistryInv /\ [RegistryNext]_<<etcdVars, registryVars>> => RegistryInv'
  <2> SUFFICES ASSUME RegistryInv, [RegistryNext]_<<etcdVars, registryVars>>
               PROVE  RegistryInv'
    OBVIOUS
  <2>1. CASE RegistryNext
    BY <2>1, EtcdStepInv, RegistryStepInv DEF RegistryNext
  <2>2. CASE UNCHANGED <<etcdVars, registryVars>>
    BY <2>2 DEF etcdVars, registryVars, RegistryInv, EtcdTypeOK, OwnKey, RegistryTypeOK, HistoryInv,
                Current, ReflectsRevision, Loaded
  <2> QED
    BY <2>1, <2>2
<1> QED
  BY <1>1, RegistryInitInv, PTL DEF RegistrySafety, WatchedInit

\* Type correctness of the registry and of the history it reads.
THEOREM RegistryTypes == RegistrySafety => []RegistryTypeOK
  BY RegistryInvHolds, PTL DEF RegistryInv

\* A registry never shows a mixture of revisions: its Get and the events of a
\* watch WithRev(Get's revision + 1) add up to the prefix at one revision.
THEOREM RegistryShowsOneRevision == RegistrySafety => []ReflectsRevision
  BY RegistryInvHolds, PTL DEF RegistryInv
-----------------------------------------------------------------------------
(* Refinement *)

Versions == [i \in 1 .. Len(hist) |-> hist[i].kv]
Seen == [g \in Gateway |-> IF Loaded(g) THEN reg[g].next - 1 ELSE 0]
Servers == [g \in Gateway |-> reg[g].servers]

LEMMA VersionsType ==
  ASSUME RegistryTypeOK
  PROVE  /\ Versions \in Seq(Listing) /\ Len(Versions) = Len(hist) /\ Len(hist) \in Nat
         /\ \A i \in 1 .. Len(hist) : Versions[i] = hist[i].kv
<1>1. Len(hist) \in Nat
  BY DEF RegistryTypeOK
<1>2. \A i \in 1 .. Len(hist) : hist[i].kv \in Listing
  BY EntryType
<1> QED
  BY <1>1, <1>2, IsASeq DEF Versions

LEMMA EtcdStepRefines ==
  ASSUME RegistryInv, RegistryInv', NEW p \in Proc, EtcdChanges(p), UNCHANGED reg
  PROVE  [Copy!ReplicaNext]_(Copy!replicaVars)
<1> USE DEF RegistryInv
<1>1. Seen' = Seen /\ Servers' = Servers
  BY DEF Seen, Servers, Loaded
<1>2. CASE UNCHANGED hist
  BY <1>1, <1>2 DEF Copy!replicaVars, Seen, Servers, Loaded
<1>3. CASE Revision(IDOf[p])
  <2> DEFINE e == [id |-> IDOf[p], kv |-> kv']
  <2>1. kv' \in Listing /\ e \in Entry /\ hist \in Seq(Entry) /\ hist' = Append(hist, e)
    BY <1>3, EtcdAssumption DEF EtcdTypeOK, Listing, Entry, RegistryTypeOK, Revision
  <2>2. /\ Len(hist') = Len(hist) + 1
        /\ \A i \in 1 .. Len(hist) : hist'[i] = hist[i]
        /\ hist'[Len(hist) + 1] = e
    BY <2>1
  <2>3. /\ Versions' \in Seq(Listing) /\ Len(Versions') = Len(hist')
        /\ \A i \in 1 .. Len(hist') : Versions'[i] = hist'[i].kv
    BY <2>2, VersionsType, EntryType, IsASeq DEF Versions, RegistryTypeOK
  <2>4. /\ Append(Versions, kv') \in Seq(Listing)
        /\ Len(Append(Versions, kv')) = Len(hist) + 1
        /\ \A i \in 1 .. Len(hist) : Append(Versions, kv')[i] = hist[i].kv
        /\ Append(Versions, kv')[Len(hist) + 1] = kv'
    BY <2>1, VersionsType
  <2>5. \A i \in 1 .. Len(hist') : Versions'[i] = Append(Versions, kv')[i]
    BY <2>2, <2>3, <2>4, VersionsType
  <2>6. Versions' = Append(Versions, kv')
    BY <2>2, <2>3, <2>4, <2>5, SeqEqual
  <2>7. Copy!ReplicaWrite
    BY <1>1, <2>1, <2>6 DEF Copy!ReplicaWrite, Versions, Seen, Servers, Loaded, Listing
  <2> QED
    BY <2>7 DEF Copy!ReplicaNext
<1> QED
  BY <1>2, <1>3 DEF EtcdChanges

\* What the two steps that change the map do to the other fields.
LEMMA LoadStep ==
  ASSUME reg \in [Gateway -> RegistryState], NEW g \in Gateway, GetServers(g)
  PROVE  /\ reg[g].phase = "new"
         /\ reg'[g].phase = "got"
         /\ reg'[g].next = Len(hist) + 1
         /\ \A h \in Gateway \ {g} : reg'[h] = reg[h]
<1> DEFINE r == [reg[g] EXCEPT !.phase = "got", !.servers = Current, !.next = Len(hist) + 1]
<1>1. reg[g].phase = "new" /\ reg' = [reg EXCEPT ![g] = r]
  BY DEF GetServers
<1>2. r.phase = "got" /\ r.next = Len(hist) + 1
  BY DEF RegistryState
<1> HIDE DEF r
<1> QED
  BY <1>1, <1>2

LEMMA EventStep ==
  ASSUME reg \in [Gateway -> RegistryState], NEW g \in Gateway, WatchEvent(g)
  PROVE  /\ reg[g].phase = "watching" /\ reg[g].next <= Len(hist)
         /\ reg'[g].phase = "watching"
         /\ reg'[g].next = reg[g].next + 1
         /\ \A h \in Gateway \ {g} : reg'[h] = reg[h]
<1>1. PICK m : reg' = [reg EXCEPT ![g] = [reg[g] EXCEPT !.servers = m, !.next = reg[g].next + 1]]
  <2>1. PICK s, v : reg' = [reg EXCEPT ![g].servers[s] = v, ![g].next = @ + 1]
    BY DEF WatchEvent, ApplyPut, ApplyDelete
  <2>2. reg' = [reg EXCEPT ![g] = [reg[g] EXCEPT !.servers = [reg[g].servers EXCEPT ![s] = v],
                                                 !.next = reg[g].next + 1]]
    BY <2>1
  <2> QED
    BY <2>2
<1> DEFINE r == [reg[g] EXCEPT !.servers = m, !.next = reg[g].next + 1]
<1>2. r.phase = reg[g].phase /\ r.next = reg[g].next + 1
  BY DEF RegistryState
<1>3. reg' = [reg EXCEPT ![g] = r] /\ reg[g].phase = "watching" /\ reg[g].next <= Len(hist)
  BY <1>1 DEF WatchEvent
<1> HIDE DEF r
<1> QED
  BY <1>2, <1>3

LEMMA RegistryStepRefines ==
  ASSUME RegistryInv, RegistryInv', NEW g \in Gateway, RegistryStep(g), UNCHANGED etcdVars
  PROVE  [Copy!ReplicaNext]_(Copy!replicaVars)
<1> USE DEF RegistryInv
<1>1. hist' = hist /\ Versions' = Versions
  BY DEF Versions, RegistryStep, GetServers, GetServersFails, StartWatch, WatchEvent,
         WatchCanceled, WatchCloses, CloseRegistry
<1>2. reg \in [Gateway -> RegistryState] /\ reg' \in [Gateway -> RegistryState]
  BY DEF RegistryTypeOK
<1>3. CASE GetServers(g) \/ WatchEvent(g)
  <2> DEFINE n == reg'[g].next - 1
  <2>1. /\ reg'[g].phase \notin {"new", "failed"}
        /\ \A h \in Gateway \ {g} : reg'[h] = reg[h]
    BY <1>2, <1>3, LoadStep, EventStep
  <2>2. n \in 1 .. Len(hist) /\ reg'[g].servers = Versions[n]
    BY <1>1, <2>1, VersionsType DEF ReflectsRevision, Loaded
  <2>3. Seen' = [Seen EXCEPT ![g] = n] /\ Servers' = [Servers EXCEPT ![g] = Versions[n]]
    BY <2>1, <2>2 DEF Seen, Servers, Loaded
  <2>4. Copy!Show(g, n)
    BY <1>1, <2>3 DEF Copy!Show, Versions, Seen, Servers, Loaded
  <2>5. CASE GetServers(g)
    <3>1. reg[g].phase = "new" /\ reg'[g].next = Len(hist) + 1
      BY <1>2, <2>5, LoadStep
    <3>2. Seen[g] = 0
      BY <3>1 DEF Seen, Loaded
    <3>3. n = Len(Versions)
      BY <3>1, VersionsType
    <3>4. Copy!Show(g, Len(Versions))
      BY <2>4, <3>3 DEF Copy!Show
    <3>5. Copy!ReplicaLoad(g)
      BY <3>2, <3>4 DEF Copy!ReplicaLoad, Versions, Seen
    <3> QED
      BY <3>5 DEF Copy!ReplicaNext
  <2>6. CASE WatchEvent(g)
    <3>1. /\ reg[g].phase = "watching" /\ reg[g].next <= Len(hist)
          /\ reg'[g].next = reg[g].next + 1
      BY <1>2, <2>6, EventStep
    <3>2. Seen[g] = reg[g].next - 1
      BY <3>1 DEF Seen, Loaded
    <3>3. reg[g].next - 1 \in 1 .. Len(hist) /\ reg[g].next \in Nat
      BY <1>2, <3>1 DEF Loaded, ReflectsRevision, RegistryState
    <3>4. Seen[g] # 0 /\ Seen[g] < Len(Versions) /\ n = Seen[g] + 1
      BY <3>1, <3>2, <3>3, VersionsType
    <3>5. Copy!Show(g, Seen[g] + 1)
      BY <2>4, <3>4 DEF Copy!Show
    <3>6. Copy!ReplicaAdvance(g)
      BY <3>4, <3>5 DEF Copy!ReplicaAdvance, Versions, Seen
    <3> QED
      BY <3>6 DEF Copy!ReplicaNext
  <2> QED
    BY <1>3, <2>5, <2>6
<1>4. CASE \/ GetServersFails(g) \/ StartWatch(g) \/ WatchCanceled(g)
           \/ WatchCloses(g) \/ CloseRegistry(g)
  <2>1. \A h \in Gateway : /\ reg'[h].servers = reg[h].servers /\ reg'[h].next = reg[h].next
                           /\ Loaded(h)' = Loaded(h)
    BY <1>2, <1>4 DEF GetServersFails, StartWatch, WatchCanceled, WatchCloses, CloseRegistry,
                      RegistryState, Loaded
  <2>2. Seen' = Seen /\ Servers' = Servers
    BY <2>1 DEF Seen, Servers
  <2> QED
    BY <1>1, <2>2 DEF Copy!replicaVars, Versions, Seen, Servers, Loaded
<1> QED
  BY <1>3, <1>4 DEF RegistryStep

LEMMA RegistryStartsEmpty == EtcdInit /\ RegistryInit => Copy!ReplicaInit
<1> SUFFICES ASSUME EtcdInit, RegistryInit PROVE Copy!ReplicaInit
  OBVIOUS
<1> PICK s \in ServerID : hist = <<[id |-> s, kv |-> NoServers]>>
  BY DEF RegistryInit
<1>1. Versions = <<NoServers>>
  BY DEF Versions
<1> QED
  BY <1>1 DEF RegistryInit, Copy!ReplicaInit, Versions, Loaded, NoServers

\* The registry implements a copy that is loaded whole and then moves one
\* revision at a time: it never skips, repeats or goes back to a revision.
THEOREM RegistryImplementsReplica == RegistrySafety => ImplementsReplica
<1>1. RegistryInv /\ RegistryInv' /\ [RegistryNext]_<<etcdVars, registryVars>>
        => [Copy!ReplicaNext]_(Copy!replicaVars)
  <2> SUFFICES ASSUME RegistryInv, RegistryInv', [RegistryNext]_<<etcdVars, registryVars>>
               PROVE  [Copy!ReplicaNext]_(Copy!replicaVars)
    OBVIOUS
  <2>1. CASE RegistryNext
    BY <2>1, EtcdStepRefines, RegistryStepRefines DEF RegistryNext
  <2>2. CASE UNCHANGED <<etcdVars, registryVars>>
    BY <2>2 DEF etcdVars, registryVars, Copy!replicaVars, Loaded
  <2> QED
    BY <2>1, <2>2
<1> QED
  BY <1>1, RegistryStartsEmpty, RegistryInvHolds, PTL DEF RegistrySafety, WatchedInit, ImplementsReplica, Copy!ReplicaSpec
=============================================================================

-------------------------------- MODULE Etcd --------------------------------
(***************************************************************************)
(* The part of etcd the event servers rely on, as src/pkg/etcd and         *)
(* src/pkg/eventserver/membership use it: leases, and keys under           *)
(* "/event_servers/" attached to a lease.  etcd itself is not in the       *)
(* repository; everything here is external.                                *)
(*                                                                         *)
(* An element of Proc is one run of an event-server process.  A process    *)
(* asks for one lease in its life (LeasedClient.Start is called once), so  *)
(* the lease of p is named p, and a process writes only its own record     *)
(* under its own server ID, so the value "written by p" is named p too.    *)
(***************************************************************************)
EXTENDS Naturals

CONSTANTS
  Proc,      \* runs of event-server processes
  ServerID,  \* the serverID of the configuration: the key's last component
  IDOf,      \* the serverID each run is configured with
  NoProc     \* the value of an absent key

ASSUME EtcdAssumption == /\ IDOf \in [Proc -> ServerID]
                         /\ NoProc \notin Proc

VARIABLES
  granted,   \* leases etcd has ever granted
  leases,    \* leases that exist now
  kv         \* /event_servers/<id>: the run that wrote it, or NoProc

etcdVars == <<granted, leases, kv>>

EtcdTypeOK == /\ granted \in SUBSET Proc
              /\ leases \in SUBSET granted
              /\ kv \in [ServerID -> Proc \cup {NoProc}]

EtcdInit == /\ granted = {}
            /\ leases = {}
            /\ kv = [s \in ServerID |-> NoProc]

\* lease.Grant: a lease identifier is never given out twice.
Grant(p) == /\ p \notin granted
            /\ granted' = granted \cup {p}
            /\ leases' = leases \cup {p}
            /\ UNCHANGED kv

\* Seeded faults (used only to show that a property notices them): the Put
\* forgets WithLease; the record is not the one of its writer.
FaultPutWithoutLease(p) == /\ kv' = [kv EXCEPT ![IDOf[p]] = p]
                           /\ UNCHANGED <<granted, leases>>
FaultPutForeignRecord(p) == /\ p \in leases
                            /\ kv' = [kv EXCEPT ![IDOf[p]] = IDOf[p]]
                            /\ UNCHANGED <<granted, leases>>

\* client.Put with clientv3.WithLease: refused when the lease does not exist;
\* it detaches the key from the lease of an earlier writer.
PutWithLease(p) == /\ p \in leases
                   /\ kv' = [kv EXCEPT ![IDOf[p]] = p]
                   /\ UNCHANGED <<granted, leases>>

\* The lease ends, by Revoke or by expiry, and the key attached to it is
\* deleted in the same revision.  No effect on a lease that is gone already.
DropLease(p) == /\ leases' = leases \ {p}
                /\ kv' = [s \in ServerID |-> IF kv[s] = p THEN NoProc ELSE kv[s]]
                /\ UNCHANGED granted
=============================================================================

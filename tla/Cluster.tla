------------------------------ MODULE Cluster ------------------------------
(***************************************************************************)
(* Event servers and gateways around one etcd: the runs of Membership      *)
(* write the records, the registries of ServerRegistry read them.  What    *)
(* passes between them is the revision history: whatever step changes the  *)
(* listings, of a manager, of a lease or of a request that arrives late,   *)
(* makes one revision.  (A refresh that rewrites the same record makes one *)
(* in etcd too; here it does not, as its event changes no registry.)       *)
(***************************************************************************)
EXTENDS Membership, ServerRegistry

clusterVars == <<membershipVars, registryVars>>

ClusterInit == MembershipInit /\ RegistryInit

Publish == IF kv' = kv THEN UNCHANGED hist
                       ELSE \E s \in ServerID : kv'[s] # kv[s] /\ Revision(s)

ClusterNext == \/ MembershipNext /\ Publish /\ UNCHANGED reg
               \/ \E g \in Gateway : RegistryStep(g) /\ UNCHANGED membershipVars

ClusterSafety == ClusterInit /\ [][ClusterNext]_clusterVars

ClusterSpec == ClusterSafety /\ RefreshFairness /\ ProcessFairness /\ RegistryFairness
-----------------------------------------------------------------------------
InUse(g) == Loaded(g) /\ reg[g].phase # "canceled" /\ ~reg[g].closeCh
Shows(g, p) == reg[g].servers[IDOf[p]] = p

\* Without overlapping runs, the history lists every run during one interval:
\* once the record of a run is gone, by a revoked or an expired lease or
\* overwritten by its successor, no delayed request brings it back.
OneListingInterval ==
  \A p \in Proc : \A i, j, k \in 1 .. Len(hist) :
     i < j /\ j < k /\ hist[i].kv[IDOf[p]] = p /\ hist[k].kv[IDOf[p]] = p
        => hist[j].kv[IDOf[p]] = p

\* The end of a run reaches every gateway in use, by Revoke or by expiry, and
\* stays reached: no gateway hands the dead server out for ever.
DeadUnlisted ==
  \A g \in Gateway, p \in Proc :
    proc[p] = "dead" ~> [](~InUse(g) \/ ~Shows(g, p))

\* A server that stays in the cluster is found by every gateway in use.
ServingIsFound ==
  \A g \in Gateway, p \in Proc :
    Serving(p) /\ Advertised(p) ~> ~InUse(g) \/ Shows(g, p) \/ ~Serving(p)
=============================================================================

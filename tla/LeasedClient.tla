---------------------------- MODULE LeasedClient ----------------------------
(***************************************************************************)
(* pkg/etcd/lease.go: one LeasedClient per event-server process.           *)
(*                                                                         *)
(* lc[p] is the client of process p.  Its fields are those of the struct   *)
(* (leaseOK, leaseLostCh and closeCh as "is closed"), the state of the     *)
(* channel lease.KeepAlive returned (kaCh), and where its goroutines are:  *)
(* start for Start, keepAlive for the keep-alive goroutine, close for      *)
(* Close.  Only steps between two network calls or channel operations are  *)
(* atomic: mu protects leaseOK alone and is never held across a call after *)
(* Start has returned.                                                     *)
(***************************************************************************)
EXTENDS Etcd

VARIABLES
  lc,        \* the LeasedClient of each process
  proc       \* "down" before it is launched, "up", "dead" once it has ended

lcVars == <<lc, proc>>

ProcState == {"down", "up", "dead"}

LeasedClientState ==
  [start       : {"new", "started", "failed"},
   leaseOK     : BOOLEAN,
   kaCh        : {"nil", "open", "closed"},
   keepAlive   : {"none", "select", "revoke", "notify", "returned"},
   leaseLostCh : BOOLEAN,
   closeCh     : BOOLEAN,
   close       : {"none", "waiting", "ok", "timeout"}]

LCTypeOK == /\ lc \in [Proc -> LeasedClientState]
            /\ proc \in [Proc -> ProcState]

\* NewLeasedClient
NewLeasedClient == [start |-> "new", leaseOK |-> FALSE, kaCh |-> "nil",
                    keepAlive |-> "none", leaseLostCh |-> FALSE,
                    closeCh |-> FALSE, close |-> "none"]

LCInit == /\ lc = [p \in Proc |-> NewLeasedClient]
          /\ proc = [p \in Proc |-> "down"]

Up(p) == proc[p] = "up"
-----------------------------------------------------------------------------
(* Start, lines 45-66 *)

\* Grant and KeepAlive succeed; the keep-alive goroutine is launched.
StartLease(p) ==
  /\ lc[p].start = "new"
  /\ Grant(p)
  /\ lc' = [lc EXCEPT ![p].start = "started", ![p].leaseOK = TRUE,
                      ![p].kaCh = "open", ![p].keepAlive = "select"]

\* Grant fails, with or without a lease left at etcd (its answer may be the
\* thing that was lost), or KeepAlive fails after Grant: nobody revokes it.
StartLeaseFails(p) ==
  /\ lc[p].start = "new"
  /\ Grant(p) \/ UNCHANGED etcdVars
  /\ lc' = [lc EXCEPT ![p].start = "failed"]
-----------------------------------------------------------------------------
(* The keep-alive goroutine, keepAlive and invalidateLease, lines 72-105.  *)
(* A response on kaCh only makes it loop, so no step stands for it.        *)

\* It leaves its select and invalidates the lease, which is guarded by leaseOK.
KeepAliveEnds(p) ==
  /\ Up(p)
  /\ lc[p].keepAlive = "select"
  /\ lc[p].closeCh \/ lc[p].kaCh = "closed"
  /\ lc' = [lc EXCEPT ![p].leaseOK = FALSE,
                      ![p].keepAlive = IF lc[p].leaseOK THEN "revoke" ELSE "returned"]
  /\ UNCHANGED <<etcdVars, proc>>

\* lease.Revoke succeeds: only for a lease that still exists.
RevokeSucceeds(p) ==
  /\ Up(p)
  /\ lc[p].keepAlive = "revoke"
  /\ p \in leases
  /\ DropLease(p)
  /\ lc' = [lc EXCEPT ![p].keepAlive = "notify"]
  /\ UNCHANGED proc

\* Seeded fault: leaseLostCh is closed whatever Revoke answered.
FaultNotifyAnyway(p) ==
  /\ Up(p)
  /\ lc[p].keepAlive = "revoke"
  /\ DropLease(p) \/ UNCHANGED etcdVars
  /\ lc' = [lc EXCEPT ![p].keepAlive = "notify"]
  /\ UNCHANGED proc

\* lease.Revoke fails: the lease is not found, or the request or its answer
\* was lost.  The goroutine logs and returns without closing leaseLostCh.
RevokeFails(p) ==
  /\ Up(p)
  /\ lc[p].keepAlive = "revoke"
  /\ DropLease(p) \/ UNCHANGED etcdVars
  /\ lc' = [lc EXCEPT ![p].keepAlive = "returned"]
  /\ UNCHANGED proc

\* close(c.leaseLostCh)
NotifyLost(p) ==
  /\ Up(p)
  /\ lc[p].keepAlive = "notify"
  /\ lc' = [lc EXCEPT ![p].keepAlive = "returned", ![p].leaseLostCh = TRUE]
  /\ UNCHANGED <<etcdVars, proc>>
-----------------------------------------------------------------------------
(* Close, lines 107-116 *)

CloseLease(p) ==
  /\ Up(p)
  /\ lc[p].close = "none"
  /\ lc' = [lc EXCEPT ![p].closeCh = TRUE, ![p].close = "waiting"]
  /\ UNCHANGED <<etcdVars, proc>>

\* Seeded fault: Close does not wait for the lease to be revoked.
FaultCloseDoesNotWait(p) ==
  /\ Up(p)
  /\ lc[p].close = "waiting"
  /\ lc' = [lc EXCEPT ![p].close = "ok"]
  /\ UNCHANGED <<etcdVars, proc>>

CloseLeaseReturns(p) ==
  /\ Up(p)
  /\ lc[p].close = "waiting"
  /\ lc[p].leaseLostCh
  /\ lc' = [lc EXCEPT ![p].close = "ok"]
  /\ UNCHANGED <<etcdVars, proc>>

\* ctx.Done() fires; the select may take it even when leaseLostCh is closed.
CloseLeaseTimesOut(p) ==
  /\ Up(p)
  /\ lc[p].close = "waiting"
  /\ lc' = [lc EXCEPT ![p].close = "timeout"]
  /\ UNCHANGED <<etcdVars, proc>>
-----------------------------------------------------------------------------
(* What the etcd client library and etcd do on their own *)

\* The library renews the lease as long as its channel is open, also after
\* the keep-alive goroutine has returned from a failed Revoke.
Renewing(p) == Up(p) /\ lc[p].kaCh = "open"

\* The library closes the channel: a renewal was answered "no such lease"
\* (p is not in leases), or none was answered for a TTL (it may still be).
KeepAliveChCloses(p) ==
  /\ Renewing(p)
  /\ lc' = [lc EXCEPT ![p].kaCh = "closed"]
  /\ UNCHANGED <<etcdVars, proc>>

\* No renewal reached etcd for a TTL: the process is cut off, stopped
\* renewing, or is dead.
LeaseExpires(p) ==
  /\ p \in leases
  /\ DropLease(p)
  /\ UNCHANGED lcVars
-----------------------------------------------------------------------------
LCStep(p) == \/ KeepAliveEnds(p)
             \/ RevokeSucceeds(p)
             \/ RevokeFails(p)
             \/ NotifyLost(p)
             \/ CloseLeaseReturns(p)
             \/ CloseLeaseTimesOut(p)
             \/ KeepAliveChCloses(p)
             \/ LeaseExpires(p)

\* The scheduler runs a goroutine that can run, every network call returns in
\* the end, and both the library and etcd notice a lease that is gone or not
\* renewed any more.
LCFairness(p) ==
  /\ WF_<<etcdVars, lcVars>>(KeepAliveEnds(p))
  /\ WF_<<etcdVars, lcVars>>(RevokeSucceeds(p) \/ RevokeFails(p))
  /\ WF_<<etcdVars, lcVars>>(NotifyLost(p))
  /\ WF_<<etcdVars, lcVars>>(CloseLeaseReturns(p) \/ CloseLeaseTimesOut(p))
  /\ WF_<<etcdVars, lcVars>>(p \notin leases /\ KeepAliveChCloses(p))
  /\ WF_<<etcdVars, lcVars>>(~Renewing(p) /\ LeaseExpires(p))
=============================================================================

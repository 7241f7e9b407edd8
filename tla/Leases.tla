------------------------------- MODULE Leases -------------------------------
(***************************************************************************)
(* The concurrency leases RateLimitService keeps in Redis: one key counts  *)
(* the holders, all of whom share its time to live.  A key that is gone    *)
(* reads as a count of zero.  The scripts run whole, so each is a function *)
(* of the key's state; time is counted in ticks.                           *)
(***************************************************************************)
EXTENDS Integers

CONSTANT LeaseTtl       \* ticks a lease outlives its last acquisition

ASSUME LeaseAssumption == LeaseTtl \in Nat \ {0}

Gone == [count |-> 0, ttl |-> 0]
Lease == [count : Nat, ttl : 0..LeaseTtl]

(* Mutant: the time to live is set by the first holder only, as the rate   *)
(* windows do it.                                                          *)
AcquiredKeepingTtl(lease) ==
    [count |-> lease.count + 1, ttl |-> IF lease.count = 0 THEN LeaseTtl ELSE lease.ttl]

(* One more holder; the time to live starts anew for all of them. *)
Acquired(lease) == [count |-> lease.count + 1, ttl |-> LeaseTtl]

(* Mutant: a refused holder keeps the lease alive. *)
RefusedButRenewed(lease) == [lease EXCEPT !.ttl = LeaseTtl]

(* Whoever is refused leaves the key as it is. *)
Refused(lease) == lease

(* The count does not say whose place it is: after the key has expired, a  *)
(* late holder gives back the place of another.                            *)
Released(lease) == IF lease.count <= 1 THEN Gone ELSE [lease EXCEPT !.count = @ - 1]

(* A tick of the clock. *)
Aged(lease) == IF lease.ttl <= 1 THEN Gone ELSE [lease EXCEPT !.ttl = @ - 1]
=============================================================================

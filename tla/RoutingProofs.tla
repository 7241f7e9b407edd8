---------------------------- MODULE RoutingProofs ----------------------------
(***************************************************************************)
(* What the leases keep, for every number of requests and providers, every *)
(* limit, and every time-out below the time to live: no more requests and  *)
(* calls in flight than the limits, and no call that outlasts its lease,   *)
(* until a lease expires under a holder.  What the windows that count      *)
(* requests let in, for every limit and length of a window.  And which     *)
(* rows the replicas work with, for every number of replicas and changes.  *)
(***************************************************************************)
EXTENDS Routing, RateWindows, Settings, AmountProofs, SequenceTheorems, WellFoundedInduction

-----------------------------------------------------------------------------
(* Types *)

RowRecords == [phase : Phases, retired : BOOLEAN, order : Seq(Providers), attempt : Nat,
               age : 0..Timeout, failed : BOOLEAN]

(* A request on the router has a provider before it; only a call has age.  *)
Rows == {row \in RowRecords :
           /\ row.phase \in {"trying", "calling", "answered"} => row.order # <<>>
           /\ row.phase # "calling" => row.age = 0}

(* A key that has expired counts nobody.                                   *)
Leased == {lease \in Lease : lease.ttl = 0 => lease.count = 0}

RoutingTypeOK ==
    /\ account \in Leased
    /\ capacity \in [Providers -> Leased]
    /\ router \in [Providers -> [failures : Nat, cooling : Nat]]
    /\ requests \in [Requests -> Rows]
    /\ overrun \subseteq Providers \union {Key}

LEMMA LeaseSteps ==
    ASSUME NEW lease \in Leased
    PROVE  /\ Gone \in Leased
           /\ Acquired(lease) \in Leased
           /\ Released(lease) \in Leased /\ Aged(lease) \in Leased
           /\ Acquired(lease).count = lease.count + 1 /\ Acquired(lease).ttl = LeaseTtl
           /\ lease.count > 1 => /\ Released(lease).count = lease.count - 1
                                 /\ Released(lease).ttl = lease.ttl
           /\ lease.count <= 1 => Released(lease).count = 0
           /\ lease.ttl > 1 => /\ Aged(lease).count = lease.count
                               /\ Aged(lease).ttl = lease.ttl - 1
           /\ lease.ttl <= 1 => Aged(lease).count = 0
<1>1. lease \in Lease /\ lease.count \in Nat /\ lease.ttl \in 0..LeaseTtl /\ LeaseTtl \in Nat \ {0}
  BY LeaseAssumption DEF Leased, Lease
<1>2. Gone \in Leased
  BY <1>1 DEF Leased, Lease, Gone
<1>3. /\ Acquired(lease) \in Leased
      /\ Acquired(lease).count = lease.count + 1 /\ Acquired(lease).ttl = LeaseTtl
  BY <1>1 DEF Acquired, Leased, Lease
<1>4. /\ Released(lease) \in Leased
      /\ lease.count > 1 => /\ Released(lease).count = lease.count - 1
                            /\ Released(lease).ttl = lease.ttl
      /\ lease.count <= 1 => Released(lease).count = 0
  <2>1. CASE lease.count <= 1
    BY <1>1, <1>2, <2>1 DEF Released, Gone
  <2>2. CASE lease.count > 1
    <3>1. Released(lease) = [lease EXCEPT !.count = lease.count - 1]
      BY <1>1, <2>2 DEF Released
    <3>2. QED
      BY <1>1, <2>2, <3>1 DEF Leased, Lease
  <2>3. QED
    BY <1>1, <2>1, <2>2
<1>5. /\ Aged(lease) \in Leased
      /\ lease.ttl > 1 => /\ Aged(lease).count = lease.count
                          /\ Aged(lease).ttl = lease.ttl - 1
      /\ lease.ttl <= 1 => Aged(lease).count = 0
  <2>1. CASE lease.ttl <= 1
    BY <1>1, <1>2, <2>1 DEF Aged, Gone
  <2>2. CASE lease.ttl > 1
    <3>1. Aged(lease) = [lease EXCEPT !.ttl = lease.ttl - 1]
      BY <1>1, <2>2 DEF Aged
    <3>2. QED
      BY <1>1, <2>2, <3>1 DEF Leased, Lease
  <2>3. QED
    BY <1>1, <2>1, <2>2
<1>6. QED
  BY <1>2, <1>3, <1>4, <1>5

(* The rows a request comes to have.                                       *)
LEMMA FixedRows ==
    /\ NewRequest \in Rows /\ NewRequest.phase = "idle"
    /\ Leaving \in Rows /\ Leaving.phase = "leaving"
<1>1. NewRequest \in RowRecords
  BY RoutingAssumption DEF NewRequest, RowRecords, Phases
<1>2. NewRequest \in Rows /\ NewRequest.phase = "idle" /\ NewRequest.age = 0
  BY <1>1 DEF NewRequest, Rows
<1>3. Leaving \in RowRecords /\ Leaving.phase = "leaving" /\ Leaving.age = NewRequest.age
  BY <1>1 DEF Leaving, RowRecords, Phases
<1>4. QED
  BY <1>2, <1>3 DEF Rows

LEMMA RoutedRows ==
    ASSUME NEW known, NEW s \in Orders(known)
    PROVE  Routed(s) \in Rows /\ Routed(s).phase \in {"trying", "leaving"}
<1>1. s \in Seq(Providers)
  <2>1. Candidates(known) \subseteq Providers
    BY DEF Candidates
  <2>2. Cardinality(Candidates(known)) \in Nat
    BY <2>1, RoutingAssumption, FS_Subset, FS_CardinalityType
  <2>3. s \in [1..Cardinality(Candidates(known)) -> Providers]
    BY <2>1 DEF Orders
  <2>4. QED
    BY <2>2, <2>3
<1>2. CASE s = <<>>
  BY <1>2, FixedRows DEF Routed
<1>3. CASE s # <<>>
  <2> DEFINE row == [NewRequest EXCEPT !.phase = "trying", !.order = s]
  <2>1. NewRequest \in RowRecords /\ NewRequest.age = 0
    BY FixedRows DEF Rows
  <2>2. row \in RowRecords /\ row.phase = "trying" /\ row.order = s /\ row.age = 0
    BY <1>1, <2>1 DEF RowRecords, Phases
  <2>3. Routed(s) = row
    BY <1>3 DEF Routed
  <2>4. QED
    BY <1>3, <2>2, <2>3 DEF Rows
<1>4. QED
  BY <1>2, <1>3

LEMMA TailLeft ==
    ASSUME NEW S, NEW s \in Seq(S), Len(s) > 1
    PROVE  Tail(s) \in Seq(S) /\ Tail(s) # <<>>
<1>1. s # <<>> /\ Len(s) \in Nat
  OBVIOUS
<1>2. Tail(s) \in Seq(S) /\ Len(Tail(s)) = Len(s) - 1
  BY <1>1, HeadTailProperties
<1>3. Len(Tail(s)) # 0
  BY <1>1, <1>2
<1>4. Len(<<>>) = 0
  OBVIOUS
<1>5. QED
  BY <1>2, <1>3, <1>4, Zenon

LEMMA NextRows ==
    ASSUME NEW row \in Rows, row.phase \in {"trying", "answered"},
           NEW opened, NEW retryable
    PROVE  /\ MoveOn(row) \in Rows /\ MoveOn(row).phase \in {"trying", "leaving"}
           /\ AfterFailure(row, opened, retryable) \in Rows
           /\ AfterFailure(row, opened, retryable).phase \in {"trying", "leaving"}
<1>1. row \in RowRecords /\ row.order # <<>> /\ row.age = 0 /\ row.attempt + 1 \in Nat
  BY DEF Rows, RowRecords
<1>2. MoveOn(row) \in Rows /\ MoveOn(row).phase \in {"trying", "leaving"}
  <2>1. CASE Len(row.order) > 1
    <3> DEFINE next == [row EXCEPT !.phase = "trying", !.order = Tail(row.order),
                                   !.attempt = 0, !.failed = FALSE]
    <3>1. Tail(row.order) \in Seq(Providers) /\ Tail(row.order) # <<>>
      BY <1>1, <2>1, TailLeft DEF RowRecords
    <3>2. MoveOn(row) = next
      BY <2>1 DEF MoveOn
    <3>3. /\ next \in RowRecords /\ next.phase = "trying"
          /\ next.order = Tail(row.order) /\ next.age = 0
      BY <1>1, <3>1 DEF RowRecords, Phases
    <3>4. QED
      BY <3>1, <3>2, <3>3 DEF Rows
  <2>2. CASE ~(Len(row.order) > 1)
    BY <2>2, FixedRows DEF MoveOn
  <2>3. QED
    BY <2>1, <2>2
<1>3. CASE opened \/ ~retryable \/ row.attempt + 1 >= Retries
  BY <1>2, <1>3 DEF AfterFailure
<1>4. CASE ~(opened \/ ~retryable \/ row.attempt + 1 >= Retries)
  <2> DEFINE next == [row EXCEPT !.phase = "trying", !.failed = FALSE,
                                 !.attempt = row.attempt + 1]
  <2>1. AfterFailure(row, opened, retryable) = next
    BY <1>4 DEF AfterFailure
  <2>2. next \in RowRecords /\ next.phase = "trying" /\ next.order = row.order /\ next.age = 0
    BY <1>1 DEF RowRecords, Phases
  <2>3. QED
    BY <1>1, <1>2, <2>1, <2>2 DEF Rows
<1>5. QED
  BY <1>2, <1>3, <1>4

LEMMA AnsweredRows ==
    ASSUME NEW row \in RowRecords
    PROVE  LET good == [row EXCEPT !.phase = "answered", !.age = 0]
               bad == [row EXCEPT !.phase = "answered", !.failed = TRUE, !.age = 0]
           IN  /\ good \in RowRecords /\ good.phase = "answered"
               /\ good.order = row.order /\ good.age = 0
               /\ bad \in RowRecords /\ bad.phase = "answered"
               /\ bad.order = row.order /\ bad.age = 0
<1>1. 0 \in 0..Timeout
  BY RoutingAssumption
<1>2. QED
  BY <1>1 DEF RowRecords, Phases

(* One request gets another row.                                           *)
LEMMA OneRow ==
    ASSUME RoutingTypeOK, NEW r \in Requests, NEW row \in Rows,
           requests' = [requests EXCEPT ![r] = row]
    PROVE  /\ requests' \in [Requests -> Rows] /\ requests'[r] = row
           /\ \A q \in Requests \ {r} : requests'[q] = requests[q]
  BY DEF RoutingTypeOK

LEMMA FailureRows ==
    ASSUME RoutingTypeOK, NEW r \in Requests, requests[r].phase \in {"trying", "answered"},
           NEW retryable, CountFailure(r, retryable)
    PROVE  /\ router' \in [Providers -> [failures : Nat, cooling : Nat]]
           /\ requests' \in [Requests -> Rows]
           /\ requests'[r].phase \in {"trying", "leaving"}
           /\ \A q \in Requests \ {r} : requests'[q] = requests[q]
<1>1. requests[r] \in Rows
  BY DEF RoutingTypeOK
<1>2. ASSUME NEW p \in Providers
      PROVE  OneMoreFailure(router[p]) \in [failures : Nat, cooling : Nat]
  BY RoutingAssumption DEF OneMoreFailure, RoutingTypeOK
<1>3. router' \in [Providers -> [failures : Nat, cooling : Nat]]
  <2>1. router \in [Providers -> [failures : Nat, cooling : Nat]]
    BY DEF RoutingTypeOK
  <2>2. \/ router' = router
        \/ router' = [router EXCEPT ![Provider(r)] = OneMoreFailure(router[Provider(r)])]
    BY DEF CountFailure
  <2>3. CASE Provider(r) \in Providers
    BY <1>2, <2>1, <2>2, <2>3
  <2>4. CASE Provider(r) \notin Providers
    BY <2>1, <2>2, <2>4
  <2>5. QED
    BY <2>3, <2>4
<1>4. PICK opened :
         requests' = [requests EXCEPT ![r] = AfterFailure(requests[r], opened, retryable)]
  BY DEF CountFailure, RoutingTypeOK
<1>5. /\ AfterFailure(requests[r], opened, retryable) \in Rows
      /\ AfterFailure(requests[r], opened, retryable).phase \in {"trying", "leaving"}
  BY <1>1, NextRows
<1>6. QED
  BY <1>3, <1>4, <1>5, OneRow

-----------------------------------------------------------------------------
(* Kinds of steps.  For who holds what, only phase, provider and age of a  *)
(* request matter.                                                         *)

SameWay(q) == /\ requests'[q].phase = requests[q].phase
              /\ requests'[q].order = requests[q].order
              /\ requests'[q].age = requests[q].age

OthersSame(r) == \A q \in Requests \ {r} : SameWay(q)

(* On its way to a provider, or past all of them.  A place may be taken    *)
(* that it does not hear of.                                               *)
Underway(r) ==
    /\ requests[r].phase \in {"admitted", "trying"}
    /\ requests'[r].phase \in {"trying", "leaving"}
    /\ \/ capacity' = capacity
       \/ /\ capacity[Provider(r)].count < ProviderLimit[Provider(r)]
          /\ capacity' = [capacity EXCEPT ![Provider(r)] = Acquired(@)]
    /\ UNCHANGED <<account, overrun>>

Calls(r) ==
    /\ AcquireCapacity(r)
    /\ requests'[r].phase = "calling" /\ requests'[r].order = requests[r].order

Answers(r) ==
    /\ requests[r].phase = "calling" /\ requests'[r].phase = "answered"
    /\ requests'[r].order = requests[r].order
    /\ UNCHANGED <<account, capacity, overrun>>

Returns(r) ==
    /\ ReleaseCapacity(r)
    /\ requests'[r].phase \in {"trying", "leaving"}

Ends(r) ==
    /\ ReleaseAccount(r)
    /\ requests'[r].phase = "idle"

Typed ==
    /\ requests' \in [Requests -> Rows]
    /\ router' \in [Providers -> [failures : Nat, cooling : Nat]]

LEMMA ProceedKinds ==
    ASSUME RoutingTypeOK, NEW r \in Requests, Proceed(r)
    PROVE  /\ Typed /\ OthersSame(r)
           /\ Underway(r) \/ Calls(r) \/ Answers(r) \/ Returns(r) \/ Ends(r)
<1>1. /\ requests[r] \in Rows /\ requests[r] \in RowRecords
      /\ requests \in [Requests -> Rows] /\ capacity \in [Providers -> Leased]
      /\ router \in [Providers -> [failures : Nat, cooling : Nat]]
  BY DEF RoutingTypeOK, Rows
<1>2. FreshRouter \in [Providers -> [failures : Nat, cooling : Nat]]
  BY DEF FreshRouter
<1>3. CASE Route(r)
  <2>1. PICK s \in Orders(router) : requests' = [requests EXCEPT ![r] = Routed(s)]
    BY <1>3 DEF Route
  <2>2. Routed(s) \in Rows /\ Routed(s).phase \in {"trying", "leaving"}
    BY RoutedRows
  <2>3. /\ requests' \in [Requests -> Rows] /\ requests'[r].phase \in {"trying", "leaving"}
        /\ \A q \in Requests \ {r} : requests'[q] = requests[q]
    BY <2>1, <2>2, OneRow
  <2>4. QED
    BY <1>1, <1>3, <2>3 DEF Route, Typed, OthersSame, SameWay, Underway
<1>4. CASE Rebuild(r)
  <2>1. PICK s \in Orders(FreshRouter) :
           requests' = [q \in Requests |-> IF q = r THEN Routed(s)
                                           ELSE [requests[q] EXCEPT !.retired = OnRouter(q)]]
    BY <1>4 DEF Rebuild
  <2>2. Routed(s) \in Rows /\ Routed(s).phase \in {"trying", "leaving"}
    BY RoutedRows
  <2>3. ASSUME NEW q \in Requests \ {r}
        PROVE  requests'[q] \in Rows /\ SameWay(q)
    <3>1. requests[q] \in Rows /\ requests[q] \in RowRecords /\ OnRouter(q) \in BOOLEAN
      BY <1>1 DEF Rows, OnRouter
    <3>2. requests'[q] = [requests[q] EXCEPT !.retired = OnRouter(q)]
      BY <2>1
    <3>3. requests'[q] \in RowRecords /\ SameWay(q)
      BY <3>1, <3>2 DEF RowRecords, SameWay
    <3>4. QED
      BY <3>1, <3>3 DEF Rows, SameWay
  <2>4. requests'[r] = Routed(s)
    BY <2>1
  <2>5. requests' \in [Requests -> Rows]
    BY <2>1, <2>2, <2>3, <2>4
  <2>6. QED
    BY <1>2, <1>4, <2>2, <2>3, <2>4, <2>5 DEF Rebuild, Typed, OthersSame, Underway
<1>5. CASE RefuseBilling(r)
  <2>1. /\ requests' \in [Requests -> Rows] /\ requests'[r].phase = "leaving"
        /\ \A q \in Requests \ {r} : requests'[q] = requests[q]
    BY <1>5, FixedRows, OneRow DEF RefuseBilling
  <2>2. QED
    BY <1>1, <1>5, <2>1 DEF RefuseBilling, Typed, OthersSame, SameWay, Underway
<1>6. CASE AcquireCapacity(r)
  <2> DEFINE row == [requests[r] EXCEPT !.phase = "calling"]
  <2>1. requests' = [requests EXCEPT ![r] = row]
    BY <1>1, <1>6 DEF AcquireCapacity
  <2>2. row \in RowRecords /\ row.phase = "calling" /\ row.order = requests[r].order
    BY <1>1 DEF RowRecords, Phases
  <2>3. row \in Rows
    BY <1>1, <1>6, <2>2 DEF Rows, AcquireCapacity
  <2>4. /\ requests' \in [Requests -> Rows] /\ requests'[r] = row
        /\ \A q \in Requests \ {r} : requests'[q] = requests[q]
    BY <2>1, <2>3, OneRow
  <2>5. QED
    BY <1>1, <1>6, <2>2, <2>4 DEF AcquireCapacity, Typed, OthersSame, SameWay, Calls
<1>7. CASE CapacityRefused(r)
  <2>1. requests' = [requests EXCEPT ![r] = MoveOn(requests[r])] /\ capacity' = capacity
    BY <1>1, <1>7 DEF CapacityRefused, Refused
  <2>2. MoveOn(requests[r]) \in Rows /\ MoveOn(requests[r]).phase \in {"trying", "leaving"}
    BY <1>1, <1>7, NextRows DEF CapacityRefused
  <2>3. /\ requests' \in [Requests -> Rows] /\ requests'[r].phase \in {"trying", "leaving"}
        /\ \A q \in Requests \ {r} : requests'[q] = requests[q]
    BY <2>1, <2>2, OneRow
  <2>4. QED
    BY <1>1, <1>7, <2>1, <2>3 DEF CapacityRefused, Typed, OthersSame, SameWay, Underway
<1>8. CASE CapacityUnknown(r)
  <2>1. /\ Typed /\ requests'[r].phase \in {"trying", "leaving"}
        /\ \A q \in Requests \ {r} : requests'[q] = requests[q]
    BY <1>8, FailureRows DEF CapacityUnknown, Typed
  <2>2. QED
    BY <1>8, <2>1 DEF CapacityUnknown, OthersSame, SameWay, Underway
<1>9. CASE Succeed(r) \/ Fail(r)
  <2> DEFINE good == [requests[r] EXCEPT !.phase = "answered", !.age = 0]
             bad == [requests[r] EXCEPT !.phase = "answered", !.failed = TRUE, !.age = 0]
  <2>1. PICK row : row \in {good, bad} /\ requests' = [requests EXCEPT ![r] = row]
    BY <1>1, <1>9 DEF Succeed, Fail
  <2>2. /\ row \in RowRecords /\ row.phase = "answered"
        /\ row.order = requests[r].order /\ row.age = 0
    <3>1. /\ good \in RowRecords /\ good.phase = "answered"
          /\ good.order = requests[r].order /\ good.age = 0
          /\ bad \in RowRecords /\ bad.phase = "answered"
          /\ bad.order = requests[r].order /\ bad.age = 0
      BY <1>1, AnsweredRows
    <3> HIDE DEF good, bad
    <3>3. QED
      BY <2>1, <3>1
  <2>3. row \in Rows
    BY <1>1, <1>9, <2>2 DEF Rows, Succeed, Fail
  <2>4. /\ requests' \in [Requests -> Rows] /\ requests'[r] = row
        /\ \A q \in Requests \ {r} : requests'[q] = requests[q]
    BY <2>1, <2>3, OneRow
  <2>5. router' \in [Providers -> [failures : Nat, cooling : Nat]]
    BY <1>1, <1>9 DEF Succeed, Fail
  <2>6. QED
    BY <1>9, <2>2, <2>4, <2>5 DEF Succeed, Fail, Typed, OthersSame, SameWay, Answers
<1>10. CASE ReleaseCapacity(r)
  <2>1. CASE requests[r].failed
    <3>1. PICK retryable \in BOOLEAN : CountFailure(r, retryable)
      BY <1>10, <2>1 DEF ReleaseCapacity
    <3>2. /\ Typed /\ requests'[r].phase \in {"trying", "leaving"}
          /\ \A q \in Requests \ {r} : requests'[q] = requests[q]
      BY <1>10, <3>1, FailureRows DEF ReleaseCapacity, Typed
    <3>3. QED
      BY <1>10, <3>2 DEF OthersSame, SameWay, Returns
  <2>2. CASE ~requests[r].failed
    <3>1. requests' = [requests EXCEPT ![r] = Leaving] /\ router' = router
      BY <1>10, <2>2 DEF ReleaseCapacity
    <3>2. /\ requests' \in [Requests -> Rows] /\ requests'[r].phase = "leaving"
          /\ \A q \in Requests \ {r} : requests'[q] = requests[q]
      BY <3>1, FixedRows, OneRow
    <3>3. QED
      BY <1>1, <1>10, <3>1, <3>2 DEF Typed, OthersSame, SameWay, Returns
  <2>3. QED
    BY <2>1, <2>2
<1>11. CASE ReleaseAccount(r)
  <2>1. /\ requests' \in [Requests -> Rows] /\ requests'[r].phase = "idle"
        /\ \A q \in Requests \ {r} : requests'[q] = requests[q]
    BY <1>11, FixedRows, OneRow DEF ReleaseAccount
  <2>2. QED
    BY <1>1, <1>11, <2>1 DEF ReleaseAccount, Typed, OthersSame, SameWay, Ends
<1>12. QED
  BY <1>3, <1>4, <1>5, <1>6, <1>7, <1>8, <1>9, <1>10, <1>11 DEF Proceed

(* The actions that are no request's business.                             *)
LEMMA ClockRows ==
    ASSUME RoutingTypeOK, Tick
    PROVE  /\ requests' \in [Requests -> Rows]
           /\ \A r \in Requests :
                 /\ requests'[r].phase = requests[r].phase
                 /\ requests'[r].order = requests[r].order
                 /\ requests[r].phase = "calling" => requests'[r].age = requests[r].age + 1
<1>1. ASSUME NEW r \in Requests
      PROVE  /\ requests'[r] \in Rows
             /\ requests'[r].phase = requests[r].phase
             /\ requests'[r].order = requests[r].order
             /\ requests[r].phase = "calling" => requests'[r].age = requests[r].age + 1
  <2>1. requests[r] \in Rows /\ requests[r] \in RowRecords
    BY DEF RoutingTypeOK, Rows
  <2>2. CASE requests[r].phase = "calling"
    <3>1. requests'[r] = [requests[r] EXCEPT !.age = requests[r].age + 1]
      BY <2>2 DEF Tick
    <3>2. requests[r].age + 1 \in 0..Timeout
      BY <2>1, <2>2, RoutingAssumption DEF Tick, RowRecords
    <3>3. requests'[r] \in RowRecords
      BY <2>1, <3>1, <3>2 DEF RowRecords
    <3>4. QED
      BY <2>1, <2>2, <3>1, <3>3 DEF Rows, RowRecords
  <2>3. CASE requests[r].phase # "calling"
    BY <2>1, <2>3 DEF Tick
  <2>4. QED
    BY <2>2, <2>3
<1>2. requests' = [r \in Requests |-> requests'[r]]
  BY DEF Tick
<1>3. requests' \in [Requests -> Rows]
  BY <1>1, <1>2
<1>4. QED
  BY <1>1, <1>3

LEMMA AdmitRow ==
    ASSUME RoutingTypeOK, NEW r \in Requests, Admit(r)
    PROVE  /\ requests' \in [Requests -> Rows] /\ requests'[r].phase = "admitted"
           /\ \A q \in Requests \ {r} : requests'[q] = requests[q]
<1> DEFINE row == [requests[r] EXCEPT !.phase = "admitted"]
<1>1. requests[r] \in Rows /\ requests[r] \in RowRecords /\ requests[r].phase = "idle"
  BY DEF Admit, RoutingTypeOK, Rows
<1>2. row \in RowRecords /\ row.phase = "admitted" /\ row.age = requests[r].age
  BY <1>1 DEF RowRecords, Phases
<1>3. row \in Rows
  BY <1>1, <1>2 DEF Rows
<1>4. requests' = [requests EXCEPT ![r] = row]
  BY DEF Admit, RoutingTypeOK
<1>5. QED
  BY <1>2, <1>3, <1>4, OneRow

LEMMA RoutingTypesKept == RoutingTypeOK /\ [NextRouting]_routingVars => RoutingTypeOK'
<1> SUFFICES ASSUME RoutingTypeOK, [NextRouting]_routingVars PROVE RoutingTypeOK'
  OBVIOUS
<1>1. /\ account \in Leased /\ capacity \in [Providers -> Leased]
      /\ router \in [Providers -> [failures : Nat, cooling : Nat]]
      /\ requests \in [Requests -> Rows] /\ overrun \subseteq Providers \union {Key}
  BY DEF RoutingTypeOK
<1>2. ASSUME NEW r \in Requests, Proceed(r) PROVE RoutingTypeOK'
  <2>1. Typed /\ (Underway(r) \/ Calls(r) \/ Answers(r) \/ Returns(r) \/ Ends(r))
    BY <1>2, ProceedKinds
  <2>2. CASE Underway(r) \/ Calls(r)
    <3>1. /\ account' = account /\ overrun' = overrun
          /\ \/ capacity' = capacity
             \/ capacity' = [capacity EXCEPT ![Provider(r)] = Acquired(capacity[Provider(r)])]
      BY <1>1, <2>2 DEF Underway, Calls, AcquireCapacity
    <3>2. \A p \in Providers : Acquired(capacity[p]) \in Leased
      BY <1>1, LeaseSteps
    <3>3. capacity' \in [Providers -> Leased]
      BY <1>1, <3>1, <3>2
    <3>4. QED
      BY <1>1, <2>1, <3>1, <3>3 DEF RoutingTypeOK, Typed
  <2>3. CASE Answers(r)
    BY <1>1, <2>1, <2>3 DEF Answers, RoutingTypeOK, Typed
  <2>4. CASE Returns(r)
    <3>1. /\ account' = account /\ overrun' \subseteq overrun
          /\ \/ capacity' = capacity
             \/ capacity' = [capacity EXCEPT ![Provider(r)] = Released(capacity[Provider(r)])]
      BY <1>1, <2>4 DEF Returns, ReleaseCapacity
    <3>2. \A p \in Providers : Released(capacity[p]) \in Leased
      BY <1>1, LeaseSteps
    <3>3. capacity' \in [Providers -> Leased]
      BY <1>1, <3>1, <3>2
    <3>4. QED
      BY <1>1, <2>1, <3>1, <3>3 DEF RoutingTypeOK, Typed
  <2>5. CASE Ends(r)
    <3>1. /\ account' \in {Released(account), account} /\ overrun' \subseteq overrun
          /\ capacity' = capacity
      BY <2>5 DEF Ends, ReleaseAccount
    <3>2. account' \in Leased
      BY <1>1, <3>1, LeaseSteps
    <3>3. QED
      BY <1>1, <2>1, <3>1, <3>2 DEF RoutingTypeOK, Typed
  <2>6. QED
    BY <2>1, <2>2, <2>3, <2>4, <2>5
<1>3. ASSUME NEW r \in Requests, Admit(r) PROVE RoutingTypeOK'
  <2>1. requests' \in [Requests -> Rows]
    BY <1>3, AdmitRow
  <2>2. account' \in Leased
    BY <1>1, <1>3, LeaseSteps DEF Admit
  <2>3. QED
    BY <1>1, <1>3, <2>1, <2>2 DEF Admit, RoutingTypeOK
<1>4. ASSUME NEW r \in Requests, TurnAway(r) \/ AdmissionLost(r) PROVE RoutingTypeOK'
  <2>1. account' \in Leased
    BY <1>1, <1>4, LeaseSteps DEF TurnAway, AdmissionLost, Refused
  <2>2. QED
    BY <1>1, <1>4, <2>1 DEF TurnAway, AdmissionLost, RoutingTypeOK
<1>5. CASE Tick
  <2>1. requests' \in [Requests -> Rows]
    BY <1>5, ClockRows
  <2>2. account' \in Leased
    BY <1>1, <1>5, LeaseSteps DEF Tick
  <2>3. capacity' \in [Providers -> Leased]
    <3>1. \A p \in Providers : Aged(capacity[p]) \in Leased
      BY <1>1, LeaseSteps
    <3>2. QED
      BY <1>5, <3>1 DEF Tick
  <2>4. router' \in [Providers -> [failures : Nat, cooling : Nat]]
    <3>1. ASSUME NEW p \in Providers
          PROVE  [router[p] EXCEPT !.cooling = IF @ = 0 THEN 0 ELSE @ - 1]
                    \in [failures : Nat, cooling : Nat]
      <4>1. router[p] \in [failures : Nat, cooling : Nat]
        BY <1>1
      <4>2. (IF router[p].cooling = 0 THEN 0 ELSE router[p].cooling - 1) \in Nat
        BY <4>1
      <4>3. QED
        BY <4>1, <4>2
    <3>2. QED
      BY <1>5, <3>1 DEF Tick
  <2>5. overrun' \subseteq Providers \union {Key}
    BY <1>1, <1>5 DEF Tick
  <2>6. QED
    BY <2>1, <2>2, <2>3, <2>4, <2>5 DEF RoutingTypeOK
<1>6. CASE Restart
  BY <1>1, <1>6, FixedRows DEF Restart, RoutingTypeOK, FreshRouter
<1>7. CASE UNCHANGED routingVars
  BY <1>1, <1>7 DEF routingVars, RoutingTypeOK
<1>8. QED
  BY <1>2, <1>3, <1>4, <1>5, <1>6, <1>7 DEF NextRouting

LEMMA RoutingTypesInitially == InitRouting => RoutingTypeOK
<1>1. Gone \in Leased
  BY LeaseAssumption DEF Gone, Leased, Lease
<1>2. QED
  BY <1>1, FixedRows DEF InitRouting, RoutingTypeOK, FreshRouter

(* Every row, whatever happens, keeps its type.                            *)
THEOREM RoutingTypes == SpecRouting => []RoutingTypeOK
<1>1. InitRouting => RoutingTypeOK
  BY RoutingTypesInitially
<1>2. RoutingTypeOK /\ [NextRouting]_routingVars => RoutingTypeOK'
  BY RoutingTypesKept
<1>3. QED
  BY <1>1, <1>2, PTL DEF SpecRouting

-----------------------------------------------------------------------------
(* Sets of holders *)

LEMMA HoldersFinite ==
    /\ IsFiniteSet(Admitted) /\ Cardinality(Admitted) \in Nat
    /\ \A p : IsFiniteSet(Holding(p)) /\ Cardinality(Holding(p)) \in Nat
<1>1. Admitted \subseteq Requests /\ \A p : Holding(p) \subseteq Requests
  BY DEF Admitted, Holding
<1>2. \A S : S \subseteq Requests => IsFiniteSet(S) /\ Cardinality(S) \in Nat
  BY RoutingAssumption, FS_Subset, FS_CardinalityType
<1>3. QED
  BY <1>1, <1>2

LEMMA OneMore ==
    ASSUME NEW S, NEW T, IsFiniteSet(S), NEW r, r \notin S, T = S \union {r}
    PROVE  Cardinality(T) = Cardinality(S) + 1
  BY FS_AddElement

LEMMA OneLess ==
    ASSUME NEW S, NEW T, IsFiniteSet(S), NEW r \in S, T = S \ {r}
    PROVE  Cardinality(T) = Cardinality(S) - 1
  BY FS_RemoveElement

(* Only the request that moves enters a set of holders or leaves it.       *)
LEMMA OthersHold ==
    ASSUME NEW r \in Requests, OthersSame(r)
    PROVE  /\ Admitted' \ {r} = Admitted \ {r}
           /\ \A p : /\ Holding(p)' \ {r} = Holding(p) \ {r}
                     /\ Calling(p)' \ {r} = Calling(p) \ {r}
           /\ \A q \in Requests \ {r} : requests'[q].age = requests[q].age
  BY DEF OthersSame, SameWay, Admitted, Holding, Calling, Provider

-----------------------------------------------------------------------------
(* A lease counts at least its holders, and does not expire before a call  *)
(* of theirs, until it has expired under one of them.                      *)

AccountCovers ==
    /\ account.count <= AccountLimit
    /\ Key \notin overrun => account.count >= Cardinality(Admitted)

Covers(p) ==
    /\ capacity[p].count <= ProviderLimit[p]
    /\ p \notin overrun =>
          /\ capacity[p].count >= Cardinality(Holding(p))
          /\ \A r \in Calling(p) : capacity[p].ttl > Timeout - requests[r].age

LeasesCover == AccountCovers /\ \A p \in Providers : Covers(p)

(* The lease stays, or is acquired by somebody who is lost; the holders    *)
(* stay, and calls only end.                                               *)
LEMMA CoversStill ==
    ASSUME RoutingTypeOK, NEW p \in Providers, Covers(p),
           \/ capacity'[p] = capacity[p]
           \/ /\ capacity[p].count < ProviderLimit[p]
              /\ capacity'[p] = Acquired(capacity[p]),
           Holding(p)' = Holding(p), Calling(p)' \subseteq Calling(p),
           \A r \in Calling(p)' : requests'[r].age = requests[r].age,
           p \notin overrun' => p \notin overrun
    PROVE  Covers(p)'
<1>1. /\ capacity[p] \in Leased /\ capacity[p].count \in Nat /\ capacity[p].ttl \in 0..LeaseTtl
      /\ ProviderLimit[p] \in Nat /\ LeaseTtl \in Nat
      /\ Cardinality(Holding(p)) \in Nat
  BY RoutingAssumption, LeaseAssumption, HoldersFinite DEF RoutingTypeOK, Leased, Lease
<1>2. CASE capacity'[p] = capacity[p]
  BY <1>2 DEF Covers
<1>3. CASE /\ capacity[p].count < ProviderLimit[p]
           /\ capacity'[p] = Acquired(capacity[p])
  <2>1. capacity'[p].count = capacity[p].count + 1 /\ capacity'[p].ttl = LeaseTtl
    BY <1>1, <1>3, LeaseSteps
  <2>2. capacity'[p].count <= ProviderLimit[p] /\ capacity'[p].count >= capacity[p].count
    BY <1>1, <1>3, <2>1
  <2>3. ASSUME p \notin overrun', NEW r \in Calling(p)'
        PROVE  capacity'[p].ttl > Timeout - requests'[r].age
    <3>1. r \in Requests /\ requests[r].age \in 0..Timeout
      BY <2>3 DEF Calling, RoutingTypeOK, Rows, RowRecords
    <3>2. capacity[p].ttl > Timeout - requests[r].age
      BY <2>3 DEF Covers
    <3>3. requests'[r].age = requests[r].age
      BY <2>3
    <3>4. QED
      BY <1>1, <2>1, <3>1, <3>2, <3>3, RoutingAssumption
  <2>4. p \notin overrun' => capacity'[p].count >= Cardinality(Holding(p)')
    BY <1>1, <2>1, <2>2 DEF Covers
  <2>5. QED
    BY <2>2, <2>3, <2>4 DEF Covers
<1>4. QED
  BY <1>2, <1>3

LEMMA CallsCovered ==
    ASSUME RoutingTypeOK, RoutingTypeOK', NEW p \in Providers, Covers(p),
           NEW r \in Requests, OthersSame(r), Calls(r), Provider(r) = p
    PROVE  Covers(p)'
<1>1. /\ capacity[p] \in Leased /\ capacity[p].count \in Nat
      /\ capacity \in [Providers -> Leased]
      /\ ProviderLimit[p] \in Nat /\ LeaseTtl \in Nat /\ Cardinality(Holding(p)) \in Nat
  BY RoutingAssumption, LeaseAssumption, HoldersFinite DEF RoutingTypeOK, Leased, Lease
<1>2. /\ capacity[p].count < ProviderLimit[p] /\ capacity'[p] = Acquired(capacity[p])
      /\ overrun' = overrun
  BY <1>1 DEF Calls, AcquireCapacity
<1>3. capacity'[p].count = capacity[p].count + 1 /\ capacity'[p].ttl = LeaseTtl
  BY <1>1, <1>2, LeaseSteps
<1>4. r \notin Holding(p) /\ r \in Holding(p)'
  BY DEF Calls, AcquireCapacity, Holding, Provider
<1>5. Holding(p)' = Holding(p) \union {r}
  BY <1>4, OthersHold
<1>6. Cardinality(Holding(p)') = Cardinality(Holding(p)) + 1
  BY <1>4, <1>5, HoldersFinite, OneMore
<1>7. ASSUME NEW q \in Calling(p)'
      PROVE  capacity'[p].ttl > Timeout - requests'[q].age
  <2>1. requests'[q].age \in 0..Timeout
    BY DEF Calling, RoutingTypeOK, Rows, RowRecords
  <2>2. QED
    BY <1>3, <2>1, RoutingAssumption, LeaseAssumption
<1>8. capacity'[p].count <= ProviderLimit[p]
  BY <1>1, <1>2, <1>3
<1>9. p \notin overrun' => capacity'[p].count >= Cardinality(Holding(p)')
  BY <1>1, <1>2, <1>3, <1>6 DEF Covers
<1>10. QED
  BY <1>7, <1>8, <1>9 DEF Covers

LEMMA ReturnsCovered ==
    ASSUME RoutingTypeOK, RoutingTypeOK', NEW p \in Providers, Covers(p),
           NEW r \in Requests, OthersSame(r), Returns(r), Provider(r) = p
    PROVE  Covers(p)'
<1>1. /\ capacity[p] \in Leased /\ capacity[p].count \in Nat
      /\ capacity \in [Providers -> Leased]
      /\ ProviderLimit[p] \in Nat /\ Cardinality(Holding(p)) \in Nat
  BY RoutingAssumption, HoldersFinite DEF RoutingTypeOK, Leased, Lease
<1>2. /\ capacity'[p] = Released(capacity[p]) \/ capacity'[p] = capacity[p]
      /\ overrun' = IF Holding(p) = {r} THEN overrun \ {p} ELSE overrun
  BY <1>1 DEF Returns, ReleaseCapacity
<1>3. r \in Holding(p) /\ r \notin Holding(p)' /\ r \notin Calling(p) /\ r \notin Calling(p)'
  BY DEF Returns, ReleaseCapacity, Holding, Calling
<1>4. Holding(p)' = Holding(p) \ {r} /\ Calling(p)' = Calling(p)
  <2>1. Holding(p)' \ {r} = Holding(p) \ {r} /\ Calling(p)' \ {r} = Calling(p) \ {r}
    BY OthersHold
  <2>2. Holding(p)' = Holding(p)' \ {r}
    BY <1>3
  <2>3. Calling(p)' = Calling(p)' \ {r} /\ Calling(p) = Calling(p) \ {r}
    BY <1>3
  <2>4. QED
    BY <2>1, <2>2, <2>3
<1>5. Cardinality(Holding(p)') = Cardinality(Holding(p)) - 1
  BY <1>3, <1>4, HoldersFinite, OneLess
<1>6. capacity'[p].count \in Nat /\ capacity'[p].count <= capacity[p].count
  BY <1>1, <1>2, LeaseSteps
<1>7. capacity'[p].count <= ProviderLimit[p]
  BY <1>1, <1>6 DEF Covers
<1>8. CASE Holding(p) = {r}
  <2>1. Holding(p)' = {} /\ Calling(p)' = {}
    BY <1>4, <1>8 DEF Holding, Calling
  <2>2. Cardinality(Holding(p)') = 0
    BY <2>1, FS_EmptySet
  <2>3. QED
    BY <1>6, <1>7, <2>1, <2>2 DEF Covers
<1>9. CASE Holding(p) # {r}
  <2>1. overrun' = overrun
    BY <1>2, <1>9
  <2>2. Cardinality(Holding(p)') \in Nat \ {0}
    <3>1. Holding(p) \ {r} # {}
      BY <1>3, <1>9
    <3>2. IsFiniteSet(Holding(p) \ {r})
      BY HoldersFinite, FS_RemoveElement
    <3>3. QED
      BY <1>4, <3>1, <3>2, FS_EmptySet, FS_CardinalityType
  <2>3. SUFFICES ASSUME p \notin overrun
                 PROVE  /\ capacity'[p].count >= Cardinality(Holding(p)')
                        /\ \A q \in Calling(p)' : capacity'[p].ttl > Timeout - requests'[q].age
    BY <1>7, <2>1 DEF Covers
  <2>4. capacity[p].count >= Cardinality(Holding(p)) /\ capacity[p].count > 1
    BY <1>1, <1>5, <2>2, <2>3 DEF Covers
  <2>5. capacity'[p].ttl = capacity[p].ttl /\ capacity'[p].count >= capacity[p].count - 1
    BY <1>1, <1>2, <2>4, LeaseSteps
  <2>6. \A q \in Calling(p)' : capacity[p].ttl > Timeout - requests[q].age
    BY <1>4, <2>3 DEF Covers
  <2>7. \A q \in Calling(p)' : requests'[q].age = requests[q].age
    BY <1>3, OthersHold DEF Calling
  <2>8. QED
    BY <1>1, <1>5, <1>6, <2>4, <2>5, <2>6, <2>7
<1>10. QED
  BY <1>8, <1>9

LEMMA ProviderKnown ==
    ASSUME RoutingTypeOK, NEW r \in Requests,
           requests[r].phase \in {"trying", "calling", "answered"}
    PROVE  Provider(r) \in Providers
<1>1. requests[r].order \in Seq(Providers) /\ requests[r].order # <<>>
  BY DEF RoutingTypeOK, Rows, RowRecords
<1>2. QED
  BY <1>1, HeadTailProperties DEF Provider

LEMMA ProceedCovers ==
    ASSUME RoutingTypeOK, RoutingTypeOK', LeasesCover, NEW r \in Requests, Proceed(r)
    PROVE  LeasesCover'
<1>1. /\ OthersSame(r)
      /\ Underway(r) \/ Calls(r) \/ Answers(r) \/ Returns(r) \/ Ends(r)
  BY ProceedKinds
<1>2. /\ account.count \in Nat /\ AccountLimit \in Nat /\ Cardinality(Admitted) \in Nat
      /\ account \in Leased /\ capacity \in [Providers -> Leased]
  BY RoutingAssumption, HoldersFinite DEF RoutingTypeOK, Leased, Lease
<1>3. AccountCovers'
  <2>1. CASE Underway(r) \/ Calls(r) \/ Answers(r) \/ Returns(r)
    <3>1. account' = account /\ (Key \notin overrun' => Key \notin overrun)
      <4>1. CASE Underway(r) \/ Calls(r) \/ Answers(r)
        BY <4>1 DEF Underway, Calls, AcquireCapacity, Answers
      <4>2. CASE Returns(r)
        <5>1. Provider(r) # Key
          BY <4>2, ProviderKnown, RoutingAssumption DEF Returns, ReleaseCapacity, Key
        <5>2. account' = account /\ (overrun' = overrun \ {Provider(r)} \/ overrun' = overrun)
          BY <4>2 DEF Returns, ReleaseCapacity
        <5>3. QED
          BY <5>1, <5>2
      <4>3. QED
        BY <2>1, <4>1, <4>2
    <3>2. r \in Admitted /\ r \in Admitted'
      BY <2>1 DEF Underway, Calls, AcquireCapacity, Answers, Returns, ReleaseCapacity, Admitted
    <3>3. Admitted' \ {r} = Admitted \ {r}
      BY <1>1, OthersHold
    <3>4. Admitted' = Admitted
      BY <3>2, <3>3
    <3>5. QED
      BY <3>1, <3>4 DEF LeasesCover, AccountCovers
  <2>2. CASE Ends(r)
    <3>1. /\ account' = Released(account) \/ account' = account
          /\ overrun' = IF Admitted = {r} THEN overrun \ {Key} ELSE overrun
          /\ r \in Admitted /\ r \notin Admitted'
      BY <2>2 DEF Ends, ReleaseAccount, Admitted
    <3>2. Admitted' = Admitted \ {r}
      <4>1. Admitted' \ {r} = Admitted \ {r}
        BY <1>1, OthersHold
      <4>2. QED
        BY <3>1, <4>1
    <3>3. Cardinality(Admitted') = Cardinality(Admitted) - 1
      BY <3>1, <3>2, HoldersFinite, OneLess
    <3>4. /\ account'.count \in Nat /\ account'.count <= account.count
          /\ account'.count >= account.count - 1
      BY <1>2, <3>1, LeaseSteps
    <3>5. account'.count <= AccountLimit
      BY <1>2, <3>4 DEF LeasesCover, AccountCovers
    <3>6. CASE Admitted = {r}
      <4>1. Cardinality(Admitted') = 0
        BY <3>2, <3>6, FS_EmptySet
      <4>2. QED
        BY <3>4, <3>5, <4>1 DEF AccountCovers
    <3>7. CASE Admitted # {r}
      <4>1. overrun' = overrun
        BY <3>1, <3>7
      <4>2. Key \notin overrun => account'.count >= Cardinality(Admitted')
        BY <1>2, <3>3, <3>4 DEF LeasesCover, AccountCovers
      <4>3. QED
        BY <3>5, <4>1, <4>2 DEF AccountCovers
    <3>8. QED
      BY <3>6, <3>7
  <2>3. QED
    BY <1>1, <2>1, <2>2
<1>4. ASSUME NEW p \in Providers
      PROVE  Covers(p)'
  <2>1. Covers(p)
    BY DEF LeasesCover
  <2>2. ASSUME r \notin Holding(p), r \notin Holding(p)'
        PROVE  /\ Holding(p)' = Holding(p) /\ Calling(p)' \subseteq Calling(p)
               /\ \A q \in Calling(p)' : requests'[q].age = requests[q].age
    <3>1. r \notin Calling(p) /\ r \notin Calling(p)'
      BY <2>2 DEF Holding, Calling
    <3>2. Holding(p)' \ {r} = Holding(p) \ {r} /\ Calling(p)' \ {r} = Calling(p) \ {r}
      BY <1>1, OthersHold
    <3>3. \A q \in Requests \ {r} : requests'[q].age = requests[q].age
      BY <1>1, OthersHold
    <3>4. Calling(p)' \subseteq Requests
      BY DEF Calling
    <3>5. QED
      BY <2>2, <3>1, <3>2, <3>3, <3>4
  <2>3. CASE Underway(r)
    <3>1. r \notin Holding(p) /\ r \notin Holding(p)'
      BY <2>3 DEF Underway, Holding
    <3>2. \/ capacity'[p] = capacity[p]
          \/ /\ capacity[p].count < ProviderLimit[p]
             /\ capacity'[p] = Acquired(capacity[p])
      BY <1>2, <2>3 DEF Underway
    <3>3. overrun' = overrun
      BY <2>3 DEF Underway
    <3>4. QED
      BY <2>1, <2>2, <3>1, <3>2, <3>3, CoversStill
  <2>4. CASE Calls(r)
    <3>1. CASE Provider(r) = p
      BY <1>1, <2>1, <2>4, <3>1, CallsCovered
    <3>2. CASE Provider(r) # p
      <4>1. r \notin Holding(p) /\ r \notin Holding(p)'
        BY <2>4, <3>2 DEF Calls, Holding, Provider
      <4>2. capacity'[p] = capacity[p] /\ overrun' = overrun
        BY <1>2, <2>4, <3>2 DEF Calls, AcquireCapacity
      <4>3. QED
        BY <2>1, <2>2, <4>1, <4>2, CoversStill
    <3>3. QED
      BY <3>1, <3>2
  <2>5. CASE Answers(r)
    <3>1. capacity'[p] = capacity[p] /\ overrun' = overrun
      BY <2>5 DEF Answers
    <3>2. r \in Holding(p) <=> r \in Holding(p)'
      BY <2>5 DEF Answers, Holding, Provider
    <3>3. Holding(p)' \ {r} = Holding(p) \ {r} /\ Calling(p)' \ {r} = Calling(p) \ {r}
      BY <1>1, OthersHold
    <3>4. r \notin Calling(p)'
      BY <2>5 DEF Answers, Calling
    <3>5. Holding(p)' = Holding(p) /\ Calling(p)' \subseteq Calling(p)
      BY <3>2, <3>3, <3>4
    <3>6. \A q \in Calling(p)' : requests'[q].age = requests[q].age
      BY <1>1, <3>4, OthersHold DEF Calling
    <3>7. QED
      BY <2>1, <3>1, <3>5, <3>6, CoversStill
  <2>6. CASE Returns(r)
    <3>1. CASE Provider(r) = p
      BY <1>1, <2>1, <2>6, <3>1, ReturnsCovered
    <3>2. CASE Provider(r) # p
      <4>1. r \notin Holding(p) /\ r \notin Holding(p)'
        BY <2>6, <3>2 DEF Returns, Holding
      <4>2. /\ capacity'[p] = capacity[p]
            /\ p \notin overrun' => p \notin overrun
        BY <1>2, <2>6, <3>2 DEF Returns, ReleaseCapacity
      <4>3. QED
        BY <2>1, <2>2, <4>1, <4>2, CoversStill
    <3>3. QED
      BY <3>1, <3>2
  <2>7. CASE Ends(r)
    <3>1. r \notin Holding(p) /\ r \notin Holding(p)'
      BY <2>7 DEF Ends, ReleaseAccount, Holding
    <3>2. capacity'[p] = capacity[p] /\ (p \notin overrun' => p \notin overrun)
      BY <2>7, RoutingAssumption DEF Ends, ReleaseAccount, Key
    <3>3. QED
      BY <2>1, <2>2, <3>1, <3>2, CoversStill
  <2>8. QED
    BY <1>1, <2>3, <2>4, <2>5, <2>6, <2>7
<1>5. QED
  BY <1>3, <1>4 DEF LeasesCover

LEMMA ClockCovers ==
    ASSUME RoutingTypeOK, LeasesCover, Tick
    PROVE  LeasesCover'
<1>1. \A r \in Requests :
         /\ requests'[r].phase = requests[r].phase
         /\ requests'[r].order = requests[r].order
         /\ requests[r].phase = "calling" => requests'[r].age = requests[r].age + 1
  BY ClockRows
<1>2. /\ Admitted' = Admitted
      /\ \A p \in Providers : Holding(p)' = Holding(p) /\ Calling(p)' = Calling(p)
  <2>1. Admitted' = Admitted
    BY <1>1 DEF Admitted
  <2>2. ASSUME NEW p \in Providers PROVE Holding(p)' = Holding(p) /\ Calling(p)' = Calling(p)
    BY <1>1 DEF Holding, Calling, Provider
  <2>3. QED
    BY <2>1, <2>2
<1>3. AccountCovers'
  <2>1. /\ account \in Leased /\ account.count \in Nat /\ account.ttl \in Nat
        /\ account.ttl = 0 => account.count = 0
        /\ AccountLimit \in Nat /\ Cardinality(Admitted) \in Nat
    BY RoutingAssumption, LeaseAssumption, HoldersFinite DEF RoutingTypeOK, Leased, Lease
  <2>2. /\ account' = Aged(account)
        /\ Key \notin overrun' => Key \notin overrun /\ (account.ttl = 1 => Admitted = {})
    BY DEF Tick
  <2>3. account'.count \in Nat /\ account'.count <= account.count
    BY <2>1, <2>2, LeaseSteps
  <2>4. account'.count <= AccountLimit
    BY <2>1, <2>3 DEF LeasesCover, AccountCovers
  <2>5. ASSUME Key \notin overrun' PROVE account'.count >= Cardinality(Admitted)
    <3>1. account.count >= Cardinality(Admitted)
      BY <2>2, <2>5 DEF LeasesCover, AccountCovers
    <3>2. CASE account.ttl = 1
      BY <2>2, <2>3, <2>5, <3>2, FS_EmptySet
    <3>3. CASE account.ttl = 0
      BY <2>1, <2>3, <3>1, <3>3
    <3>4. CASE account.ttl > 1
      BY <2>1, <2>2, <3>1, <3>4, LeaseSteps
    <3>5. QED
      BY <2>1, <3>2, <3>3, <3>4
  <2>6. QED
    BY <1>2, <2>4, <2>5 DEF AccountCovers
<1>4. ASSUME NEW p \in Providers PROVE Covers(p)'
  <2> DEFINE lease == capacity[p]
  <2>1. /\ lease \in Leased /\ lease.count \in Nat /\ lease.ttl \in Nat
        /\ lease.ttl = 0 => lease.count = 0
        /\ ProviderLimit[p] \in Nat /\ Cardinality(Holding(p)) \in Nat
    BY RoutingAssumption, LeaseAssumption, HoldersFinite DEF RoutingTypeOK, Leased, Lease
  <2>2. /\ capacity'[p] = Aged(lease)
        /\ p \notin overrun' => p \notin overrun /\ (lease.ttl = 1 => Holding(p) = {})
    BY DEF Tick
  <2>3. capacity'[p].count \in Nat /\ capacity'[p].count <= lease.count
    BY <2>1, <2>2, LeaseSteps
  <2>4. capacity'[p].count <= ProviderLimit[p]
    BY <2>1, <2>3 DEF LeasesCover, Covers
  <2>5. ASSUME p \notin overrun'
        PROVE  /\ capacity'[p].count >= Cardinality(Holding(p))
               /\ \A r \in Calling(p) : capacity'[p].ttl > Timeout - requests'[r].age
    <3>1. /\ lease.count >= Cardinality(Holding(p))
          /\ \A r \in Calling(p) : lease.ttl > Timeout - requests[r].age
      BY <2>2, <2>5 DEF LeasesCover, Covers
    <3>2. CASE Holding(p) = {}
      <4>1. Calling(p) = {} /\ Cardinality(Holding(p)) = 0
        BY <3>2, FS_EmptySet DEF Holding, Calling
      <4>2. QED
        BY <2>3, <4>1
    <3>3. CASE Holding(p) # {}
      <4>1. Cardinality(Holding(p)) # 0
        BY <3>3, HoldersFinite, FS_EmptySet
      <4>2. lease.ttl > 1
        BY <2>1, <2>2, <2>5, <3>1, <3>3, <4>1
      <4>3. capacity'[p].count = lease.count /\ capacity'[p].ttl = lease.ttl - 1
        BY <2>1, <2>2, <4>2, LeaseSteps
      <4>4. ASSUME NEW r \in Calling(p)
            PROVE  capacity'[p].ttl > Timeout - requests'[r].age
        <5>1. /\ requests[r].age \in Nat /\ requests'[r].age = requests[r].age + 1
              /\ Timeout \in Nat
          <6>1. r \in Requests /\ requests[r].phase = "calling" /\ requests[r] \in RowRecords
            BY DEF Calling, RoutingTypeOK, Rows
          <6>2. requests[r].age \in 0..Timeout /\ Timeout \in Nat
            BY <6>1, RoutingAssumption DEF RowRecords
          <6>3. QED
            BY <1>1, <6>1, <6>2
        <5>2. lease.ttl > Timeout - requests[r].age
          BY <3>1
        <5>3. QED
          BY <2>1, <4>3, <5>1, <5>2
      <4>5. QED
        BY <3>1, <4>3, <4>4
    <3>4. QED
      BY <3>2, <3>3
  <2>6. QED
    BY <1>2, <2>4, <2>5 DEF Covers
<1>5. QED
  BY <1>3, <1>4 DEF LeasesCover

LEMMA LeasesCoverKept ==
    RoutingTypeOK /\ RoutingTypeOK' /\ LeasesCover /\ [NextRouting]_routingVars => LeasesCover'
<1> SUFFICES ASSUME RoutingTypeOK, RoutingTypeOK', LeasesCover, [NextRouting]_routingVars
             PROVE  LeasesCover'
  OBVIOUS
<1>1. ASSUME NEW r \in Requests, Proceed(r) PROVE LeasesCover'
  BY <1>1, ProceedCovers
<1>2. CASE Tick
  BY <1>2, ClockCovers
<1>3. /\ account \in Leased /\ account.count \in Nat /\ AccountLimit \in Nat
      /\ Cardinality(Admitted) \in Nat
  BY RoutingAssumption, HoldersFinite DEF RoutingTypeOK, Leased, Lease
<1>4. ASSUME NEW r \in Requests, Admit(r) PROVE LeasesCover'
  <2>1. /\ requests[r].phase = "idle" /\ account.count < AccountLimit
        /\ account' = Acquired(account) /\ capacity' = capacity /\ overrun' = overrun
    BY <1>4 DEF Admit, HasPlace
  <2>2. /\ requests'[r].phase = "admitted"
        /\ \A q \in Requests \ {r} : requests'[q] = requests[q]
    BY <1>4, AdmitRow
  <2>3. account'.count = account.count + 1
    BY <1>3, <2>1, LeaseSteps
  <2>4. OthersSame(r)
    BY <2>2 DEF OthersSame, SameWay
  <2>5. Admitted' = Admitted \union {r} /\ r \notin Admitted
    <3>1. Admitted' \ {r} = Admitted \ {r}
      BY <2>4, OthersHold
    <3>2. r \in Admitted' /\ r \notin Admitted
      BY <2>1, <2>2 DEF Admitted
    <3>3. QED
      BY <3>1, <3>2
  <2>6. Cardinality(Admitted') = Cardinality(Admitted) + 1
    BY <2>5, HoldersFinite, OneMore
  <2>7. AccountCovers'
    BY <1>3, <2>1, <2>3, <2>6 DEF LeasesCover, AccountCovers
  <2>8. ASSUME NEW p \in Providers PROVE Covers(p)'
    <3>1. Covers(p)
      BY DEF LeasesCover
    <3>2. /\ Holding(p)' \ {r} = Holding(p) \ {r} /\ Calling(p)' \ {r} = Calling(p) \ {r}
          /\ \A q \in Requests \ {r} : requests'[q].age = requests[q].age
      BY <2>4, OthersHold
    <3>3. /\ r \notin Holding(p) /\ r \notin Holding(p)'
          /\ r \notin Calling(p) /\ r \notin Calling(p)'
      BY <2>1, <2>2 DEF Holding, Calling
    <3>4. Calling(p)' \subseteq Requests
      BY DEF Calling
    <3>5. /\ Holding(p)' = Holding(p) /\ Calling(p)' \subseteq Calling(p)
          /\ \A q \in Calling(p)' : requests'[q].age = requests[q].age
      BY <3>2, <3>3, <3>4
    <3>6. QED
      BY <2>1, <3>1, <3>5, CoversStill
  <2>9. QED
    BY <2>7, <2>8 DEF LeasesCover
<1>5. ASSUME NEW r \in Requests, TurnAway(r) \/ AdmissionLost(r) PROVE LeasesCover'
  <2>1. /\ account' = account \/ (account.count < AccountLimit /\ account' = Acquired(account))
        /\ capacity' = capacity /\ requests' = requests /\ overrun' = overrun
    BY <1>5 DEF TurnAway, AdmissionLost, HasPlace, Refused
  <2>2. account'.count \in Nat /\ account'.count >= account.count
    BY <1>3, <2>1, LeaseSteps
  <2>3. account'.count <= AccountLimit
    BY <1>3, <2>1, LeaseSteps DEF LeasesCover, AccountCovers
  <2>4. Admitted' = Admitted
    BY <2>1 DEF Admitted
  <2>5. AccountCovers'
    BY <1>3, <2>1, <2>2, <2>3, <2>4 DEF LeasesCover, AccountCovers
  <2>6. ASSUME NEW p \in Providers PROVE Covers(p)'
    BY <2>1 DEF LeasesCover, Covers, Holding, Calling, Provider
  <2>7. QED
    BY <2>5, <2>6 DEF LeasesCover
<1>6. CASE Restart
  <2>1. /\ \A r \in Requests : requests'[r].phase = "idle"
        /\ account' = account /\ capacity' = capacity
    BY <1>6, FixedRows DEF Restart
  <2>2. Admitted' = {} /\ \A p \in Providers : Holding(p)' = {} /\ Calling(p)' = {}
    BY <2>1 DEF Admitted, Holding, Calling
  <2>3. Cardinality({}) = 0
    BY FS_EmptySet
  <2>4. AccountCovers'
    BY <1>3, <2>1, <2>2, <2>3 DEF LeasesCover, AccountCovers
  <2>5. ASSUME NEW p \in Providers PROVE Covers(p)'
    <3>1. capacity[p].count \in Nat
      BY DEF RoutingTypeOK, Leased, Lease
    <3>2. Calling(p)' = {} /\ Cardinality(Holding(p)') = 0
      BY <2>2, <2>3
    <3>3. capacity'[p].count <= ProviderLimit[p] /\ capacity'[p].count \in Nat
      BY <2>1, <3>1 DEF LeasesCover, Covers
    <3>4. QED
      BY <3>2, <3>3 DEF Covers
  <2>6. QED
    BY <2>4, <2>5 DEF LeasesCover
<1>7. CASE UNCHANGED routingVars
  BY <1>7 DEF routingVars, LeasesCover, AccountCovers, Covers,
              Admitted, Holding, Calling, Provider
<1>8. QED
  BY <1>1, <1>2, <1>4, <1>5, <1>6, <1>7 DEF NextRouting

LEMMA LeasesCoverInitially == InitRouting => LeasesCover
<1> SUFFICES ASSUME InitRouting PROVE LeasesCover
  OBVIOUS
<1>1. /\ \A r \in Requests : requests[r].phase = "idle"
      /\ account.count = 0 /\ \A p \in Providers : capacity[p].count = 0
  BY FixedRows DEF InitRouting, Gone
<1>2. Admitted = {} /\ \A p \in Providers : Holding(p) = {} /\ Calling(p) = {}
  BY <1>1 DEF Admitted, Holding, Calling
<1>3. Cardinality({}) = 0
  BY FS_EmptySet
<1>4. AccountCovers
  BY <1>1, <1>2, <1>3, RoutingAssumption DEF AccountCovers
<1>5. ASSUME NEW p \in Providers PROVE Covers(p)
  <2>1. Calling(p) = {} /\ Cardinality(Holding(p)) = 0
    BY <1>2, <1>3
  <2>2. capacity[p].count = 0 /\ ProviderLimit[p] \in Nat
    BY <1>1, RoutingAssumption
  <2>3. QED
    BY <2>1, <2>2 DEF Covers
<1>6. QED
  BY <1>4, <1>5 DEF LeasesCover

(* Whatever the limits, the requests and the order of their steps: a call  *)
(* ends before its lease on the provider, unless that lease has expired    *)
(* under somebody who has not let go of it yet.                            *)
THEOREM LeasesOutliveCalls == SpecRouting => []LeaseOutlivesCall
<1>1. InitRouting => RoutingTypeOK /\ LeasesCover
  BY RoutingTypesInitially, LeasesCoverInitially
<1>2. /\ RoutingTypeOK /\ LeasesCover /\ [NextRouting]_routingVars
      => RoutingTypeOK' /\ LeasesCover'
  BY RoutingTypesKept, LeasesCoverKept
<1>3. LeasesCover => LeaseOutlivesCall
  BY DEF LeasesCover, Covers, LeaseOutlivesCall
<1>4. QED
  BY <1>1, <1>2, <1>3, PTL DEF SpecRouting

(* No more requests of a key and no more calls to a provider at a time     *)
(* than their limits, though answers are lost and processes die, until a   *)
(* lease expires under a holder.                                           *)
THEOREM LimitsHold == SpecRouting => []HoldersWithinLimit
<1>1. InitRouting => RoutingTypeOK /\ LeasesCover
  BY RoutingTypesInitially, LeasesCoverInitially
<1>2. /\ RoutingTypeOK /\ LeasesCover /\ [NextRouting]_routingVars
      => RoutingTypeOK' /\ LeasesCover'
  BY RoutingTypesKept, LeasesCoverKept
<1>3. RoutingTypeOK /\ LeasesCover => HoldersWithinLimit
  <2>1. SUFFICES ASSUME RoutingTypeOK, LeasesCover PROVE HoldersWithinLimit
    OBVIOUS
  <2>2. /\ account.count \in Nat /\ AccountLimit \in Nat /\ Cardinality(Admitted) \in Nat
    BY <2>1, RoutingAssumption, HoldersFinite DEF RoutingTypeOK, Leased, Lease
  <2>3. Key \notin overrun => Cardinality(Admitted) <= AccountLimit
    BY <2>1, <2>2 DEF LeasesCover, AccountCovers
  <2>4. ASSUME NEW p \in Providers \ overrun
        PROVE  Cardinality(Holding(p)) <= ProviderLimit[p]
    <3>1. /\ capacity[p].count \in Nat /\ ProviderLimit[p] \in Nat
          /\ Cardinality(Holding(p)) \in Nat
      BY <2>1, RoutingAssumption, HoldersFinite DEF RoutingTypeOK, Leased, Lease
    <3>2. QED
      BY <2>1, <3>1 DEF LeasesCover, Covers
  <2>5. QED
    BY <2>3, <2>4 DEF HoldersWithinLimit
<1>4. QED
  BY <1>1, <1>2, <1>3, PTL DEF SpecRouting

-----------------------------------------------------------------------------
(* Windows *)

(* A key that has expired counts nothing.                                  *)
Counters == {c \in [count : Nat, ttl : 0..WindowTicks] : c.count = 0 <=> c.ttl = 0}

WindowsTypeOK ==
    /\ tick \in Times
    /\ production \in BOOLEAN
    /\ counter \in Counters
    /\ knocks \in [Times -> Nat] /\ hits \in [Times -> Nat] /\ allowed \in [Times -> Nat]
    /\ losses \in Nat

(* When the window began, or one would with the next request; the requests *)
(* it has let in, at most; and those that n windows let in, at most.       *)
Begun == tick - (IF counter.count = 0 THEN 0 ELSE WindowTicks - counter.ttl)
Used == IF counter.count <= RateLimit THEN counter.count ELSE RateLimit
Granted(n) == RateLimit * n

From(u) == {t \in Times : u <= t}
Since(u) == {t \in Times : u <= t /\ t <= tick}

(* Requests let in by the counter in Redis.  From the start of the window  *)
(* on they are of this one and of those that were lost, from a window      *)
(* before it on of one more; and any stretch meets two and the lost ones.  *)
SharedIsBounded(shared) ==
    /\ \A u \in Times : Begun <= u => SumOver(shared, From(u)) <= Granted(losses) + Used
    /\ \A u \in Times : Begun - WindowTicks <= u =>
                            SumOver(shared, From(u)) <= Granted(losses + 1) + Used
    /\ \A t \in Times : SumOver(shared, Last(t)) <= Granted(losses + 2)
    /\ \A t \in Times : t > tick => shared[t] = 0

(* Requests let in by the timestamps in memory, which keep every one that  *)
(* may count.                                                              *)
RememberedIsBounded(remembered) ==
    /\ \A t \in Times :
          SumOver(remembered, Last(t)) <= (IF production THEN 0 ELSE RateLimit)
    /\ \A t \in Times : t > tick - WindowTicks => remembered[t] <= knocks[t]

AllowedIsSplit(shared, remembered) ==
    \A t \in Times :
        SumOver(allowed, Last(t)) = SumOver(shared, Last(t)) + SumOver(remembered, Last(t))

(* What the window counts was asked for since it began.                    *)
CountedWereMade == counter.count <= SumOver(hits, Since(Begun))

WindowsInv ==
    /\ WindowsTypeOK
    /\ \E shared, remembered \in [Times -> Nat] :
          /\ SharedIsBounded(shared)
          /\ RememberedIsBounded(remembered)
          /\ AllowedIsSplit(shared, remembered)
    /\ CountedWereMade

(* Sums over some of the times.                                            *)
LEMMA TimesAreFinite ==
    \A S : S \subseteq Times => IsFiniteSet(S)
<1>1. IsFiniteSet(Times)
  BY WindowsAssumption, FS_Interval DEF Times
<1> QED
  BY <1>1, FS_Subset

LEMMA SumOverType ==
    ASSUME NEW f \in [Times -> Nat], NEW S, S \subseteq Times
    PROVE  SumOver(f, S) \in Nat
<1>1. IsFiniteSet(S)
  BY TimesAreFinite
<1>2. [t \in S |-> f[t]] \in [S -> Nat]
  OBVIOUS
<1> QED
  BY <1>1, <1>2, SumType DEF SumOver

LEMMA SumOverGrows ==
    ASSUME NEW f \in [Times -> Nat], NEW S, NEW T, S \subseteq T, T \subseteq Times
    PROVE  SumOver(f, S) <= SumOver(f, T)
<1> DEFINE few == [t \in S |-> f[t]]
           many == [t \in T |-> f[t]]
<1>1. /\ few \in [S -> Nat] /\ many \in [T -> Nat]
      /\ \A t \in S : few[t] = many[t]
      /\ SumOver(f, S) = SumOf(few) /\ SumOver(f, T) = SumOf(many)
  BY DEF SumOver
<1>2. IsFiniteSet(T)
  BY TimesAreFinite
<1> HIDE DEF few, many
<1>3. Units(few) \subseteq Units(many)
  <2>1. SUFFICES ASSUME NEW unit \in Units(few) PROVE unit \in Units(many)
    OBVIOUS
  <2>2. PICK t \in S : unit \in {t} \X (1..few[t])
    BY <1>1, <2>1, UnitsMember
  <2> QED
    BY <1>1, <2>2, UnitsMember
<1>4. IsFiniteSet(Units(many))
  BY <1>1, <1>2, SumType
<1> QED
  BY <1>1, <1>3, <1>4, FS_Subset DEF SumOf

LEMMA SumOverMore ==
    ASSUME NEW f \in [Times -> Nat], NEW g \in [Times -> Nat], NEW S, S \subseteq Times,
           \A t \in S : f[t] <= g[t]
    PROVE  SumOver(f, S) <= SumOver(g, S)
<1> DEFINE less == [t \in S |-> f[t]]
           more == [t \in S |-> g[t]]
<1>1. /\ less \in [S -> Nat] /\ more \in [S -> Nat]
      /\ \A t \in S : less[t] <= more[t]
      /\ SumOver(f, S) = SumOf(less) /\ SumOver(g, S) = SumOf(more)
  BY DEF SumOver
<1>2. IsFiniteSet(S)
  BY TimesAreFinite
<1> HIDE DEF less, more
<1> QED
  BY <1>1, <1>2, SumMonotone

LEMMA SumOverNone ==
    ASSUME NEW f \in [Times -> Nat], NEW S, S \subseteq Times, \A t \in S : f[t] = 0
    PROVE  SumOver(f, S) = 0
<1> DEFINE none == [t \in S |-> f[t]]
<1>1. none \in [S -> Nat] /\ (\A t \in S : none[t] = 0) /\ SumOver(f, S) = SumOf(none)
  BY DEF SumOver
<1> HIDE DEF none
<1> QED
  BY <1>1, SumOfZeros

(* One summand more.                                                       *)
LEMMA SumOverRaised ==
    ASSUME NEW f \in [Times -> Nat], NEW g \in [Times -> Nat],
           NEW now \in Times, NEW d \in Nat,
           g[now] = f[now] + d, \A t \in Times \ {now} : g[t] = f[t],
           NEW S, S \subseteq Times
    PROVE  SumOver(g, S) = SumOver(f, S) + (IF now \in S THEN d ELSE 0)
<1> DEFINE before == [t \in S |-> f[t]]
           after == [t \in S |-> g[t]]
<1>1. /\ before \in [S -> Nat] /\ after \in [S -> Nat]
      /\ SumOver(f, S) = SumOf(before) /\ SumOver(g, S) = SumOf(after)
      /\ \A t \in S \ {now} : after[t] = before[t]
      /\ now \in S => after[now] = before[now] + d
      /\ now \notin S => after = before
  BY DEF SumOver
<1>2. IsFiniteSet(S)
  BY TimesAreFinite
<1> HIDE DEF before, after
<1>3. SumOf(before) \in Nat /\ SumOf(after) \in Nat
  BY <1>1, <1>2, SumType
<1>4. CASE now \in S
  <2>1. SumOf(after) + before[now] = SumOf(before) + after[now]
    BY <1>1, <1>2, <1>4, SumChange
  <2>2. before[now] \in Nat
    BY <1>1, <1>4
  <2> QED
    BY <1>1, <1>3, <1>4, <2>1, <2>2
<1>5. CASE now \notin S
  BY <1>1, <1>3, <1>5
<1> QED
  BY <1>4, <1>5

(* The same for any two functions of which one has more at a time.         *)
Raised(f, g, now, d) ==
    /\ now \in Times /\ d \in Nat
    /\ f \in [Times -> Nat] /\ g \in [Times -> Nat]
    /\ g[now] = f[now] + d
    /\ \A t \in Times \ {now} : g[t] = f[t]

Share(d, now, S) == IF now \in S THEN d ELSE 0

LEMMA RaisedSums ==
    \A f, g, now, d, S :
        Raised(f, g, now, d) /\ S \subseteq Times =>
            /\ SumOver(f, S) \in Nat /\ SumOver(g, S) \in Nat
            /\ SumOver(g, S) = SumOver(f, S) + Share(d, now, S)
BY SumOverRaised, SumOverType DEF Raised, Share

LEMMA RaisedAt ==
    ASSUME NEW f \in [Times -> Nat], NEW now \in Times, NEW d \in Nat,
           NEW g, g = [f EXCEPT ![now] = @ + d]
    PROVE  Raised(f, g, now, d)
<1>1. f[now] + d \in Nat
  OBVIOUS
<1> QED
  BY <1>1 DEF Raised

(* A window is no longer than it is, and its grants are numbers.           *)
LEMMA WindowFacts ==
    ASSUME WindowsTypeOK
    PROVE  /\ Begun \in Int /\ tick - WindowTicks <= Begun /\ Begun <= tick
           /\ counter.count > 0 => tick - WindowTicks < Begun
           /\ Used \in Nat /\ Used <= RateLimit
           /\ tick \in Nat /\ counter.count \in Nat
<1>1. /\ tick \in Nat /\ WindowTicks \in Nat \ {0} /\ RateLimit \in Nat \ {0}
      /\ counter.count \in Nat /\ counter.ttl \in 0..WindowTicks
      /\ counter.count = 0 <=> counter.ttl = 0
  BY WindowsAssumption DEF WindowsTypeOK, Times, Counters
<1> QED
  BY <1>1 DEF Begun, Used

LEMMA GrantedFacts ==
    ASSUME NEW n \in Nat
    PROVE  Granted(n) \in Nat /\ Granted(n + 1) = Granted(n) + RateLimit
BY WindowsAssumption DEF Granted

(* A request of a window is in it, and leaves it where it began.           *)
LEMMA CountedFacts ==
    ASSUME WindowsTypeOK, counter' = Counted(counter), tick' = tick
    PROVE  /\ counter' \in Counters
           /\ counter'.count = counter.count + 1
           /\ Begun' = Begun
           /\ Used' \in Nat /\ Used <= Used' /\ Used' <= RateLimit
           /\ counter'.count <= RateLimit => Used' = Used + 1
<1>1. /\ tick \in Nat /\ WindowTicks \in Nat \ {0} /\ RateLimit \in Nat \ {0}
      /\ counter.count \in Nat /\ counter.ttl \in 0..WindowTicks
      /\ counter.count = 0 <=> counter.ttl = 0
  BY WindowsAssumption DEF WindowsTypeOK, Times, Counters
<1>2. /\ counter' = [count |-> counter.count + 1,
                     ttl |-> IF counter.count = 0 THEN WindowTicks ELSE counter.ttl]
  BY DEF Counted
<1>3. /\ counter'.count = counter.count + 1
      /\ counter'.ttl = IF counter.count = 0 THEN WindowTicks ELSE counter.ttl
  BY <1>2
<1>4. counter' \in Counters
  BY <1>1, <1>2 DEF Counters
<1>5. Begun' = Begun
  BY <1>1, <1>3 DEF Begun
<1>6. /\ Used' \in Nat /\ Used <= Used' /\ Used' <= RateLimit
      /\ counter'.count <= RateLimit => Used' = Used + 1
  BY <1>1, <1>3 DEF Used
<1> QED
  BY <1>3, <1>4, <1>5, <1>6

(* The requests that the counter lets in now are of its window.            *)
LEMMA SharedCounts ==
    ASSUME WindowsTypeOK,
           NEW shared \in [Times -> Nat], NEW more \in [Times -> Nat], NEW d \in Nat,
           SharedIsBounded(shared),
           more[tick] = shared[tick] + d, \A t \in Times \ {tick} : more[t] = shared[t],
           tick' = tick, losses' = losses, Begun' = Begun,
           Used' \in Nat, Used + d <= Used', Used' <= RateLimit
    PROVE  SharedIsBounded(more)'
<1>1. tick \in Times /\ losses \in Nat
  BY DEF WindowsTypeOK
<1>2. /\ tick \in Times /\ losses \in Nat
      /\ WindowTicks \in Nat \ {0} /\ RateLimit \in Nat \ {0}
      /\ \A t \in Times : t \in Nat
  BY <1>1, WindowsAssumption DEF Times
<1>3. \A t \in Times : Last(t) \subseteq Times /\ From(t) \subseteq Times
  BY DEF Last, From
<1>4. /\ tick \in Times /\ losses \in Nat
      /\ WindowTicks \in Nat \ {0} /\ RateLimit \in Nat \ {0}
      /\ \A t \in Times : t \in Nat
      /\ \A t \in Times : Last(t) \subseteq Times /\ From(t) \subseteq Times
  BY <1>2, <1>3
<1>5. /\ Begun \in Int /\ Begun <= tick /\ tick \in Nat /\ Used \in Nat
  BY WindowFacts
<1>6. PICK g \in Nat : /\ Granted(losses) = g /\ Granted(losses + 1) = g + RateLimit
                       /\ Granted(losses + 2) = g + RateLimit + RateLimit
  <2>1. losses + 1 \in Nat /\ losses + 2 = (losses + 1) + 1
    BY <1>4
  <2> QED
    BY <1>4, <2>1, GrantedFacts
<1>7. ASSUME NEW S, S \subseteq Times
      PROVE  /\ SumOver(shared, S) \in Nat
             /\ SumOver(more, S) = SumOver(shared, S) + (IF tick \in S THEN d ELSE 0)
  <2>1. SumOver(shared, S) \in Nat
    BY <1>7, SumOverType
  <2>2. SumOver(more, S) = SumOver(shared, S) + (IF tick \in S THEN d ELSE 0)
    BY <1>4, <1>7, SumOverRaised
  <2> QED
    BY <2>1, <2>2
<1>8. ASSUME NEW u \in Times, Begun <= u
      PROVE  SumOver(more, From(u)) <= Granted(losses) + Used'
  <2>1. SumOver(shared, From(u)) <= g + Used
    BY <1>6, <1>8 DEF SharedIsBounded
  <2>2. PICK x, y \in Nat : /\ x = SumOver(shared, From(u)) /\ y = SumOver(more, From(u))
                            /\ y = x + (IF tick \in From(u) THEN d ELSE 0)
    <3>1. From(u) \subseteq Times
      BY <1>4
    <3>2. SumOver(shared, From(u)) \in Nat /\ SumOver(more, From(u)) \in Nat
      BY <3>1, SumOverType
    <3>3. SumOver(more, From(u)) = SumOver(shared, From(u)) + (IF tick \in From(u) THEN d ELSE 0)
      BY <1>7, <3>1
    <3> QED
      BY <3>2, <3>3
  <2> QED
    BY <1>5, <1>6, <2>1, <2>2
<1>9. ASSUME NEW u \in Times, Begun - WindowTicks <= u
      PROVE  SumOver(more, From(u)) <= Granted(losses + 1) + Used'
  <2>1. SumOver(shared, From(u)) <= g + RateLimit + Used
    BY <1>6, <1>9 DEF SharedIsBounded
  <2>2. PICK x, y \in Nat : /\ x = SumOver(shared, From(u)) /\ y = SumOver(more, From(u))
                            /\ y = x + (IF tick \in From(u) THEN d ELSE 0)
    <3>1. From(u) \subseteq Times
      BY <1>4
    <3>2. SumOver(shared, From(u)) \in Nat /\ SumOver(more, From(u)) \in Nat
      BY <3>1, SumOverType
    <3>3. SumOver(more, From(u)) = SumOver(shared, From(u)) + (IF tick \in From(u) THEN d ELSE 0)
      BY <1>7, <3>1
    <3> QED
      BY <3>2, <3>3
  <2> QED
    BY <1>5, <1>6, <1>2, <2>1, <2>2
<1>10. ASSUME NEW t \in Times
      PROVE  SumOver(more, Last(t)) <= Granted(losses + 2)
  <2>1. CASE t < tick
    <3>1. tick \notin Last(t)
      BY <1>4, <2>1 DEF Last
    <3>2. SumOver(shared, Last(t)) <= Granted(losses + 2)
      BY DEF SharedIsBounded
    <3>3. SumOver(shared, Last(t)) \in Nat /\ SumOver(more, Last(t)) = SumOver(shared, Last(t)) + 0
      BY <1>4, <1>7, <3>1
    <3> QED
      BY <3>2, <3>3
  <2>2. CASE tick <= t
    <3>1. PICK u \in Times : t - WindowTicks + 1 <= u /\ Last(t) \subseteq From(u)
      <4>1. CASE t - WindowTicks + 1 >= 0
        <5>1. t - WindowTicks + 1 \in Times /\ Last(t) \subseteq From(t - WindowTicks + 1)
          BY <1>4, <4>1, WindowsAssumption DEF Times, Last, From
        <5> QED
          BY <1>4, <5>1
      <4>2. CASE t - WindowTicks + 1 < 0
        <5>1. 0 \in Times /\ Last(t) \subseteq From(0)
          BY <1>4, <4>2, WindowsAssumption DEF Times, Last, From
        <5> QED
          BY <1>4, <4>2, <5>1
      <4> QED
        BY <1>4, <4>1, <4>2
    <3>2. SumOver(more, Last(t)) <= SumOver(more, From(u))
      BY <1>4, <3>1, SumOverGrows
    <3>3. SumOver(more, From(u)) <= Granted(losses + 1) + Used'
      <4>1. u \in Nat /\ t \in Nat
        BY <1>4
      <4>2. Begun - WindowTicks <= u
        BY <1>4, <1>5, <2>2, <3>1, <4>1
      <4> QED
        BY <1>9, <4>2
    <3>4. SumOver(more, Last(t)) \in Nat /\ SumOver(more, From(u)) \in Nat
      BY <1>4, SumOverType
    <3> QED
      BY <1>4, <1>6, <3>2, <3>3, <3>4
  <2> QED
    BY <1>4, <1>5, <2>1, <2>2
<1>11. \A t \in Times : t > tick => more[t] = 0
  BY <1>4 DEF SharedIsBounded
<1> QED
  BY <1>8, <1>9, <1>10, <1>11 DEF SharedIsBounded

(* The requests that the timestamps let in now are among those kept.       *)
LEMMA RememberedCounts ==
    ASSUME WindowsTypeOK, ~production, production' = production, tick' = tick,
           NEW remembered \in [Times -> Nat], NEW more \in [Times -> Nat], NEW d \in Nat,
           RememberedIsBounded(remembered),
           knocks' = [Recent(knocks) EXCEPT ![tick] = @ + 1],
           d = IF SumOver(knocks', Times) <= RateLimit THEN 1 ELSE 0,
           more[tick] = remembered[tick] + d,
           \A t \in Times \ {tick} : more[t] = remembered[t]
    PROVE  knocks' \in [Times -> Nat] /\ RememberedIsBounded(more)'
<1>1. tick \in Times /\ knocks \in [Times -> Nat]
  BY DEF WindowsTypeOK
<1>2. WindowTicks \in Nat \ {0} /\ RateLimit \in Nat \ {0} /\ \A t \in Times : t \in Nat
  BY WindowsAssumption DEF Times
<1>3. /\ tick \in Times /\ WindowTicks \in Nat \ {0} /\ RateLimit \in Nat \ {0}
      /\ \A t \in Times : t \in Nat
      /\ knocks \in [Times -> Nat]
  BY <1>1, <1>2
<1>4. \A t \in Times : Last(t) \subseteq Times
  BY DEF Last
<1>5. PICK log \in [Times -> Nat] :
         /\ log = knocks'
         /\ log[tick] = knocks[tick] + 1
         /\ \A t \in Times \ {tick} : t > tick - WindowTicks => log[t] = knocks[t]
  <2>1. PICK kept \in [Times -> Nat] :
           kept = [t \in Times |-> IF t > tick - WindowTicks THEN knocks[t] ELSE 0]
    BY <1>3
  <2>2. knocks' = [kept EXCEPT ![tick] = @ + 1]
    BY <2>1 DEF Recent
  <2>3. kept[tick] = knocks[tick] /\ \A t \in Times : t > tick - WindowTicks => kept[t] = knocks[t]
    BY <1>3, <2>1
  <2> QED
    BY <1>3, <2>2, <2>3
<1>6. \A t \in Times : t > tick - WindowTicks => more[t] <= log[t]
  <2>1. \A t \in Times : t > tick - WindowTicks => remembered[t] <= knocks[t]
    BY DEF RememberedIsBounded
  <2>2. remembered[tick] <= knocks[tick]
    BY <1>3, <2>1
  <2>3. more[tick] <= log[tick]
    BY <1>3, <1>5, <2>2
  <2> QED
    BY <1>3, <1>5, <2>1, <2>3
<1>7. ASSUME NEW t \in Times
      PROVE  SumOver(more, Last(t)) <= RateLimit
  <2>1. PICK x, y \in Nat : /\ x = SumOver(remembered, Last(t)) /\ y = SumOver(more, Last(t))
                            /\ y = x + (IF tick \in Last(t) THEN d ELSE 0)
    <3>1. Last(t) \subseteq Times
      BY <1>4
    <3>2. SumOver(remembered, Last(t)) \in Nat /\ SumOver(more, Last(t)) \in Nat
      BY <3>1, SumOverType
    <3>3. SumOver(more, Last(t))
              = SumOver(remembered, Last(t)) + (IF tick \in Last(t) THEN d ELSE 0)
      BY <1>3, <3>1, SumOverRaised
    <3> QED
      BY <3>2, <3>3
  <2>2. x <= RateLimit
    BY <2>1 DEF RememberedIsBounded
  <2>3. CASE d = 0 \/ t < tick
    <3>1. t < tick => tick \notin Last(t)
      BY <1>3 DEF Last
    <3> QED
      BY <2>1, <2>2, <2>3, <3>1
  <2>4. CASE d # 0 /\ tick <= t
    <3>1. SumOver(log, Times) <= RateLimit
      BY <1>5, <2>4
    <3>2. \A u \in Last(t) : u \in Times /\ u > tick - WindowTicks
      BY <1>3, <2>4 DEF Last
    <3>3. SumOver(more, Last(t)) <= SumOver(log, Last(t))
      BY <1>4, <1>6, <3>2, SumOverMore
    <3>4. SumOver(log, Last(t)) <= SumOver(log, Times)
      BY <1>4, SumOverGrows
    <3>5. SumOver(log, Last(t)) \in Nat /\ SumOver(log, Times) \in Nat
      BY <1>4, SumOverType
    <3> QED
      BY <1>3, <2>1, <3>1, <3>3, <3>4, <3>5
  <2> QED
    BY <1>3, <2>3, <2>4
<1>8. RememberedIsBounded(more)'
  <2>1. \A t \in Times : t > tick' - WindowTicks => more[t] <= knocks'[t]
    BY <1>5, <1>6
  <2> QED
    BY <1>7, <2>1 DEF RememberedIsBounded
<1> QED
  BY <1>5, <1>8

(* What is let in is let in by one of the two.                             *)
LEMMA SplitCounts ==
    ASSUME WindowsTypeOK, NEW c \in Nat, NEW d \in Nat,
           NEW shared, NEW shared2, NEW remembered, NEW remembered2,
           AllowedIsSplit(shared, remembered),
           allowed' = [allowed EXCEPT ![tick] = @ + (c + d)],
           Raised(shared, shared2, tick, c), Raised(remembered, remembered2, tick, d)
    PROVE  allowed' \in [Times -> Nat] /\ AllowedIsSplit(shared2, remembered2)'
<1>1. tick \in Times /\ allowed \in [Times -> Nat]
  BY DEF WindowsTypeOK
<1>2. c + d \in Nat
  OBVIOUS
<1>3. PICK before, after :
         before = allowed /\ after = allowed' /\ Raised(before, after, tick, c + d)
  BY <1>1, <1>2, RaisedAt
<1>4. after \in [Times -> Nat]
  BY <1>3 DEF Raised
<1>5. ASSUME NEW t \in Times
      PROVE  SumOver(after, Last(t)) = SumOver(shared2, Last(t)) + SumOver(remembered2, Last(t))
  <2>1. Last(t) \subseteq Times
    BY DEF Last
  <2>2. /\ SumOver(before, Last(t)) \in Nat
        /\ SumOver(after, Last(t))
              = SumOver(before, Last(t)) + Share(c + d, tick, Last(t))
    BY <1>3, <2>1, RaisedSums
  <2>3. /\ SumOver(shared, Last(t)) \in Nat
        /\ SumOver(shared2, Last(t))
              = SumOver(shared, Last(t)) + Share(c, tick, Last(t))
    BY <2>1, RaisedSums
  <2>4. /\ SumOver(remembered, Last(t)) \in Nat
        /\ SumOver(remembered2, Last(t))
              = SumOver(remembered, Last(t)) + Share(d, tick, Last(t))
    BY <2>1, RaisedSums
  <2>5. SumOver(before, Last(t)) = SumOver(shared, Last(t)) + SumOver(remembered, Last(t))
    BY <1>3 DEF AllowedIsSplit
  <2> QED
    BY <2>2, <2>3, <2>4, <2>5 DEF Share
<1>6. AllowedIsSplit(shared2, remembered2)'
  BY <1>3, <1>5 DEF AllowedIsSplit
<1> QED
  BY <1>3, <1>6, <1>4

(* A request that may have been counted has been made.                     *)
LEMMA KnockIsMade ==
    ASSUME WindowsTypeOK, CountedWereMade, Begun' = Begun, tick' = tick,
           counter'.count \in {counter.count, counter.count + 1},
           hits' = [hits EXCEPT ![tick] = @ + 1]
    PROVE  hits' \in [Times -> Nat] /\ CountedWereMade'
<1>1. tick \in Times /\ hits \in [Times -> Nat]
  BY DEF WindowsTypeOK
<1>2. Begun \in Int /\ Begun <= tick /\ tick \in Nat /\ counter.count \in Nat
  BY WindowFacts
<1>3. PICK before, after :
         before = hits /\ after = hits' /\ Raised(before, after, tick, 1)
  BY <1>1, RaisedAt
<1>4. PICK S : S = Since(Begun)
  OBVIOUS
<1>5. S \subseteq Times /\ tick \in S /\ Since(Begun)' = S
  BY <1>1, <1>2, <1>4 DEF Since
<1>6. /\ SumOver(before, S) \in Nat /\ SumOver(after, S) \in Nat
      /\ SumOver(after, S) = SumOver(before, S) + Share(1, tick, S)
  BY <1>3, <1>5, RaisedSums
<1>7. SumOver(after, S) = SumOver(before, S) + 1
  BY <1>5, <1>6 DEF Share
<1>8. counter.count <= SumOver(before, S)
  BY <1>3, <1>4 DEF CountedWereMade
<1>9. counter'.count <= SumOver(after, S)
  BY <1>2, <1>6, <1>7, <1>8
<1>10. SumOver(hits, Since(Begun))' = SumOver(after, S)
  BY <1>3, <1>5 DEF SumOver
<1>11. CountedWereMade'
  BY <1>9, <1>10 DEF CountedWereMade
<1>12. after \in [Times -> Nat]
  BY <1>3 DEF Raised
<1> QED
  BY <1>3, <1>11, <1>12

LEMMA RaisedExists ==
    ASSUME NEW f \in [Times -> Nat], NEW now \in Times, NEW d \in Nat
    PROVE  \E g \in [Times -> Nat] : Raised(f, g, now, d)
<1>1. [f EXCEPT ![now] = @ + d] \in [Times -> Nat]
  OBVIOUS
<1> QED
  BY <1>1, RaisedAt

LEMMA RaisedByNone ==
    ASSUME NEW f \in [Times -> Nat], NEW now \in Times
    PROVE  Raised(f, f, now, 0)
<1>1. f[now] \in Nat /\ f[now] = f[now] + 0
  OBVIOUS
<1> QED
  BY <1>1 DEF Raised

(* A request keeps the invariant: c of it are let in by the counter in     *)
(* Redis, d by the timestamps in memory.                                   *)
LEMMA RequestKeepsWindows ==
    ASSUME WindowsTypeOK, CountedWereMade,
           NEW shared \in [Times -> Nat], NEW remembered \in [Times -> Nat],
           SharedIsBounded(shared), RememberedIsBounded(remembered),
           AllowedIsSplit(shared, remembered),
           UNCHANGED <<tick, production, losses>>,
           hits' = [hits EXCEPT ![tick] = @ + 1],
           counter' \in {counter, Counted(counter)},
           NEW c \in {0, 1}, NEW d \in {0, 1},
           allowed' = [allowed EXCEPT ![tick] = @ + (c + d)],
           c = 1 => counter' = Counted(counter) /\ counter'.count <= RateLimit,
           \/ d = 0 /\ knocks' = knocks
           \/ /\ ~production
              /\ knocks' = [Recent(knocks) EXCEPT ![tick] = @ + 1]
              /\ d = IF SumOver(knocks', Times) <= RateLimit THEN 1 ELSE 0
    PROVE  WindowsInv'
<1>1. tick \in Times /\ counter \in Counters /\ c \in Nat /\ d \in Nat
  BY DEF WindowsTypeOK
<1>2. /\ counter' \in Counters
      /\ counter'.count \in {counter.count, counter.count + 1}
      /\ Begun' = Begun
      /\ Used' \in Nat /\ Used + c <= Used' /\ Used' <= RateLimit
  <2>1. CASE counter' = counter
    <3>1. Begun' = Begun /\ Used' = Used
      BY <2>1 DEF Begun, Used
    <3>2. c = 0
      <4>1. Counted(counter).count = counter.count + 1 /\ counter.count \in Nat
        BY <1>1 DEF Counted, Counters
      <4> QED
        BY <2>1, <4>1
    <3> QED
      BY <1>1, <2>1, <3>1, <3>2, WindowFacts
  <2>2. CASE counter' = Counted(counter)
    <3>1. /\ counter' \in Counters /\ counter'.count = counter.count + 1
          /\ Begun' = Begun
          /\ Used' \in Nat /\ Used <= Used' /\ Used' <= RateLimit
          /\ counter'.count <= RateLimit => Used' = Used + 1
      BY <2>2, CountedFacts
    <3>2. Used \in Nat
      BY WindowFacts
    <3> QED
      BY <3>1, <3>2
  <2> QED
    BY <2>1, <2>2
<1>3. PICK shared2 \in [Times -> Nat] : Raised(shared, shared2, tick, c)
  BY <1>1, RaisedExists
<1>4. PICK remembered2 \in [Times -> Nat] : Raised(remembered, remembered2, tick, d)
  BY <1>1, RaisedExists
<1>5. SharedIsBounded(shared2)'
  BY <1>1, <1>2, <1>3, SharedCounts DEF Raised
<1>6. knocks' \in [Times -> Nat] /\ RememberedIsBounded(remembered2)'
  <2>1. CASE d = 0 /\ knocks' = knocks
    <3>1. \A t \in Times : remembered2[t] = remembered[t]
      BY <1>1, <1>4, <2>1 DEF Raised
    <3>2. remembered2 = remembered
      BY <3>1
    <3>3. knocks \in [Times -> Nat]
      BY DEF WindowsTypeOK
    <3> QED
      BY <2>1, <3>2, <3>3 DEF RememberedIsBounded
  <2>2. CASE /\ ~production
             /\ knocks' = [Recent(knocks) EXCEPT ![tick] = @ + 1]
             /\ d = IF SumOver(knocks', Times) <= RateLimit THEN 1 ELSE 0
    BY <1>1, <1>4, <2>2, RememberedCounts DEF Raised
  <2> QED
    BY <2>1, <2>2
<1>7. allowed' \in [Times -> Nat] /\ AllowedIsSplit(shared2, remembered2)'
  BY <1>1, <1>3, <1>4, SplitCounts
<1>8. hits' \in [Times -> Nat] /\ CountedWereMade'
  BY <1>2, KnockIsMade
<1>9. WindowsTypeOK'
  BY <1>2, <1>6, <1>7, <1>8 DEF WindowsTypeOK
<1> QED
  BY <1>5, <1>6, <1>7, <1>8, <1>9 DEF WindowsInv

(* So does the clock.                                                      *)
LEMMA TockKeepsWindows ==
    ASSUME WindowsTypeOK, CountedWereMade,
           NEW shared \in [Times -> Nat], NEW remembered \in [Times -> Nat],
           SharedIsBounded(shared), RememberedIsBounded(remembered),
           AllowedIsSplit(shared, remembered),
           Tock
    PROVE  WindowsInv'
<1>1. /\ tick \in Times /\ tick' \in Times /\ tick' = tick + 1
      /\ \A t \in Times : t \in Nat
  BY WindowsAssumption DEF WindowsTypeOK, Tock, Times
<1>2. /\ WindowTicks \in Nat \ {0} /\ RateLimit \in Nat \ {0} /\ losses \in Nat
      /\ tick \in Nat /\ counter.count \in Nat /\ counter.ttl \in 0..WindowTicks
      /\ counter.count = 0 <=> counter.ttl = 0
  BY WindowsAssumption, <1>1 DEF WindowsTypeOK, Counters
<1>3. /\ UNCHANGED <<production, knocks, hits, allowed, losses>>
      /\ counter' = IF counter.ttl <= 1 THEN NoCounter ELSE [counter EXCEPT !.ttl = @ - 1]
  BY DEF Tock
<1>4. /\ Begun \in Int /\ tick - WindowTicks <= Begun /\ Begun <= tick
      /\ Used \in Nat /\ Used <= RateLimit
  BY WindowFacts
<1>5. PICK g \in Nat : /\ Granted(losses) = g /\ Granted(losses + 1) = g + RateLimit
  BY <1>2, GrantedFacts
<1>6. \A u \in Times : SumOver(shared, From(u)) \in Nat
  BY SumOverType DEF From
<1>7. RememberedIsBounded(remembered)' /\ AllowedIsSplit(shared, remembered)'
  <2>1. \A t \in Times : t > tick' - WindowTicks => t > tick - WindowTicks
    BY <1>1, <1>2
  <2> QED
    BY <1>3, <2>1 DEF RememberedIsBounded, AllowedIsSplit
<1>8. counter' \in Counters => WindowsTypeOK'
  BY <1>1, <1>3 DEF WindowsTypeOK
<1>9. CASE counter.ttl <= 1
  <2>1. counter' = [count |-> 0, ttl |-> 0]
    BY <1>3, <1>9 DEF NoCounter
  <2>2. counter' \in Counters /\ counter'.count = 0 /\ Begun' = tick + 1 /\ Used' = 0
    <3>1. counter'.count = 0 /\ counter'.ttl = 0
      BY <2>1
    <3> QED
      BY <1>1, <1>2, <2>1, <3>1 DEF Counters, Begun, Used
  <2>3. ASSUME NEW u \in Times, tick + 1 <= u
        PROVE  SumOver(shared, From(u)) <= Granted(losses)
    <3>1. From(u) \subseteq Times /\ \A t \in From(u) : shared[t] = 0
      BY <1>1, <1>2, <2>3 DEF From, SharedIsBounded
    <3>2. SumOver(shared, From(u)) = 0
      BY <3>1, SumOverNone
    <3> QED
      BY <1>5, <3>2
  <2>4. ASSUME NEW u \in Times, tick + 1 - WindowTicks <= u
        PROVE  SumOver(shared, From(u)) <= Granted(losses + 1)
    <3>1. CASE counter.count = 0
      <4>1. Begun = tick /\ Used = 0
        BY <1>2, <3>1 DEF Begun, Used
      <4>2. Begun - WindowTicks <= u
        BY <1>1, <1>2, <2>4, <4>1
      <4>3. SumOver(shared, From(u)) <= Granted(losses + 1) + Used
        BY <4>2 DEF SharedIsBounded
      <4> QED
        BY <1>5, <1>2, <4>1, <4>3
    <3>2. CASE counter.count # 0
      <4>1. Begun = tick + 1 - WindowTicks
        BY <1>2, <1>9, <3>2 DEF Begun
      <4>2. SumOver(shared, From(u)) <= Granted(losses) + Used
        BY <2>4, <4>1 DEF SharedIsBounded
      <4> QED
        BY <1>2, <1>4, <1>5, <1>6, <4>2
    <3> QED
      BY <3>1, <3>2
  <2>5. SharedIsBounded(shared)'
    <3>1. \A u \in Times : Begun' <= u => SumOver(shared, From(u)) <= Granted(losses') + Used'
      BY <1>3, <1>5, <2>2, <2>3
    <3>2. \A u \in Times :
             Begun' - WindowTicks <= u => SumOver(shared, From(u)) <= Granted(losses' + 1) + Used'
      BY <1>2, <1>3, <1>5, <2>2, <2>4
    <3>3. \A t \in Times : SumOver(shared, Last(t)) <= Granted(losses' + 2)
      BY <1>3 DEF SharedIsBounded
    <3>4. \A t \in Times : t > tick' => shared[t] = 0
      BY <1>1, <1>2 DEF SharedIsBounded
    <3> QED
      BY <3>1, <3>2, <3>3, <3>4 DEF SharedIsBounded
  <2>6. CountedWereMade'
    <3>1. SumOver(hits', Since(Begun)') \in Nat
      <4>1. PICK S : S = Since(Begun)' /\ S \subseteq Times
        BY DEF Since
      <4>2. hits \in [Times -> Nat] /\ hits' = hits
        BY <1>3 DEF WindowsTypeOK
      <4> QED
        BY <4>1, <4>2, SumOverType
    <3> QED
      BY <2>2, <3>1 DEF CountedWereMade
  <2> QED
    BY <1>7, <1>8, <2>2, <2>5, <2>6 DEF WindowsInv
<1>10. CASE counter.ttl > 1
  <2>1. /\ counter' \in Counters
        /\ counter'.count = counter.count /\ counter'.ttl = counter.ttl - 1
    <3>1. counter' = [counter EXCEPT !.ttl = counter.ttl - 1] /\ counter \in Counters
      BY <1>2, <1>3, <1>10 DEF WindowsTypeOK
    <3> QED
      BY <1>2, <1>10, <3>1 DEF Counters
  <2>2. Begun' = Begun /\ Used' = Used
    BY <1>1, <1>2, <1>10, <2>1 DEF Begun, Used
  <2>3. SharedIsBounded(shared)'
    <3>1. \A t \in Times : t > tick' => shared[t] = 0
      BY <1>1, <1>2 DEF SharedIsBounded
    <3> QED
      BY <1>3, <2>2, <3>1 DEF SharedIsBounded
  <2>4. CountedWereMade'
    <3>1. PICK S, T : S = Since(Begun) /\ T = Since(Begun)'
      OBVIOUS
    <3>2. /\ S = {t \in Times : Begun <= t /\ t <= tick}
          /\ T = {t \in Times : Begun <= t /\ t <= tick + 1}
      BY <1>1, <2>2, <3>1 DEF Since
    <3>3. \A t \in Times : t <= tick => t <= tick + 1
      BY <1>1, <1>2
    <3>4. S \subseteq T /\ T \subseteq Times
      BY <3>2, <3>3
    <3>5. hits \in [Times -> Nat] /\ hits' = hits
      BY <1>3 DEF WindowsTypeOK
    <3>6. SumOver(hits, S) <= SumOver(hits, T)
      BY <3>4, <3>5, SumOverGrows
    <3>7. SumOver(hits, S) \in Nat /\ SumOver(hits, T) \in Nat
      BY <3>4, <3>5, SumOverType
    <3>8. counter.count <= SumOver(hits, S)
      BY <3>1 DEF CountedWereMade
    <3>9. SumOver(hits, Since(Begun))' = SumOver(hits, T)
      BY <3>1, <3>5 DEF SumOver
    <3> QED
      BY <1>2, <2>1, <3>6, <3>7, <3>8, <3>9 DEF CountedWereMade
  <2> QED
    BY <1>7, <1>8, <2>1, <2>3, <2>4 DEF WindowsInv
<1> QED
  BY <1>2, <1>9, <1>10

(* And Redis, which loses the key.                                         *)
LEMMA LossKeepsWindows ==
    ASSUME WindowsTypeOK,
           NEW shared \in [Times -> Nat], NEW remembered \in [Times -> Nat],
           SharedIsBounded(shared), RememberedIsBounded(remembered),
           AllowedIsSplit(shared, remembered),
           LoseCounter
    PROVE  WindowsInv'
<1>1. /\ UNCHANGED <<tick, production, knocks, hits, allowed>>
      /\ counter' = [count |-> 0, ttl |-> 0]
      /\ losses \in Nat /\ losses' = losses + 1
  BY DEF LoseCounter, NoCounter, WindowsTypeOK
<1>2. /\ Begun \in Int /\ Begun <= tick /\ Used \in Nat /\ Used <= RateLimit /\ tick \in Nat
      /\ WindowTicks \in Nat \ {0} /\ RateLimit \in Nat \ {0}
      /\ \A t \in Times : t \in Nat
  BY WindowFacts, WindowsAssumption DEF Times
<1>3. counter' \in Counters /\ counter'.count = 0 /\ Begun' = tick /\ Used' = 0
  <2>1. counter'.count = 0 /\ counter'.ttl = 0
    BY <1>1
  <2> QED
    BY <1>1, <1>2, <2>1 DEF Counters, Begun, Used
<1>4. PICK g \in Nat : /\ Granted(losses) = g
                       /\ Granted(losses') = g + RateLimit
                       /\ Granted(losses + 1) = g + RateLimit
                       /\ Granted(losses' + 1) = g + RateLimit + RateLimit
                       /\ Granted(losses + 2) = g + RateLimit + RateLimit
                       /\ Granted(losses' + 2) = g + RateLimit + RateLimit + RateLimit
  <2>1. losses + 1 \in Nat /\ losses + 2 \in Nat
    BY <1>1
  <2>2. /\ Granted(losses) \in Nat
        /\ Granted(losses + 1) = Granted(losses) + RateLimit
        /\ Granted((losses + 1) + 1) = Granted(losses + 1) + RateLimit
        /\ Granted((losses + 2) + 1) = Granted(losses + 2) + RateLimit
    BY <1>1, <2>1, GrantedFacts
  <2>3. /\ (losses + 1) + 1 = losses + 2 /\ losses' = losses + 1
        /\ losses' + 1 = losses + 2 /\ losses' + 2 = (losses + 2) + 1
    BY <1>1
  <2> QED
    BY <2>2, <2>3
<1>5. \A S : S \subseteq Times => SumOver(shared, S) \in Nat
  BY SumOverType
<1>6. ASSUME NEW u \in Times
      PROVE  /\ tick <= u => SumOver(shared, From(u)) <= g + RateLimit
             /\ tick - WindowTicks <= u => SumOver(shared, From(u)) <= g + RateLimit + RateLimit
  <2>1. SumOver(shared, From(u)) \in Nat /\ u \in Nat
    BY <1>2, <1>5 DEF From
  <2>2. tick <= u => SumOver(shared, From(u)) <= g + Used
    BY <1>2, <1>4, <2>1 DEF SharedIsBounded
  <2>3. tick - WindowTicks <= u => SumOver(shared, From(u)) <= g + RateLimit + Used
    BY <1>2, <1>4, <2>1 DEF SharedIsBounded
  <2> QED
    BY <1>2, <2>1, <2>2, <2>3
<1>7. ASSUME NEW t \in Times
      PROVE  SumOver(shared, Last(t)) <= g + RateLimit + RateLimit + RateLimit
  <2>1. SumOver(shared, Last(t)) \in Nat
    BY <1>5 DEF Last
  <2>2. SumOver(shared, Last(t)) <= g + RateLimit + RateLimit
    BY <1>4 DEF SharedIsBounded
  <2> QED
    BY <1>2, <2>1, <2>2
<1>8. SharedIsBounded(shared)'
  <2>1. /\ \A u \in Times : tick <= u => SumOver(shared, From(u)) <= Granted(losses') + 0
        /\ \A u \in Times :
              tick - WindowTicks <= u => SumOver(shared, From(u)) <= Granted(losses' + 1) + 0
        /\ \A t \in Times : SumOver(shared, Last(t)) <= Granted(losses' + 2)
    BY <1>2, <1>4, <1>6, <1>7
  <2>2. \A t \in Times : t > tick' => shared[t] = 0
    BY <1>1 DEF SharedIsBounded
  <2> QED
    BY <1>3, <2>1, <2>2 DEF SharedIsBounded
<1>9. RememberedIsBounded(remembered)' /\ AllowedIsSplit(shared, remembered)'
  BY <1>1 DEF RememberedIsBounded, AllowedIsSplit
<1>10. WindowsTypeOK'
  BY <1>1, <1>3 DEF WindowsTypeOK
<1>11. CountedWereMade'
  <2>1. PICK S : S = Since(Begun)' /\ S \subseteq Times
    BY DEF Since
  <2>2. hits \in [Times -> Nat] /\ hits' = hits
    BY <1>1 DEF WindowsTypeOK
  <2>3. SumOver(hits', S) \in Nat
    BY <2>1, <2>2, SumOverType
  <2> QED
    BY <1>3, <2>1, <2>3 DEF CountedWereMade
<1> QED
  BY <1>8, <1>9, <1>10, <1>11 DEF WindowsInv

LEMMA StepKeepsWindows ==
    WindowsInv /\ [NextWindows]_windowVars => WindowsInv'
<1> SUFFICES ASSUME WindowsInv, [NextWindows]_windowVars
             PROVE  WindowsInv'
  OBVIOUS
<1>1. PICK shared \in [Times -> Nat], remembered \in [Times -> Nat] :
         /\ SharedIsBounded(shared)
         /\ RememberedIsBounded(remembered)
         /\ AllowedIsSplit(shared, remembered)
  BY DEF WindowsInv
<1>2. WindowsTypeOK /\ CountedWereMade /\ allowed \in [Times -> Nat] /\ tick \in Times
  BY DEF WindowsInv, WindowsTypeOK
<1>3. ASSUME ConsumeShared
      PROVE  WindowsInv'
  <2>1. PICK c \in {0, 1} : c = IF counter'.count <= RateLimit THEN 1 ELSE 0
    OBVIOUS
  <2>2. /\ UNCHANGED <<tick, production, losses>>
        /\ hits' = [hits EXCEPT ![tick] = @ + 1]
        /\ counter' = Counted(counter)
        /\ knocks' = knocks
    BY <1>3 DEF ConsumeShared, Knock
  <2>3. allowed' = [allowed EXCEPT ![tick] = @ + (c + 0)]
    <3>1. allowed' = [allowed EXCEPT ![tick] = @ + c]
      BY <1>3, <2>1 DEF ConsumeShared, Answer
    <3>2. c + 0 = c
      BY <2>1
    <3> QED
      BY <3>1, <3>2
  <2>4. c = 1 => counter'.count <= RateLimit
    BY <2>1
  <2>5. \E d \in {0, 1} : d = 0
    OBVIOUS
  <2> QED
    BY <1>1, <1>2, <2>2, <2>3, <2>4, <2>5, RequestKeepsWindows
<1>4. ASSUME ConsumeUnheard
      PROVE  WindowsInv'
  <2>1. PICK c \in {0, 1} : c = 0
    OBVIOUS
  <2>2. /\ UNCHANGED <<tick, production, losses>>
        /\ hits' = [hits EXCEPT ![tick] = @ + 1]
        /\ counter' \in {counter, Counted(counter)}
    BY <1>4 DEF ConsumeUnheard, Knock
  <2>3. PICK d \in {0, 1} :
           /\ allowed' = [allowed EXCEPT ![tick] = @ + (c + d)]
           /\ \/ d = 0 /\ knocks' = knocks
              \/ /\ ~production
                 /\ knocks' = [Recent(knocks) EXCEPT ![tick] = @ + 1]
                 /\ d = IF SumOver(knocks', Times) <= RateLimit THEN 1 ELSE 0
    <3>1. CASE production
      <4>1. knocks' = knocks /\ allowed' = [allowed EXCEPT ![tick] = @ + (c + 0)]
        BY <1>4, <2>1, <3>1 DEF ConsumeUnheard, Answer
      <4> QED
        BY <4>1
    <3>2. CASE ~production
      <4>1. PICK d \in {0, 1} : d = IF SumOver(knocks', Times) <= RateLimit THEN 1 ELSE 0
        OBVIOUS
      <4>2. /\ knocks' = [Recent(knocks) EXCEPT ![tick] = @ + 1]
            /\ allowed' = [allowed EXCEPT ![tick] = @ + d]
        BY <1>4, <3>2, <4>1 DEF ConsumeUnheard, Answer
      <4>3. c + d = d
        BY <2>1
      <4> QED
        BY <3>2, <4>1, <4>2, <4>3
    <3> QED
      BY <3>1, <3>2
  <2>4. c = 1 => counter' = Counted(counter) /\ counter'.count <= RateLimit
    BY <2>1
  <2> QED
    BY <1>1, <1>2, <2>2, <2>3, <2>4, RequestKeepsWindows
<1>5. ASSUME Tock
      PROVE  WindowsInv'
  BY <1>1, <1>2, <1>5, TockKeepsWindows
<1>6. ASSUME LoseCounter
      PROVE  WindowsInv'
  BY <1>1, <1>2, <1>6, LossKeepsWindows
<1>7. ASSUME UNCHANGED windowVars
      PROVE  WindowsInv'
  <2>1. WindowsTypeOK' /\ CountedWereMade'
    BY <1>2, <1>7 DEF windowVars, WindowsTypeOK, CountedWereMade, Begun, Since
  <2>2. /\ SharedIsBounded(shared)'
        /\ RememberedIsBounded(remembered)' /\ AllowedIsSplit(shared, remembered)'
    BY <1>1, <1>7 DEF windowVars, SharedIsBounded, RememberedIsBounded, AllowedIsSplit, Begun, Used
  <2> QED
    BY <2>1, <2>2 DEF WindowsInv
<1> QED
  BY <1>3, <1>4, <1>5, <1>6, <1>7 DEF NextWindows

(* For every limit, length of a window and number of requests: no stretch  *)
(* as long as a window lets in more than two windows do, with one more for *)
(* every key that Redis has lost and, where requests are also counted in   *)
(* memory, another; and the count turns nobody away who keeps to the limit *)
(* (assertScope, consume).                                                 *)
THEOREM WindowsBoundBursts ==
    SpecWindows => []BurstsAreBounded
<1>1. InitWindows({TRUE, FALSE}) => WindowsInv
  <2> SUFFICES ASSUME InitWindows({TRUE, FALSE})
               PROVE  WindowsInv
    OBVIOUS
  <2>1. /\ WindowTicks \in Nat \ {0} /\ RateLimit \in Nat \ {0} /\ 0 \in Times
        /\ \A t \in Times : t \in Nat
    BY WindowsAssumption DEF Times
  <2>2. Never \in [Times -> Nat] /\ \A t \in Times : Never[t] = 0
    BY DEF Never
  <2>3. /\ tick = 0 /\ production \in BOOLEAN /\ losses = 0
        /\ counter = [count |-> 0, ttl |-> 0]
        /\ knocks = Never /\ hits = Never /\ allowed = Never
    BY DEF InitWindows, NoCounter
  <2>4. counter \in Counters /\ counter.count = 0 /\ Begun = 0 /\ Used = 0
    <3>1. counter.count = 0 /\ counter.ttl = 0
      BY <2>3
    <3> QED
      BY <2>1, <2>3, <3>1 DEF Counters, Begun, Used
  <2>5. WindowsTypeOK
    BY <2>1, <2>2, <2>3, <2>4 DEF WindowsTypeOK
  <2>6. /\ \A S : S \subseteq Times => SumOver(Never, S) = 0
        /\ \A u : From(u) \subseteq Times /\ Last(u) \subseteq Times /\ Since(u) \subseteq Times
    BY <2>2, SumOverNone DEF From, Last, Since
  <2>7. Granted(losses) \in Nat /\ Granted(losses + 1) \in Nat /\ Granted(losses + 2) \in Nat
    <3>1. losses \in Nat /\ losses + 1 \in Nat /\ losses + 2 \in Nat
      BY <2>3
    <3> QED
      BY <3>1, GrantedFacts
  <2>8. SharedIsBounded(Never)
    BY <2>2, <2>4, <2>6, <2>7 DEF SharedIsBounded
  <2>9. RememberedIsBounded(Never)
    BY <2>1, <2>2, <2>3, <2>6 DEF RememberedIsBounded
  <2>10. AllowedIsSplit(Never, Never) /\ CountedWereMade
    BY <2>3, <2>4, <2>6 DEF AllowedIsSplit, CountedWereMade
  <2> QED
    BY <2>2, <2>5, <2>8, <2>9, <2>10 DEF WindowsInv
<1>2. WindowsInv => BurstsAreBounded
  <2> SUFFICES ASSUME WindowsInv
               PROVE  BurstsAreBounded
    OBVIOUS
  <2>1. PICK shared \in [Times -> Nat], remembered \in [Times -> Nat] :
           /\ SharedIsBounded(shared)
           /\ RememberedIsBounded(remembered)
           /\ AllowedIsSplit(shared, remembered)
    BY DEF WindowsInv
  <2>2. /\ WindowsTypeOK /\ CountedWereMade
        /\ losses \in Nat /\ production \in BOOLEAN /\ hits \in [Times -> Nat]
        /\ RateLimit \in Nat
    BY WindowsAssumption DEF WindowsInv, WindowsTypeOK
  <2>3. ASSUME NEW t \in Times
        PROVE  SumOver(allowed, Last(t))
                   <= RateLimit * (2 + losses + (IF production THEN 0 ELSE 1))
    <3>1. /\ SumOver(shared, Last(t)) \in Nat /\ SumOver(remembered, Last(t)) \in Nat
      BY SumOverType DEF Last
    <3>2. /\ SumOver(shared, Last(t)) <= Granted(losses + 2)
          /\ SumOver(remembered, Last(t)) <= (IF production THEN 0 ELSE RateLimit)
          /\ SumOver(allowed, Last(t)) = SumOver(shared, Last(t)) + SumOver(remembered, Last(t))
      BY <2>1 DEF SharedIsBounded, RememberedIsBounded, AllowedIsSplit
    <3>3. /\ Granted(losses + 2) \in Nat
          /\ Granted((losses + 2) + 1) = Granted(losses + 2) + RateLimit
      <4>1. losses + 2 \in Nat
        BY <2>2
      <4> QED
        BY <4>1, GrantedFacts
    <3>4. /\ production => 2 + losses + (IF production THEN 0 ELSE 1) = losses + 2
          /\ ~production => 2 + losses + (IF production THEN 0 ELSE 1) = (losses + 2) + 1
      BY <2>2
    <3>5. RateLimit * (2 + losses + (IF production THEN 0 ELSE 1))
              = Granted(losses + 2) + (IF production THEN 0 ELSE RateLimit)
      <4>1. CASE production
        <5>1. RateLimit * (2 + losses + (IF production THEN 0 ELSE 1)) = Granted(losses + 2)
          BY <3>4, <4>1 DEF Granted
        <5> QED
          BY <3>3, <4>1, <5>1
      <4>2. CASE ~production
        <5>1. RateLimit * (2 + losses + (IF production THEN 0 ELSE 1)) = Granted((losses + 2) + 1)
          BY <3>4, <4>2 DEF Granted
        <5> QED
          BY <3>3, <4>2, <5>1
      <4> QED
        BY <4>1, <4>2
    <3> QED
      BY <2>2, <3>1, <3>2, <3>3, <3>5
  <2>4. counter.count > RateLimit => SumOver(hits, Last(tick)) > RateLimit
    <3> SUFFICES ASSUME counter.count > RateLimit
                 PROVE  SumOver(hits, Last(tick)) > RateLimit
      OBVIOUS
    <3>1. /\ Begun \in Int /\ tick \in Nat /\ counter.count \in Nat
          /\ counter.count > 0 => tick - WindowTicks < Begun
      BY <2>2, WindowFacts
    <3>2. counter.count > 0
      BY <2>2, <3>1
    <3>3. \A t \in Times : t \in Nat /\ WindowTicks \in Nat
      BY WindowsAssumption DEF Times
    <3>4. Since(Begun) \subseteq Last(tick) /\ Last(tick) \subseteq Times
      BY <3>1, <3>2, <3>3 DEF Since, Last
    <3>5. SumOver(hits, Since(Begun)) <= SumOver(hits, Last(tick))
      BY <2>2, <3>4, SumOverGrows
    <3>6. SumOver(hits, Since(Begun)) \in Nat /\ SumOver(hits, Last(tick)) \in Nat
      BY <2>2, <3>4, SumOverType
    <3> QED
      BY <2>2, <3>1, <3>5, <3>6 DEF CountedWereMade
  <2> QED
    BY <2>3, <2>4 DEF BurstsAreBounded
<1> QED
  BY <1>1, <1>2, StepKeepsWindows, PTL DEF SpecWindows

-----------------------------------------------------------------------------
(* Settings *)

Deletions == [status : {"absent"}, id : Nat]

ProviderWrites == [table : {"providers"}, code : Codes, value : ProviderRows \union Deletions]
RouteWrites == [table : {"route"}, code : {""}, value : Routes]
PricingWrites == [table : {"pricing"}, code : {""}, value : Nat]
WritesOfRows == ProviderWrites \union RouteWrites \union PricingWrites

(* A reload fills the table of providers when it has read an empty one.    *)
EmptyRows == {rows \in RowsOfTables : Present(rows.providers) = {}}

(* What is left of a request when its writes are through; and all of it.   *)
PlainRests == [step : {"idle", "repairing"}]
FilledRests == [step : {"filled"}, read : EmptyRows]
EndingRests == [step : {"ending"}, pricing : Nat]
Rests == PlainRests \union FilledRests \union EndingRests

Writings(writes, rests) ==
    [step : {"writing", "publishing"}, writes : Seq(writes) \ {<<>>}, rest : rests]

WritingTasks ==
    Writings(WritesOfRows, PlainRests) \union Writings(ProviderWrites, FilledRests)
        \union Writings(RouteWrites, EndingRests)

Tasks == Rests \union [step : {"reading"}, start : RowsOfTables] \union WritingTasks

ReplicaRecords ==
    [memory : RowsOfTables, known : BOOLEAN, seen : BOOLEAN,
     blind : BOOLEAN, behind : BOOLEAN, passed : BOOLEAN, crossed : BOOLEAN]

SettingsTypeOK ==
    /\ database \in RowsOfTables /\ archive \in RowsOfTables
    /\ published \in BOOLEAN
    /\ replicas \in [Replicas -> ReplicaRecords]
    /\ tasks \in [Replicas -> [Workers -> Tasks]]
    /\ \A kind \in DOMAIN changes : changes[kind] \in Nat

(* The places of rows, what stands there, and what a write makes of it.    *)
Slots ==
    [table : {"providers"}, code : Codes] \union [table : {"route", "pricing"}, code : {""}]

RowAt(rows, s) ==
    IF s.table = "providers" THEN rows.providers[s.code]
    ELSE IF s.table = "route" THEN rows.route ELSE rows.pricing

Meets(write, s) == write.table = s.table /\ write.code = s.code

After(row, write) == IF write.table = "providers" THEN Stored(row, write.value) ELSE write.value

(* Of a replica r, its tasks t and the database's rows db.                 *)
(* Which rows a reload has still to put in memory, and whether what it has *)
(* read of them is what the database holds.                                *)
Rest(task) == IF task.step \in {"writing", "publishing"} THEN task.rest ELSE task

ToRead(task, s) ==
    \/ Rest(task).step = "reading"
    \/ Rest(task).step = "filled" /\ s.table # "providers"
    \/ Rest(task).step = "ending" /\ s.table = "pricing"

ReadIsCurrent(task, db) ==
    /\ Rest(task).step = "reading" => Rest(task).start = db
    /\ Rest(task).step = "filled" => /\ Rest(task).read.route = db.route
                                     /\ Rest(task).read.pricing = db.pricing
    /\ Rest(task).step = "ending" => Rest(task).pricing = db.pricing

(* A row that no write here is for is the database's; every write makes it *)
(* what it is in memory.                                                   *)
RowIsCurrent(memory, t, db, s) ==
    /\ \A w \in Admins : \A write \in Pending(t[w]) :
          Meets(write, s) => After(RowAt(db, s), write) = RowAt(memory, s)
    /\ (\A w \in Admins : \A write \in Pending(t[w]) : ~Meets(write, s))
          => RowAt(memory, s) = RowAt(db, s)

MemoryIsCurrent(memory, t, db) ==
    /\ \A w \in Admins : ReadIsCurrent(t[w], db)
    /\ \A s \in Slots :
          (\A w \in Admins : ~ToRead(t[w], s)) => RowIsCurrent(memory, t, db, s)

Aware(r, t) == t["gateway"].step \in {"idle", "reading"} /\ ~r.blind /\ ~r.behind

MemoryOK(r, t, db) == Aware(r, t) => MemoryIsCurrent(r.memory, t, db)

(* Where a restore goes on beside another request, the replica is blind.   *)
RestoresAlone(r, t) ==
    ~r.blind =>
        \A w \in Admins : Reloading(t[w]) => \A v \in Admins \ {w} : t[v].step = "idle"

(* A refresh that nothing has overtaken reads the rows of the database;    *)
(* one that has written rows itself is overtaken by that; and one whose    *)
(* write has failed has left the replica blind.                            *)
RefreshOK(r, task, db) ==
    /\ task.step = "reading" /\ ~r.passed /\ ~r.crossed => task.start = db
    /\ task.step # "writing" /\ Rest(task).step \in RestsOfReload => r.passed
    /\ task.step \in {"writing", "publishing"} /\ task.rest.step \notin RestsOfReload => r.blind

(* What a replica is behind, although it knows the revision in Redis, will *)
(* be announced.                                                           *)
AnnouncedOK(r, task, announcing) ==
    /\ Reloading(task) /\ r.seen /\ r.passed /\ ~r.crossed => announcing
    /\ r.known /\ ~r.blind /\ r.behind => announcing

ReplicaOK(r, t, db, announcing) ==
    /\ MemoryOK(r, t, db)
    /\ RestoresAlone(r, t)
    /\ RefreshOK(r, t["gateway"], db)
    /\ AnnouncedOK(r, t["gateway"], announcing)

Announcing == \E i \in Replicas, w \in Workers : tasks[i][w].step = "publishing"

SettingsInv ==
    /\ SettingsTypeOK
    /\ \A i \in Replicas : ReplicaOK(replicas[i], tasks[i], database, Announcing)

LEMMA SomeWorkers ==
    /\ "gateway" \in Workers /\ Admins \subseteq Workers /\ "gateway" \notin Admins
    /\ \A w \in Workers : w \in Admins \/ w = "gateway"
BY SettingsAssumption DEF Workers

(* Rows, and what becomes of them.                                         *)
LEMMA StoredFacts ==
    ASSUME NEW old \in ProviderRows, NEW row \in ProviderRows \union Deletions
    PROVE  /\ Stored(old, row) \in ProviderRows
           /\ Stored(Stored(old, row), row) = Stored(old, row)
<1>1. CASE row.status = "absent"
  <2>1. Stored(old, row) = IF old.id = row.id THEN Absent ELSE old
    BY <1>1 DEF Stored
  <2>2. CASE old.id = row.id
    <3>1. Stored(old, row) = Absent
      BY <2>1, <2>2
    <3>2. Stored(Absent, row) = Absent
      BY <1>1 DEF Stored
    <3> QED
      BY <3>1, <3>2 DEF ProviderRows
  <2>3. CASE old.id # row.id
    BY <2>1, <2>3
  <2> QED
    BY <2>2, <2>3
<1>2. CASE row.status # "absent"
  <2>1. row \in [status : {"on", "off"}, id : Nat]
    BY <1>2 DEF ProviderRows, Deletions, Absent
  <2>2. row # Absent
    BY <1>2 DEF Absent
  <2>3. CASE old = Absent
    <3>1. Stored(old, row) = row
      BY <1>2, <2>3 DEF Stored
    <3>2. Stored(row, row) = [row EXCEPT !.id = row.id]
      BY <1>2, <2>2 DEF Stored
    <3>3. [row EXCEPT !.id = row.id] = row
      BY <2>1
    <3> QED
      BY <2>1, <3>1, <3>2, <3>3 DEF ProviderRows
  <2>4. CASE old # Absent
    <3>1. PICK new : new = [row EXCEPT !.id = old.id]
      OBVIOUS
    <3>2. Stored(old, row) = new
      BY <1>2, <2>4, <3>1 DEF Stored
    <3>3. old.id \in Nat
      BY <2>4 DEF ProviderRows
    <3>4. /\ new \in [status : {"on", "off"}, id : Nat] /\ new.id = old.id
          /\ new.status = row.status
      BY <2>1, <3>1, <3>3
    <3>5. new # Absent
      BY <1>2, <3>4 DEF Absent
    <3>6. Stored(new, row) = [row EXCEPT !.id = new.id]
      BY <1>2, <3>5 DEF Stored
    <3> QED
      BY <3>1, <3>2, <3>4, <3>6 DEF ProviderRows
  <2> QED
    BY <2>3, <2>4
<1> QED
  BY <1>1, <1>2

LEMMA WrittenFacts ==
    ASSUME NEW rows \in RowsOfTables, NEW write \in WritesOfRows
    PROVE  /\ Written(rows, write) \in RowsOfTables
           /\ \A s \in Slots :
                 RowAt(Written(rows, write), s) =
                     IF Meets(write, s) THEN After(RowAt(rows, s), write) ELSE RowAt(rows, s)
<1>1. PICK new : new = Written(rows, write)
  OBVIOUS
<1>2. CASE write \in ProviderWrites
  <2>1. PICK row : row = Stored(rows.providers[write.code], write.value)
    OBVIOUS
  <2>2. row \in ProviderRows
    <3>1. rows.providers[write.code] \in ProviderRows /\ write.value \in ProviderRows \union Deletions
      BY <1>2 DEF RowsOfTables, ProviderWrites
    <3> QED
      BY <2>1, <3>1, StoredFacts
  <2>3. new = [rows EXCEPT !.providers[write.code] = row]
    BY <1>1, <1>2, <2>1 DEF Written, ProviderWrites
  <2>4. PICK providers : providers = [rows.providers EXCEPT ![write.code] = row]
    OBVIOUS
  <2>5. /\ providers \in [Codes -> ProviderRows] /\ providers[write.code] = row
        /\ \A c \in Codes \ {write.code} : providers[c] = rows.providers[c]
    BY <1>2, <2>2, <2>4 DEF RowsOfTables, ProviderWrites
  <2>6. new = [rows EXCEPT !.providers = providers]
    BY <2>3, <2>4
  <2>7. /\ new \in RowsOfTables /\ new.providers = providers
        /\ new.route = rows.route /\ new.pricing = rows.pricing
    BY <2>5, <2>6 DEF RowsOfTables
  <2>8. ASSUME NEW s \in Slots
        PROVE  RowAt(new, s) = IF Meets(write, s) THEN After(RowAt(rows, s), write) ELSE RowAt(rows, s)
    <3>1. CASE s.table = "providers" /\ s.code = write.code
      BY <1>2, <2>1, <2>5, <2>7, <3>1 DEF RowAt, Meets, After, ProviderWrites
    <3>2. CASE s.table = "providers" /\ s.code # write.code
      BY <1>2, <2>5, <2>7, <3>2 DEF RowAt, Meets, Slots, ProviderWrites
    <3>3. CASE s.table # "providers"
      BY <1>2, <2>7, <3>3 DEF RowAt, Meets, ProviderWrites
    <3> QED
      BY <3>1, <3>2, <3>3
  <2> QED
    BY <1>1, <2>7, <2>8
<1>3. CASE write \in RouteWrites
  <2>1. new = [rows EXCEPT !.route = write.value]
    BY <1>1, <1>3 DEF Written, RouteWrites
  <2>2. /\ new \in RowsOfTables /\ new.route = write.value
        /\ new.providers = rows.providers /\ new.pricing = rows.pricing
    BY <1>3, <2>1 DEF RowsOfTables, RouteWrites
  <2> QED
    BY <1>1, <1>3, <2>2 DEF RowAt, Meets, After, Slots, RouteWrites
<1>4. CASE write \in PricingWrites
  <2>1. new = [rows EXCEPT !.pricing = write.value]
    BY <1>1, <1>4 DEF Written, PricingWrites
  <2>2. /\ new \in RowsOfTables /\ new.pricing = write.value
        /\ new.providers = rows.providers /\ new.route = rows.route
    BY <1>4, <2>1 DEF RowsOfTables, PricingWrites
  <2> QED
    BY <1>1, <1>4, <2>2 DEF RowAt, Meets, After, Slots, PricingWrites
<1> QED
  BY <1>2, <1>3, <1>4 DEF WritesOfRows

(* A write that has been made changes nothing when it is made again.       *)
LEMMA AfterTwice ==
    ASSUME NEW rows \in RowsOfTables, NEW write \in WritesOfRows, NEW s \in Slots, Meets(write, s)
    PROVE  After(After(RowAt(rows, s), write), write) = After(RowAt(rows, s), write)
<1>1. CASE write.table = "providers"
  <2>1. PICK old : old = RowAt(rows, s)
    OBVIOUS
  <2>2. old \in ProviderRows /\ write.value \in ProviderRows \union Deletions
    BY <1>1, <2>1 DEF RowAt, Meets, Slots, RowsOfTables, WritesOfRows, ProviderWrites, RouteWrites,
          PricingWrites
  <2>3. Stored(Stored(old, write.value), write.value) = Stored(old, write.value)
    BY <2>2, StoredFacts
  <2> QED
    BY <1>1, <2>1, <2>3, Zenon DEF After
<1>2. CASE write.table # "providers"
  BY <1>2 DEF After
<1> QED
  BY <1>1, <1>2

LEMMA SameRows ==
    ASSUME NEW rows \in RowsOfTables, NEW others \in RowsOfTables,
           \A s \in Slots : RowAt(rows, s) = RowAt(others, s)
    PROVE  rows = others
<1>1. \A c \in Codes : [table |-> "providers", code |-> c] \in Slots
  BY DEF Slots
<1>2. [table |-> "route", code |-> ""] \in Slots /\ [table |-> "pricing", code |-> ""] \in Slots
  BY DEF Slots
<1>3. \A c \in Codes : rows.providers[c] = others.providers[c]
  BY <1>1 DEF RowAt
<1>4. rows.providers = others.providers
  BY <1>3 DEF RowsOfTables
<1>5. rows.route = others.route /\ rows.pricing = others.pricing
  BY <1>2 DEF RowAt
<1> QED
  BY <1>4, <1>5 DEF RowsOfTables

(* A write of several: what it is, and what is left to write.              *)
LEMMA TailFacts ==
    ASSUME NEW S, NEW s \in Seq(S) \ {<<>>}
    PROVE  /\ Head(s) \in S /\ Tail(s) \in Seq(S)
           /\ Range(s) \subseteq S
           /\ Range(s) = {Head(s)} \union Range(Tail(s))
           /\ Len(s) > 1 => Tail(s) # <<>>
           /\ ~(Len(s) > 1) => Range(Tail(s)) = {}
<1>1. /\ Head(s) \in S /\ Tail(s) \in Seq(S) /\ Len(Tail(s)) = Len(s) - 1
      /\ \A k \in 1..Len(Tail(s)) : Tail(s)[k] = s[k + 1]
  BY HeadTailProperties
<1>2. Len(s) \in Nat \ {0} /\ DOMAIN s = 1..Len(s) /\ s[1] = Head(s) /\ \A k \in 1..Len(s) : s[k] \in S
  OBVIOUS
<1>3. PICK rest \in Seq(S) : rest = Tail(s)
  BY <1>1
<1>4. /\ Len(rest) \in Nat /\ DOMAIN rest = 1..Len(rest) /\ Len(rest) = Len(s) - 1
      /\ \A k \in 1..Len(rest) : rest[k] = s[k + 1]
  BY <1>1, <1>3
<1>5. Range(s) \subseteq S
  BY <1>2 DEF Range
<1>6. Range(s) = {Head(s)} \union Range(rest)
  <2>1. ASSUME NEW x \in Range(s) PROVE x = Head(s) \/ x \in Range(rest)
    <3>1. PICK k \in 1..Len(s) : x = s[k]
      BY <1>2 DEF Range
    <3>2. CASE k = 1
      BY <1>2, <3>1, <3>2
    <3>3. CASE k # 1
      <4>1. k - 1 \in 1..Len(rest) /\ rest[k - 1] = s[k]
        BY <1>2, <1>4, <3>3
      <4> QED
        BY <1>4, <3>1, <4>1 DEF Range
    <3> QED
      BY <3>2, <3>3
  <2>2. Head(s) \in Range(s)
    BY <1>2 DEF Range
  <2>3. ASSUME NEW x \in Range(rest) PROVE x \in Range(s)
    <3>1. PICK k \in 1..Len(rest) : x = rest[k]
      BY <1>4 DEF Range
    <3>2. k + 1 \in 1..Len(s) /\ x = s[k + 1]
      BY <1>2, <1>4, <3>1
    <3> QED
      BY <1>2, <3>2 DEF Range
  <2> QED
    BY <2>1, <2>2, <2>3
<1>7. Len(s) > 1 => rest # <<>>
  BY <1>2, <1>4
<1>8. ~(Len(s) > 1) => Range(rest) = {}
  <2>1. SUFFICES ASSUME ~(Len(s) > 1) PROVE 1..Len(rest) = {}
    BY <1>4 DEF Range
  <2> QED
    BY <1>2, <1>4, <2>1
<1> QED
  BY <1>1, <1>3, <1>5, <1>6, <1>7, <1>8

LEMMA WriteKinds ==
    /\ ProviderWrites \subseteq WritesOfRows /\ RouteWrites \subseteq WritesOfRows
    /\ Seq(ProviderWrites) \subseteq Seq(WritesOfRows)
    /\ Seq(RouteWrites) \subseteq Seq(WritesOfRows)
    /\ Rests \subseteq Tasks /\ PlainRests \subseteq Rests
    /\ \A rest \in Rests : rest.step \in {"idle", "repairing"} => rest \in PlainRests
    /\ \A rest \in Rests : rest.step = "filled" => rest \in FilledRests
    /\ \A rest \in Rests : rest.step = "ending" => rest \in EndingRests
    /\ \A rest \in Rests : rest.step \in {"idle", "repairing", "filled", "ending"}
    /\ \A rest \in PlainRests : rest.step \in {"idle", "repairing"}
<1>1. ProviderWrites \subseteq WritesOfRows /\ RouteWrites \subseteq WritesOfRows
  BY DEF WritesOfRows
<1>2. Seq(ProviderWrites) \subseteq Seq(WritesOfRows)
  BY <1>1
<1>3. Seq(RouteWrites) \subseteq Seq(WritesOfRows)
  BY <1>1
<1>4. Rests \subseteq Tasks /\ PlainRests \subseteq Rests
  BY DEF Tasks, Rests
<1>5. ASSUME NEW rest \in Rests
      PROVE  /\ rest.step \in {"idle", "repairing"} => rest \in PlainRests
             /\ rest.step = "filled" => rest \in FilledRests
             /\ rest.step = "ending" => rest \in EndingRests
             /\ rest.step \in {"idle", "repairing", "filled", "ending"}
  BY DEF Rests, PlainRests, FilledRests, EndingRests
<1>6. \A rest \in PlainRests : rest.step \in {"idle", "repairing"}
  BY DEF PlainRests
<1> QED
  BY <1>1, <1>2, <1>3, <1>4, <1>5, <1>6

LEMMA WritingFacts ==
    ASSUME NEW task \in Tasks, task.step \in {"writing", "publishing"}
    PROVE  /\ \/ task \in Writings(WritesOfRows, PlainRests)
              \/ task \in Writings(ProviderWrites, FilledRests)
              \/ task \in Writings(RouteWrites, EndingRests)
           /\ task.writes \in Seq(WritesOfRows) \ {<<>>} /\ task.rest \in Rests
           /\ task.rest.step = "filled" => task.writes \in Seq(ProviderWrites)
           /\ task.rest.step = "ending" => task.writes \in Seq(RouteWrites)
           /\ Pending(task) \subseteq WritesOfRows
<1>1. \/ task \in Writings(WritesOfRows, PlainRests)
      \/ task \in Writings(ProviderWrites, FilledRests)
      \/ task \in Writings(RouteWrites, EndingRests)
  <2>1. task.step \notin {"idle", "repairing", "filled", "ending", "reading"}
    OBVIOUS
  <2> QED
    BY <2>1 DEF Tasks, WritingTasks, Rests, PlainRests, FilledRests, EndingRests
<1>2. /\ task.writes \in Seq(WritesOfRows) \ {<<>>} /\ task.rest \in Rests
      /\ task.rest.step = "filled" => task.writes \in Seq(ProviderWrites)
      /\ task.rest.step = "ending" => task.writes \in Seq(RouteWrites)
  <2>1. CASE task \in Writings(WritesOfRows, PlainRests)
    BY <2>1, WriteKinds DEF Writings, Rests, PlainRests
  <2>2. CASE task \in Writings(ProviderWrites, FilledRests)
    BY <2>2, WriteKinds DEF Writings, Rests, FilledRests
  <2>3. CASE task \in Writings(RouteWrites, EndingRests)
    BY <2>3, WriteKinds DEF Writings, Rests, EndingRests
  <2> QED
    BY <1>1, <2>1, <2>2, <2>3
<1>3. Pending(task) \subseteq WritesOfRows
  <2>1. PICK s \in Seq(WritesOfRows) \ {<<>>} : s = task.writes
    BY <1>2
  <2>2. Range(s) \subseteq WritesOfRows /\ Range(Tail(s)) \subseteq Range(s)
    BY TailFacts
  <2> QED
    BY <2>1, <2>2 DEF Pending
<1> QED
  BY <1>1, <1>2, <1>3

LEMMA PendingFacts ==
    ASSUME NEW task \in Tasks
    PROVE  /\ Pending(task) \subseteq WritesOfRows
           /\ task.step \notin {"writing", "publishing"} => Pending(task) = {}
           /\ Rest(task) \in Rests \/ Rest(task) \in [step : {"reading"}, start : RowsOfTables]
           /\ Reloading(task) <=> Rest(task).step \in {"reading", "filled", "ending"}
<1>1. CASE task.step \in {"writing", "publishing"}
  <2>1. task.rest \in Rests /\ Pending(task) \subseteq WritesOfRows
    BY <1>1, WritingFacts
  <2>2. Rest(task) = task.rest
    BY <1>1 DEF Rest
  <2>3. task.rest.step \in {"idle", "repairing", "filled", "ending"}
    BY <2>1, WriteKinds
  <2> QED
    BY <1>1, <2>1, <2>2, <2>3 DEF Reloading, RestsOfReload
<1>2. CASE task.step \notin {"writing", "publishing"}
  <2>1. Rest(task) = task /\ Pending(task) = {}
    BY <1>2 DEF Rest, Pending
  <2>2. task \in Rests \/ task \in [step : {"reading"}, start : RowsOfTables]
    BY <1>2 DEF Tasks, WritingTasks, Writings
  <2> QED
    BY <1>2, <2>1, <2>2 DEF Reloading, RestsOfReload
<1> QED
  BY <1>1, <1>2

(* A request that has written a row, and is to publish it.                 *)
LEMMA NextWriteFacts ==
    ASSUME NEW task \in Tasks, task.step = "writing"
    PROVE  /\ Head(task.writes) \in WritesOfRows
           /\ Pending(task) = {Head(task.writes)} \union Range(Tail(task.writes))
           /\ task.rest.step = "filled" => Head(task.writes).table = "providers"
           /\ task.rest.step = "ending" => Head(task.writes).table = "route"
           /\ \E next \in Tasks :
                 /\ next = [task EXCEPT !.step = "publishing"]
                 /\ next.step = "publishing" /\ next.rest = task.rest
                 /\ Pending(next) = Range(Tail(task.writes))
<1>1. /\ task.writes \in Seq(WritesOfRows) \ {<<>>}
      /\ task.rest.step = "filled" => task.writes \in Seq(ProviderWrites) \ {<<>>}
      /\ task.rest.step = "ending" => task.writes \in Seq(RouteWrites) \ {<<>>}
  BY WritingFacts
<1>2. Head(task.writes) \in WritesOfRows
  BY <1>1, TailFacts
<1>3. Range(task.writes) = {Head(task.writes)} \union Range(Tail(task.writes))
  BY <1>1, TailFacts
<1>4. task.rest.step = "filled" => Head(task.writes).table = "providers"
  <2>1. SUFFICES ASSUME task.rest.step = "filled" PROVE Head(task.writes) \in ProviderWrites
    BY DEF ProviderWrites
  <2> QED
    BY <1>1, <2>1, TailFacts
<1>5. task.rest.step = "ending" => Head(task.writes).table = "route"
  <2>1. SUFFICES ASSUME task.rest.step = "ending" PROVE Head(task.writes) \in RouteWrites
    BY DEF RouteWrites
  <2> QED
    BY <1>1, <2>1, TailFacts
<1>6. PICK next : next = [task EXCEPT !.step = "publishing"]
  OBVIOUS
<1>7. next \in Tasks /\ next.step = "publishing" /\ next.rest = task.rest /\ next.writes = task.writes
  <2>1. CASE task \in Writings(WritesOfRows, PlainRests)
    <3>1. /\ next \in Writings(WritesOfRows, PlainRests) /\ next.step = "publishing"
          /\ next.rest = task.rest /\ next.writes = task.writes
      BY <1>6, <2>1 DEF Writings
    <3> QED
      BY <3>1 DEF Tasks, WritingTasks
  <2>2. CASE task \in Writings(ProviderWrites, FilledRests)
    <3>1. /\ next \in Writings(ProviderWrites, FilledRests) /\ next.step = "publishing"
          /\ next.rest = task.rest /\ next.writes = task.writes
      BY <1>6, <2>2 DEF Writings
    <3> QED
      BY <3>1 DEF Tasks, WritingTasks
  <2>3. CASE task \in Writings(RouteWrites, EndingRests)
    <3>1. /\ next \in Writings(RouteWrites, EndingRests) /\ next.step = "publishing"
          /\ next.rest = task.rest /\ next.writes = task.writes
      BY <1>6, <2>3 DEF Writings
    <3> QED
      BY <3>1 DEF Tasks, WritingTasks
  <2> QED
    BY <2>1, <2>2, <2>3, WritingFacts
<1>8. Pending(next) = Range(Tail(task.writes)) /\ Pending(task) = Range(task.writes)
  BY <1>7 DEF Pending
<1> QED
  BY <1>2, <1>3, <1>4, <1>5, <1>6, <1>7, <1>8

(* A request that goes on to the next write, or to the rest.               *)
LEMMA AfterWriteFacts ==
    ASSUME NEW task \in Tasks, task.step \in {"writing", "publishing"}
    PROVE  \E next \in Tasks :
              /\ next = AfterWrite(task)
              /\ (next.step = "writing" /\ next.rest = task.rest) \/ next = task.rest
              /\ Rest(next) = task.rest
              /\ next.step \in {"writing", "idle", "repairing", "filled", "ending"}
              /\ Pending(next) = Range(Tail(task.writes))
<1>1. /\ task.writes \in Seq(WritesOfRows) \ {<<>>} /\ task.rest \in Rests
      /\ task.rest.step \in {"idle", "repairing", "filled", "ending"}
  BY WritingFacts, WriteKinds
<1>2. PICK left : left = Tail(task.writes)
  OBVIOUS
<1>3. CASE Len(task.writes) > 1
  <2>1. PICK next : next = [step |-> "writing", writes |-> left, rest |-> task.rest]
    OBVIOUS
  <2>2. next = AfterWrite(task)
    BY <1>2, <1>3, <2>1 DEF AfterWrite, Writing
  <2>3. next.step = "writing" /\ next.writes = left /\ next.rest = task.rest
    BY <2>1
  <2>4. next \in Tasks
    <3>1. CASE task \in Writings(WritesOfRows, PlainRests)
      <4>1. left \in Seq(WritesOfRows) \ {<<>>} /\ task.rest \in PlainRests
        <5>1. task.writes \in Seq(WritesOfRows) \ {<<>>} /\ task.rest \in PlainRests
          BY <3>1 DEF Writings
        <5> QED
          BY <1>2, <1>3, <5>1, TailFacts
      <4>2. next \in Writings(WritesOfRows, PlainRests)
        BY <2>1, <4>1 DEF Writings
      <4> QED
        BY <4>2 DEF Tasks, WritingTasks
    <3>2. CASE task \in Writings(ProviderWrites, FilledRests)
      <4>1. left \in Seq(ProviderWrites) \ {<<>>} /\ task.rest \in FilledRests
        <5>1. task.writes \in Seq(ProviderWrites) \ {<<>>} /\ task.rest \in FilledRests
          BY <3>2 DEF Writings
        <5> QED
          BY <1>2, <1>3, <5>1, TailFacts
      <4>2. next \in Writings(ProviderWrites, FilledRests)
        BY <2>1, <4>1 DEF Writings
      <4> QED
        BY <4>2 DEF Tasks, WritingTasks
    <3>3. CASE task \in Writings(RouteWrites, EndingRests)
      <4>1. left \in Seq(RouteWrites) \ {<<>>} /\ task.rest \in EndingRests
        <5>1. task.writes \in Seq(RouteWrites) \ {<<>>} /\ task.rest \in EndingRests
          BY <3>3 DEF Writings
        <5> QED
          BY <1>2, <1>3, <5>1, TailFacts
      <4>2. next \in Writings(RouteWrites, EndingRests)
        BY <2>1, <4>1 DEF Writings
      <4> QED
        BY <4>2 DEF Tasks, WritingTasks
    <3> QED
      BY <3>1, <3>2, <3>3, WritingFacts
  <2>5. Rest(next) = task.rest /\ Pending(next) = Range(left)
    BY <2>3 DEF Rest, Pending
  <2> QED
    BY <1>2, <2>2, <2>3, <2>4, <2>5
<1>4. CASE ~(Len(task.writes) > 1)
  <2>1. AfterWrite(task) = task.rest
    BY <1>4 DEF AfterWrite
  <2>2. Rest(task.rest) = task.rest /\ Pending(task.rest) = {}
    BY <1>1 DEF Rest, Pending
  <2>3. Range(Tail(task.writes)) = {}
    BY <1>1, <1>4, TailFacts
  <2>4. task.rest \in Tasks
    BY <1>1, WriteKinds
  <2> QED
    BY <1>1, <2>1, <2>2, <2>3, <2>4
<1> QED
  BY <1>3, <1>4

(* What a replica has to write and to read tells whether its memory is     *)
(* current, whatever else its requests are at.                             *)
LEMMA SameTasksSameMemory ==
    ASSUME NEW memory, NEW t, NEW t2, NEW db, MemoryIsCurrent(memory, t, db),
           \A w \in Admins :
              /\ Pending(t2[w]) = Pending(t[w])
              /\ \/ Rest(t2[w]) = Rest(t[w])
                 \/ /\ Rest(t[w]).step \in {"idle", "repairing"}
                    /\ Rest(t2[w]).step \in {"idle", "repairing"}
    PROVE  MemoryIsCurrent(memory, t2, db)
<1>1. ASSUME NEW w \in Admins
      PROVE  ReadIsCurrent(t2[w], db) /\ \A s \in Slots : ToRead(t2[w], s) <=> ToRead(t[w], s)
  <2>1. ReadIsCurrent(t[w], db)
    BY DEF MemoryIsCurrent
  <2>2. CASE Rest(t2[w]) = Rest(t[w])
    BY <2>1, <2>2 DEF ReadIsCurrent, ToRead
  <2>3. CASE /\ Rest(t[w]).step \in {"idle", "repairing"}
             /\ Rest(t2[w]).step \in {"idle", "repairing"}
    BY <2>3 DEF ReadIsCurrent, ToRead
  <2> QED
    BY <2>2, <2>3
<1>2. ASSUME NEW s \in Slots, \A w \in Admins : ~ToRead(t2[w], s)
      PROVE  RowIsCurrent(memory, t2, db, s)
  <2>1. RowIsCurrent(memory, t, db, s)
    BY <1>1, <1>2 DEF MemoryIsCurrent
  <2> QED
    BY <2>1 DEF RowIsCurrent
<1> QED
  BY <1>1, <1>2 DEF MemoryIsCurrent

(* A reload is all that has anything left to read.                         *)
LEMMA NothingToRead ==
    ASSUME NEW task \in Tasks, ~Reloading(task), NEW db
    PROVE  ReadIsCurrent(task, db) /\ \A s \in Slots : ~ToRead(task, s)
<1>1. Rest(task).step \notin {"reading", "filled", "ending"}
  BY PendingFacts
<1> QED
  BY <1>1 DEF ReadIsCurrent, ToRead

(* The row that is written becomes what the memory has.                    *)
LEMMA WriteKeepsMemory ==
    ASSUME NEW memory, NEW t \in [Workers -> Tasks], NEW db \in RowsOfTables,
           MemoryIsCurrent(memory, t, db), NEW w \in Admins,
           t[w].step = "writing", \A v \in Admins \ {w} : ~Reloading(t[v]),
           NEW next \in Tasks, next.step = "publishing", next.rest = t[w].rest,
           Pending(next) = Range(Tail(t[w].writes)),
           NEW t2, t2[w] = next, \A v \in Workers \ {w} : t2[v] = t[v]
    PROVE  MemoryIsCurrent(memory, t2, Written(db, Head(t[w].writes)))
<1>1. PICK task \in Tasks : task = t[w]
  BY SomeWorkers
<1>2. PICK write \in WritesOfRows : write = Head(task.writes)
  BY <1>1, NextWriteFacts
<1>3. PICK rows \in RowsOfTables : rows = Written(db, write)
  BY WrittenFacts
<1>4. \A s \in Slots :
         RowAt(rows, s) = IF Meets(write, s) THEN After(RowAt(db, s), write) ELSE RowAt(db, s)
  BY <1>3, WrittenFacts
<1>5. Rest(task) = task.rest /\ Rest(next) = task.rest
  BY <1>1 DEF Rest
<1>6. ASSUME NEW v \in Admins \ {w} PROVE t2[v] = t[v] /\ t[v] \in Tasks /\ ~Reloading(t[v])
  BY SomeWorkers
<1>7. ASSUME NEW v \in Admins
      PROVE  /\ \A s \in Slots : ToRead(t2[v], s) <=> ToRead(t[v], s)
             /\ ReadIsCurrent(t2[v], rows)
  <2>1. CASE v # w
    BY <1>6, <2>1, NothingToRead
  <2>2. CASE v = w
    <3>1. \A s \in Slots : ToRead(t2[v], s) <=> ToRead(t[v], s)
      BY <1>1, <1>5, <2>2 DEF ToRead
    <3>2. ReadIsCurrent(task, db)
      BY <1>1 DEF MemoryIsCurrent
    <3>3. task.rest.step # "reading"
      BY <1>1, WritingFacts, WriteKinds
    <3>4. task.rest.step = "filled" => rows.route = db.route /\ rows.pricing = db.pricing
      <4>1. SUFFICES ASSUME write.table = "providers"
                     PROVE  rows.route = db.route /\ rows.pricing = db.pricing
        BY <1>1, <1>2, NextWriteFacts
      <4>2. rows = [db EXCEPT !.providers[write.code] = Stored(@, write.value)]
        BY <1>3, <4>1 DEF Written
      <4> QED
        BY <4>2 DEF RowsOfTables
    <3>5. task.rest.step = "ending" => rows.pricing = db.pricing
      <4>1. SUFFICES ASSUME write.table = "route" PROVE rows.pricing = db.pricing
        BY <1>1, <1>2, NextWriteFacts
      <4>2. rows = [db EXCEPT !.route = write.value]
        BY <1>3, <4>1 DEF Written
      <4> QED
        BY <4>2 DEF RowsOfTables
    <3>6. ReadIsCurrent(next, rows)
      BY <1>5, <3>2, <3>3, <3>4, <3>5 DEF ReadIsCurrent
    <3> QED
      BY <2>2, <3>1, <3>6
  <2> QED
    BY <2>1, <2>2
<1>8. ASSUME NEW v \in Admins, NEW other \in Pending(t2[v])
      PROVE  other \in Pending(t[v]) /\ other \in WritesOfRows
  <2>1. Pending(task) = {write} \union Pending(next)
    BY <1>1, <1>2, NextWriteFacts
  <2>2. other \in Pending(t[v])
    BY <1>1, <1>6, <1>8, <2>1
  <2>3. t[v] \in Tasks
    BY SomeWorkers
  <2> QED
    BY <2>2, <2>3, PendingFacts
<1>9. ASSUME NEW v \in Admins, NEW other \in Pending(t[v])
      PROVE  other = write \/ other \in Pending(t2[v])
  <2>1. Pending(task) = {write} \union Pending(next)
    BY <1>1, <1>2, NextWriteFacts
  <2> QED
    BY <1>1, <1>6, <1>9, <2>1
<1>10. write \in Pending(t[w])
  BY <1>1, <1>2, NextWriteFacts
<1>11. ASSUME NEW s \in Slots, \A v \in Admins : ~ToRead(t2[v], s)
       PROVE  RowIsCurrent(memory, t2, rows, s)
  <2>1. RowIsCurrent(memory, t, db, s)
    BY <1>7, <1>11 DEF MemoryIsCurrent
  <2>2. \A v \in Admins : \A other \in Pending(t[v]) :
           Meets(other, s) => After(RowAt(db, s), other) = RowAt(memory, s)
    BY <2>1 DEF RowIsCurrent
  <2>3. (\A v \in Admins : \A other \in Pending(t[v]) : ~Meets(other, s))
            => RowAt(memory, s) = RowAt(db, s)
    BY <2>1 DEF RowIsCurrent
  <2>4. CASE Meets(write, s)
    <3>1. RowAt(rows, s) = After(RowAt(db, s), write) /\ After(RowAt(db, s), write) = RowAt(memory, s)
      BY <1>4, <1>10, <2>2, <2>4
    <3>2. ASSUME NEW v \in Admins, NEW other \in Pending(t2[v]), Meets(other, s)
          PROVE  After(RowAt(rows, s), other) = RowAt(memory, s)
      <4>1. other \in Pending(t[v]) /\ other \in WritesOfRows
        BY <1>8, <3>2
      <4>2. After(RowAt(db, s), other) = RowAt(memory, s)
        BY <2>2, <3>2, <4>1
      <4>3. After(After(RowAt(db, s), other), other) = After(RowAt(db, s), other)
        BY <3>2, <4>1, AfterTwice
      <4> QED
        BY <3>1, <4>2, <4>3, Zenon
    <3> QED
      BY <3>1, <3>2 DEF RowIsCurrent
  <2>5. CASE ~Meets(write, s)
    <3>1. RowAt(rows, s) = RowAt(db, s)
      BY <1>4, <2>5
    <3>2. ASSUME NEW v \in Admins, NEW other \in Pending(t2[v]), Meets(other, s)
          PROVE  After(RowAt(rows, s), other) = RowAt(memory, s)
      <4>1. other \in Pending(t[v])
        BY <1>8, <3>2
      <4> QED
        BY <2>2, <3>1, <3>2, <4>1
    <3>3. ASSUME \A v \in Admins : \A other \in Pending(t2[v]) : ~Meets(other, s)
          PROVE  RowAt(rows, s) = RowAt(memory, s)
      <4>1. \A v \in Admins : \A other \in Pending(t[v]) : ~Meets(other, s)
        BY <1>9, <2>5, <3>3
      <4> QED
        BY <2>3, <3>1, <4>1
    <3> QED
      BY <3>2, <3>3 DEF RowIsCurrent
  <2> QED
    BY <2>4, <2>5
<1>12. MemoryIsCurrent(memory, t2, rows)
  BY <1>7, <1>11 DEF MemoryIsCurrent
<1> QED
  BY <1>1, <1>2, <1>3, <1>12

(* A change, where no other request is about to write the same row.        *)
LEMMA ChangeKeepsMemory ==
    ASSUME NEW memory \in RowsOfTables, NEW t \in [Workers -> Tasks], NEW db \in RowsOfTables,
           MemoryIsCurrent(memory, t, db), NEW w \in Admins,
           t[w].step \in {"idle", "repairing"}, \A v \in Admins \ {w} : ~Reloading(t[v]),
           NEW write \in WritesOfRows,
           \A v \in Admins \ {w} : \A other \in Pending(t[v]) :
              ~(other.table = write.table /\ other.code = write.code),
           NEW next \in Tasks, Pending(next) = {write}, ~Reloading(next),
           NEW t2, t2[w] = next, \A v \in Workers \ {w} : t2[v] = t[v]
    PROVE  MemoryIsCurrent(Written(memory, write), t2, db)
<1>1. PICK rows \in RowsOfTables : rows = Written(memory, write)
  BY WrittenFacts
<1>2. \A s \in Slots :
         RowAt(rows, s) = IF Meets(write, s) THEN After(RowAt(memory, s), write) ELSE RowAt(memory, s)
  BY <1>1, WrittenFacts
<1>3. t[w] \in Tasks /\ ~Reloading(t[w]) /\ Pending(t[w]) = {}
  <2>1. t[w] \in Tasks
    BY SomeWorkers
  <2>2. ~Reloading(t[w])
    BY DEF Reloading, RestsOfReload
  <2> QED
    BY <2>1, <2>2, PendingFacts
<1>4. ASSUME NEW v \in Admins
      PROVE  /\ t[v] \in Tasks /\ t2[v] \in Tasks /\ ~Reloading(t[v]) /\ ~Reloading(t2[v])
             /\ v # w => t2[v] = t[v]
  BY <1>3, SomeWorkers
<1>5. \A v \in Admins : ReadIsCurrent(t2[v], db)
  BY <1>4, NothingToRead
<1>6. ASSUME NEW s \in Slots PROVE RowIsCurrent(rows, t2, db, s)
  <2>1. \A v \in Admins : ~ToRead(t[v], s)
    BY <1>4, NothingToRead
  <2>2. RowIsCurrent(memory, t, db, s)
    BY <2>1 DEF MemoryIsCurrent
  <2>3. \A v \in Admins : \A other \in Pending(t[v]) :
           Meets(other, s) => After(RowAt(db, s), other) = RowAt(memory, s)
    BY <2>2 DEF RowIsCurrent
  <2>4. (\A v \in Admins : \A other \in Pending(t[v]) : ~Meets(other, s))
            => RowAt(memory, s) = RowAt(db, s)
    BY <2>2 DEF RowIsCurrent
  <2>5. CASE Meets(write, s)
    <3>1. \A v \in Admins : \A other \in Pending(t[v]) : ~Meets(other, s)
      <4> SUFFICES ASSUME NEW v \in Admins, NEW other \in Pending(t[v]) PROVE ~Meets(other, s)
        OBVIOUS
      <4>1. v # w
        BY <1>3
      <4> QED
        BY <2>5, <4>1 DEF Meets
    <3>2. RowAt(memory, s) = RowAt(db, s)
      BY <2>4, <3>1
    <3>3. RowAt(rows, s) = After(RowAt(db, s), write)
      BY <1>2, <2>5, <3>2
    <3>4. ASSUME NEW v \in Admins, NEW other \in Pending(t2[v]), Meets(other, s)
          PROVE  After(RowAt(db, s), other) = RowAt(rows, s)
      <4>1. other = write
        BY <1>4, <3>1, <3>4
      <4> QED
        BY <3>3, <4>1
    <3> QED
      BY <2>5, <3>4 DEF RowIsCurrent
  <2>6. CASE ~Meets(write, s)
    <3>1. RowAt(rows, s) = RowAt(memory, s)
      BY <1>2, <2>6
    <3>2. ASSUME NEW v \in Admins, NEW other \in Pending(t2[v]), Meets(other, s)
          PROVE  After(RowAt(db, s), other) = RowAt(rows, s)
      <4>1. v # w
        BY <2>6, <3>2
      <4>2. other \in Pending(t[v])
        BY <1>4, <3>2, <4>1
      <4> QED
        BY <2>3, <3>1, <3>2, <4>2
    <3>3. ASSUME \A v \in Admins : \A other \in Pending(t2[v]) : ~Meets(other, s)
          PROVE  RowAt(rows, s) = RowAt(db, s)
      <4>1. \A v \in Admins : \A other \in Pending(t[v]) : ~Meets(other, s)
        BY <1>3, <1>4, <3>3
      <4> QED
        BY <2>4, <3>1, <4>1
    <3> QED
      BY <3>2, <3>3 DEF RowIsCurrent
  <2> QED
    BY <2>5, <2>6
<1>7. MemoryIsCurrent(rows, t2, db)
  BY <1>5, <1>6 DEF MemoryIsCurrent
<1> QED
  BY <1>1, <1>7

(* A reload is over: the memory has the rows of the database.              *)
LEMMA LoadedIsCurrent ==
    ASSUME NEW t \in [Workers -> Tasks], NEW db, \A w \in Admins : t[w].step = "idle"
    PROVE  MemoryIsCurrent(db, t, db)
<1>1. \A w \in Admins : Pending(t[w]) = {} /\ t[w] \in Tasks /\ ~Reloading(t[w])
  BY SomeWorkers DEF Pending, Reloading, RestsOfReload
<1>2. \A w \in Admins : ReadIsCurrent(t[w], db)
  BY <1>1, NothingToRead
<1>3. \A s \in Slots : RowIsCurrent(db, t, db, s)
  BY <1>1 DEF RowIsCurrent
<1> QED
  BY <1>2, <1>3 DEF MemoryIsCurrent

(* And where nothing is being done, it is the database's.                  *)
LEMMA CurrentIsDatabase ==
    ASSUME NEW memory \in RowsOfTables, NEW t \in [Workers -> Tasks], NEW db \in RowsOfTables,
           MemoryIsCurrent(memory, t, db), \A w \in Admins : t[w].step = "idle"
    PROVE  memory = db
<1>1. \A w \in Admins : Pending(t[w]) = {} /\ t[w] \in Tasks /\ ~Reloading(t[w])
  BY SomeWorkers DEF Pending, Reloading, RestsOfReload
<1>2. ASSUME NEW s \in Slots PROVE RowAt(memory, s) = RowAt(db, s)
  <2>1. \A w \in Admins : ~ToRead(t[w], s)
    BY <1>1, NothingToRead
  <2>2. RowIsCurrent(memory, t, db, s)
    BY <2>1 DEF MemoryIsCurrent
  <2> QED
    BY <1>1, <2>2 DEF RowIsCurrent
<1> QED
  BY <1>2, SameRows

(* A reload that has only the route to write, and the prices to load.      *)
LEMMA RoutedIsCurrent ==
    ASSUME NEW memory \in RowsOfTables, NEW db \in RowsOfTables,
           memory.providers = db.providers,
           NEW t \in [Workers -> Tasks], NEW w \in Admins,
           t[w] = Writing(<<RouteWrite(memory.route)>>, [step |-> "ending", pricing |-> db.pricing]),
           \A v \in Admins \ {w} : t[v].step = "idle"
    PROVE  MemoryIsCurrent(memory, t, db)
<1>1. PICK write : write = RouteWrite(memory.route)
  OBVIOUS
<1>2. write.table = "route" /\ write.code = "" /\ write.value = memory.route
  BY <1>1 DEF RouteWrite
<1>3. /\ t[w].step = "writing" /\ t[w].writes = <<write>>
      /\ t[w].rest.step = "ending" /\ t[w].rest.pricing = db.pricing
  BY <1>1 DEF Writing
<1>4. Pending(t[w]) = {write}
  BY <1>3 DEF Pending, Range
<1>5. Rest(t[w]).step = "ending" /\ Rest(t[w]).pricing = db.pricing
  BY <1>3 DEF Rest
<1>6. \A v \in Admins \ {w} : Pending(t[v]) = {} /\ t[v] \in Tasks /\ ~Reloading(t[v])
  BY SomeWorkers DEF Pending, Reloading, RestsOfReload
<1>7. \A v \in Admins : ReadIsCurrent(t[v], db)
  <2>1. ReadIsCurrent(t[w], db)
    BY <1>5 DEF ReadIsCurrent
  <2> QED
    BY <1>6, <2>1, NothingToRead
<1>8. ASSUME NEW s \in Slots, \A v \in Admins : ~ToRead(t[v], s)
      PROVE  RowIsCurrent(memory, t, db, s)
  <2>1. s.table # "pricing"
    BY <1>5, <1>8 DEF ToRead
  <2>2. CASE s.table = "route"
    <3>1. Meets(write, s) /\ RowAt(memory, s) = memory.route
      BY <1>2, <2>2 DEF Slots, Meets, RowAt
    <3>2. After(RowAt(db, s), write) = memory.route
      BY <1>2 DEF After
    <3>3. \A v \in Admins : \A other \in Pending(t[v]) : other = write
      BY <1>4, <1>6
    <3>4. ~\A v \in Admins : \A other \in Pending(t[v]) : ~Meets(other, s)
      BY <1>4, <3>1
    <3> QED
      BY <3>1, <3>2, <3>3, <3>4 DEF RowIsCurrent
  <2>3. CASE s.table = "providers"
    <3>1. ~Meets(write, s) /\ RowAt(memory, s) = RowAt(db, s)
      BY <1>2, <2>3 DEF Meets, RowAt
    <3>2. \A v \in Admins : \A other \in Pending(t[v]) : other = write
      BY <1>4, <1>6
    <3> QED
      BY <3>1, <3>2 DEF RowIsCurrent
  <2> QED
    BY <2>1, <2>2, <2>3 DEF Slots
<1> QED
  BY <1>7, <1>8 DEF MemoryIsCurrent

(* One that fills an empty table of providers from memory.                 *)
LEMMA FilledIsCurrent ==
    ASSUME NEW memory \in RowsOfTables, NEW db \in EmptyRows,
           NEW t \in [Workers -> Tasks], NEW w \in Admins,
           NEW s \in Seq(Codes), Range(s) = Present(memory.providers),
           t[w] = Writing([k \in DOMAIN s |-> ProviderWrite(s[k], memory.providers[s[k]])],
                          [step |-> "filled", read |-> db]),
           \A v \in Admins \ {w} : t[v].step = "idle"
    PROVE  MemoryIsCurrent(memory, t, db)
<1>1. /\ t[w].step = "writing"
      /\ t[w].writes = [k \in DOMAIN s |-> ProviderWrite(s[k], memory.providers[s[k]])]
      /\ t[w].rest.step = "filled" /\ t[w].rest.read = db
  BY DEF Writing
<1>2. Pending(t[w]) = {ProviderWrite(c, memory.providers[c]) : c \in Present(memory.providers)}
  <2>1. PICK writes : writes = [k \in DOMAIN s |-> ProviderWrite(s[k], memory.providers[s[k]])]
    OBVIOUS
  <2>2. Pending(t[w]) = Range(writes)
    BY <1>1, <2>1 DEF Pending
  <2>3. Range(writes) = {ProviderWrite(s[k], memory.providers[s[k]]) : k \in DOMAIN s}
    BY <2>1 DEF Range
  <2>4. Present(memory.providers) = {s[k] : k \in DOMAIN s}
    BY DEF Range
  <2> QED
    BY <2>2, <2>3, <2>4
<1>3. Rest(t[w]).step = "filled" /\ Rest(t[w]).read = db
  BY <1>1 DEF Rest
<1>4. \A v \in Admins \ {w} : Pending(t[v]) = {} /\ t[v] \in Tasks /\ ~Reloading(t[v])
  BY SomeWorkers DEF Pending, Reloading, RestsOfReload
<1>5. \A v \in Admins : ReadIsCurrent(t[v], db)
  <2>1. ReadIsCurrent(t[w], db)
    BY <1>3 DEF ReadIsCurrent
  <2> QED
    BY <1>4, <2>1, NothingToRead
<1>6. ASSUME NEW slot \in Slots, \A v \in Admins : ~ToRead(t[v], slot)
      PROVE  RowIsCurrent(memory, t, db, slot)
  <2>1. slot.table = "providers"
    BY <1>3, <1>6 DEF ToRead
  <2>2. PICK c \in Codes : c = slot.code
    BY <2>1 DEF Slots
  <2>3. RowAt(memory, slot) = memory.providers[c] /\ RowAt(db, slot) = db.providers[c]
    BY <2>1, <2>2 DEF RowAt
  <2>4. db.providers[c] = Absent
    BY DEF EmptyRows, Present
  <2>5. ASSUME NEW v \in Admins, NEW other \in Pending(t[v]), Meets(other, slot)
        PROVE  /\ c \in Present(memory.providers)
               /\ After(RowAt(db, slot), other) = RowAt(memory, slot)
    <3>1. PICK d \in Present(memory.providers) : other = ProviderWrite(d, memory.providers[d])
      BY <1>2, <1>4, <2>5
    <3>2. other.table = "providers" /\ other.code = d /\ other.value = memory.providers[d]
      BY <3>1 DEF ProviderWrite
    <3>3. d = c
      BY <2>2, <2>5, <3>2 DEF Meets
    <3>4. memory.providers[c] # Absent /\ memory.providers[c] \in ProviderRows
      BY <3>1, <3>3 DEF Present, RowsOfTables
    <3>5. memory.providers[c].status # "absent"
      BY <3>4 DEF ProviderRows
    <3>6. Stored(Absent, memory.providers[c]) = memory.providers[c]
      BY <3>5 DEF Stored
    <3> QED
      BY <2>3, <2>4, <3>1, <3>2, <3>3, <3>6 DEF After
  <2>6. ASSUME \A v \in Admins : \A other \in Pending(t[v]) : ~Meets(other, slot)
        PROVE  RowAt(memory, slot) = RowAt(db, slot)
    <3>1. SUFFICES ASSUME c \in Present(memory.providers) PROVE FALSE
      BY <2>3, <2>4 DEF Present
    <3>2. PICK other : other = ProviderWrite(c, memory.providers[c])
      OBVIOUS
    <3>3. other \in Pending(t[w])
      BY <1>2, <3>1, <3>2
    <3>4. Meets(other, slot)
      BY <2>1, <2>2, <3>2 DEF Meets, ProviderWrite
    <3> QED
      BY <2>6, <3>3, <3>4
  <2> QED
    BY <2>5, <2>6 DEF RowIsCurrent
<1> QED
  BY <1>5, <1>6 DEF MemoryIsCurrent

(* A refresh goes on as it was, beside what happens to its replica.        *)
LEMMA RefreshGoesOn ==
    ASSUME NEW r, NEW r2, NEW task, NEW db, NEW announcing, NEW announcing2,
           RefreshOK(r, task, db), AnnouncedOK(r, task, announcing),
           r2.passed = r.passed, r2.known => r.known, r2.seen => r.seen,
           r2.behind => r.behind, r.blind => r2.blind,
           task.step # "idle" /\ r.crossed => r2.crossed,
           announcing => announcing2
    PROVE  RefreshOK(r2, task, db) /\ AnnouncedOK(r2, task, announcing2)
<1>1. RefreshOK(r2, task, db)
  BY DEF RefreshOK
<1>2. AnnouncedOK(r2, task, announcing2)
  <2>1. Reloading(task) => task.step # "idle"
    BY DEF Reloading, RestsOfReload
  <2> QED
    BY <2>1 DEF AnnouncedOK
<1> QED
  BY <1>1, <1>2

LEMMA RestoreStaysAlone ==
    ASSUME NEW r, NEW r2, NEW t, NEW t2, NEW w \in Admins, RestoresAlone(r, t),
           r.blind => r2.blind, t[w].step # "idle", Reloading(t2[w]) => Reloading(t[w]),
           \A v \in Workers \ {w} : t2[v] = t[v]
    PROVE  RestoresAlone(r2, t2)
<1> SUFFICES ASSUME ~r2.blind, NEW u \in Admins, Reloading(t2[u]), NEW v \in Admins \ {u}
             PROVE  t2[v].step = "idle"
  BY DEF RestoresAlone
<1>1. \A x \in Admins \ {w} : t2[x] = t[x]
  BY SomeWorkers
<1>2. Reloading(t[u])
  BY <1>1
<1>3. t[v].step = "idle"
  BY <1>2 DEF RestoresAlone
<1> QED
  BY <1>1, <1>3

(* Others learn that there is a new revision, or never will; or one of     *)
(* them has written a row.                                                 *)
LEMMA UnawareKeeps ==
    ASSUME NEW r, NEW r2, NEW t, NEW db, NEW announcing, NEW announcing2,
           ReplicaOK(r, t, db, announcing),
           r2.memory = r.memory, ~r2.known, ~r2.seen, r2.blind = r.blind,
           r2.behind = r.behind, r2.passed = r.passed, r2.crossed = r.crossed
    PROVE  ReplicaOK(r2, t, db, announcing2)
<1>1. MemoryOK(r2, t, db)
  BY DEF ReplicaOK, MemoryOK, Aware
<1>2. RestoresAlone(r2, t)
  BY DEF ReplicaOK, RestoresAlone
<1>3. RefreshOK(r2, t["gateway"], db)
  BY DEF ReplicaOK, RefreshOK
<1>4. AnnouncedOK(r2, t["gateway"], announcing2)
  BY DEF AnnouncedOK
<1> QED
  BY <1>1, <1>2, <1>3, <1>4 DEF ReplicaOK

LEMMA OvertakenKeeps ==
    ASSUME NEW r, NEW r2, NEW t, NEW db, NEW db2, NEW announcing, NEW announcing2,
           ReplicaOK(r, t, db, announcing), r2.blind, r2.passed = r.passed,
           t["gateway"].step # "idle" => r2.crossed
    PROVE  ReplicaOK(r2, t, db2, announcing2)
<1>1. MemoryOK(r2, t, db2) /\ RestoresAlone(r2, t)
  BY DEF MemoryOK, Aware, RestoresAlone
<1>2. RefreshOK(r2, t["gateway"], db2)
  BY DEF ReplicaOK, RefreshOK
<1>3. AnnouncedOK(r2, t["gateway"], announcing2)
  <2>1. Reloading(t["gateway"]) => t["gateway"].step # "idle"
    BY DEF Reloading, RestsOfReload
  <2> QED
    BY <2>1 DEF AnnouncedOK
<1> QED
  BY <1>1, <1>2, <1>3 DEF ReplicaOK

LEMMA BehindKeeps ==
    ASSUME NEW r, NEW r2, NEW t, NEW db, NEW db2, NEW announcing, NEW announcing2,
           ReplicaOK(r, t, db, announcing), announcing2,
           r2.behind, r2.blind = r.blind,
           t["gateway"].step # "idle" => r2.passed
    PROVE  ReplicaOK(r2, t, db2, announcing2)
<1>1. MemoryOK(r2, t, db2)
  BY DEF MemoryOK, Aware
<1>2. RestoresAlone(r2, t)
  BY DEF ReplicaOK, RestoresAlone
<1>3. RefreshOK(r2, t["gateway"], db2)
  <2>1. Rest(t["gateway"]).step \in RestsOfReload /\ t["gateway"].step # "writing" => r2.passed
    BY DEF Rest, RestsOfReload
  <2> QED
    BY <2>1 DEF ReplicaOK, RefreshOK
<1>4. AnnouncedOK(r2, t["gateway"], announcing2)
  BY DEF AnnouncedOK
<1> QED
  BY <1>1, <1>2, <1>3, <1>4 DEF ReplicaOK

(* An administrator's request at replica r.                                *)
LEMMA ChangeKeeps ==
    ASSUME NEW r \in ReplicaRecords, NEW t \in [Workers -> Tasks], NEW db \in RowsOfTables,
           NEW announcing, ReplicaOK(r, t, db, announcing),
           NEW w \in Admins, t[w].step \in {"idle", "repairing"},
           NEW write \in WritesOfRows, NEW r2, r2.memory = Written(r.memory, write),
           r2.known = r.known, r2.seen = r.seen, r2.behind = r.behind,
           r2.passed = r.passed, r2.crossed = r.crossed, r.blind => r2.blind,
           ~r2.blind =>
              /\ \A v \in Admins \ {w} : ~Reloading(t[v])
              /\ \A v \in Admins \ {w} : \A other \in Pending(t[v]) :
                    ~(other.table = write.table /\ other.code = write.code),
           NEW next \in Tasks, Pending(next) = {write}, ~Reloading(next),
           NEW t2, t2[w] = next, \A v \in Workers \ {w} : t2[v] = t[v]
    PROVE  ReplicaOK(r2, t2, db, announcing)
<1>1. t2["gateway"] = t["gateway"]
  BY SomeWorkers
<1>2. MemoryOK(r2, t2, db)
  <2> SUFFICES ASSUME Aware(r2, t2) PROVE MemoryIsCurrent(r2.memory, t2, db)
    BY DEF MemoryOK
  <2>1. ~r2.blind /\ Aware(r, t)
    BY <1>1 DEF Aware
  <2>2. MemoryIsCurrent(r.memory, t, db) /\ r.memory \in RowsOfTables
    BY <2>1 DEF ReplicaOK, MemoryOK, ReplicaRecords
  <2>3. MemoryIsCurrent(Written(r.memory, write), t2, db)
    BY <2>1, <2>2, ChangeKeepsMemory
  <2> QED
    BY <2>3
<1>3. RestoresAlone(r2, t2)
  <2>1. \A v \in Admins \ {w} : t2[v] = t[v]
    BY SomeWorkers
  <2> QED
    BY <2>1 DEF RestoresAlone
<1>4. RefreshOK(r2, t2["gateway"], db) /\ AnnouncedOK(r2, t2["gateway"], announcing)
  BY <1>1, RefreshGoesOn DEF ReplicaOK
<1> QED
  BY <1>2, <1>3, <1>4 DEF ReplicaOK

LEMMA RepairedKeeps ==
    ASSUME NEW r, NEW t \in [Workers -> Tasks], NEW db, NEW announcing,
           ReplicaOK(r, t, db, announcing), NEW w \in Admins, t[w].step = "repairing",
           NEW t2, t2[w] = NoTask, \A v \in Workers \ {w} : t2[v] = t[v]
    PROVE  ReplicaOK(r, t2, db, announcing)
<1>1. t2["gateway"] = t["gateway"] /\ \A v \in Admins \ {w} : t2[v] = t[v]
  BY SomeWorkers
<1>2. /\ Rest(t[w]).step = "repairing" /\ Rest(t2[w]).step = "idle"
      /\ Pending(t[w]) = {} /\ Pending(t2[w]) = {} /\ ~Reloading(t2[w])
  BY DEF Rest, Pending, NoTask, Reloading, RestsOfReload
<1>3. MemoryOK(r, t2, db)
  <2> SUFFICES ASSUME Aware(r, t2) PROVE MemoryIsCurrent(r.memory, t2, db)
    BY DEF MemoryOK
  <2>1. MemoryIsCurrent(r.memory, t, db)
    BY <1>1 DEF ReplicaOK, MemoryOK, Aware
  <2> QED
    BY <1>1, <1>2, <2>1, SameTasksSameMemory
<1>4. RestoresAlone(r, t2)
  <2>1. RestoresAlone(r, t) /\ (r.blind => r.blind) /\ t[w].step # "idle"
    BY DEF ReplicaOK
  <2> QED
    BY <1>2, <2>1, RestoreStaysAlone
<1> QED
  BY <1>1, <1>3, <1>4 DEF ReplicaOK

LEMMA WriteKeeps ==
    ASSUME NEW r \in ReplicaRecords, NEW t \in [Workers -> Tasks], NEW db \in RowsOfTables,
           NEW announcing, ReplicaOK(r, t, db, announcing),
           NEW w \in Workers, t[w].step = "writing", NEW next \in Tasks,
           next.step = "publishing", next.rest = t[w].rest,
           Pending(next) = Range(Tail(t[w].writes)),
           NEW r2, r2.memory = r.memory, r2.blind = r.blind,
           r2.behind = (r.behind \/ \E v \in Admins \ {w} : Reloading(t[v])),
           r2.passed = (t["gateway"].step # "idle"),
           NEW t2, t2[w] = next, \A v \in Workers \ {w} : t2[v] = t[v]
    PROVE  ReplicaOK(r2, t2, Written(db, Head(t[w].writes)), TRUE)
<1>1. PICK db2 : db2 = Written(db, Head(t[w].writes))
  OBVIOUS
<1>2. AnnouncedOK(r2, t2["gateway"], TRUE)
  BY DEF AnnouncedOK
<1>3. CASE w = "gateway"
  <2>1. t2["gateway"] = next /\ r2.passed /\ \A v \in Admins : t2[v] = t[v]
    BY <1>3, SomeWorkers
  <2>2. MemoryOK(r2, t2, db2)
    BY <2>1 DEF MemoryOK, Aware
  <2>3. RestoresAlone(r2, t2)
    BY <2>1 DEF ReplicaOK, RestoresAlone
  <2>4. RefreshOK(r2, t2["gateway"], db2)
    BY <1>3, <2>1 DEF ReplicaOK, RefreshOK
  <2> QED
    BY <1>1, <1>2, <2>2, <2>3, <2>4 DEF ReplicaOK
<1>4. CASE w \in Admins
  <2>1. t2["gateway"] = t["gateway"]
    BY <1>4, SomeWorkers
  <2>2. MemoryOK(r2, t2, db2)
    <3> SUFFICES ASSUME Aware(r2, t2) PROVE MemoryIsCurrent(r2.memory, t2, db2)
      BY DEF MemoryOK
    <3>1. Aware(r, t) /\ \A v \in Admins \ {w} : ~Reloading(t[v])
      BY <2>1 DEF Aware
    <3>2. MemoryIsCurrent(r.memory, t, db)
      BY <3>1 DEF ReplicaOK, MemoryOK
    <3>3. MemoryIsCurrent(r.memory, t2, db2)
      BY <1>1, <1>4, <3>1, <3>2, WriteKeepsMemory
    <3> QED
      BY <3>3
  <2>3. RestoresAlone(r2, t2)
    <3>1. Reloading(next) => Reloading(t[w])
      BY DEF Reloading, RestsOfReload
    <3> QED
      BY <1>4, <3>1, RestoreStaysAlone DEF ReplicaOK
  <2>4. RefreshOK(r2, t2["gateway"], db2)
    <3>1. r.blind => r2.blind
      OBVIOUS
    <3>2. t["gateway"].step # "idle" => r2.passed
      OBVIOUS
    <3>3. Rest(t["gateway"]).step \in RestsOfReload => r2.passed
      BY <3>2 DEF Rest, RestsOfReload
    <3> QED
      BY <2>1, <3>1, <3>2, <3>3 DEF ReplicaOK, RefreshOK
  <2> QED
    BY <1>1, <1>2, <2>2, <2>3, <2>4 DEF ReplicaOK
<1> QED
  BY <1>3, <1>4, SomeWorkers

LEMMA PublishKeeps ==
    ASSUME NEW r \in ReplicaRecords, NEW t \in [Workers -> Tasks], NEW db \in RowsOfTables,
           NEW announcing, NEW announcing2, ReplicaOK(r, t, db, announcing),
           NEW w \in Workers, t[w].step = "publishing", NEW next \in Tasks,
           (next.step = "writing" /\ next.rest = t[w].rest) \/ next = t[w].rest,
           Rest(next) = t[w].rest, next.step # "reading", next.step # "publishing",
           Pending(next) = Range(Tail(t[w].writes)),
           NEW r2, r2.memory = r.memory, r.blind => r2.blind,
           r2.behind = r.behind, r2.passed = r.passed,
           r.behind => r2.blind \/ ~r2.known,
           \/ ~r2.seen /\ r2.crossed = r.crossed
           \/ ~r2.known /\ r2.crossed = (t["gateway"].step # "idle"),
           NEW t2, t2[w] = next, \A v \in Workers \ {w} : t2[v] = t[v]
    PROVE  ReplicaOK(r2, t2, db, announcing2)
<1>1. Rest(t[w]) = t[w].rest /\ (Reloading(next) => Reloading(t[w]))
  <2>1. Rest(t[w]) = t[w].rest /\ t[w] \in Tasks
    BY DEF Rest
  <2> QED
    BY <2>1, PendingFacts
<1>2. t["gateway"].step # "idle" /\ r.crossed => r2.crossed
  OBVIOUS
<1>3. CASE w = "gateway"
  <2>1. t2["gateway"] = next /\ \A v \in Admins : t2[v] = t[v]
    BY <1>3, SomeWorkers
  <2>2. /\ t[w].rest.step \in RestsOfReload => r.passed
        /\ t[w].rest.step \notin RestsOfReload => r.blind
    BY <1>1, <1>3 DEF ReplicaOK, RefreshOK
  <2>3. MemoryOK(r2, t2, db)
    <3>1. next.step = "idle" => r2.blind
      BY <2>2 DEF RestsOfReload
    <3> QED
      BY <2>1, <3>1 DEF MemoryOK, Aware
  <2>4. RestoresAlone(r2, t2)
    BY <2>1 DEF ReplicaOK, RestoresAlone
  <2>5. RefreshOK(r2, t2["gateway"], db)
    <3>1. next.step = "writing" => next.rest = t[w].rest
      BY DEF Rest
    <3> QED
      BY <2>1, <2>2, <3>1 DEF RefreshOK
  <2>6. AnnouncedOK(r2, t2["gateway"], announcing2)
    BY <1>3 DEF AnnouncedOK
  <2> QED
    BY <2>3, <2>4, <2>5, <2>6 DEF ReplicaOK
<1>4. CASE w \in Admins
  <2>1. t2["gateway"] = t["gateway"] /\ \A v \in Admins \ {w} : t2[v] = t[v]
    BY <1>4, SomeWorkers
  <2>2. MemoryOK(r2, t2, db)
    <3> SUFFICES ASSUME Aware(r2, t2) PROVE MemoryIsCurrent(r2.memory, t2, db)
      BY DEF MemoryOK
    <3>1. Aware(r, t)
      BY <2>1 DEF Aware
    <3>2. MemoryIsCurrent(r.memory, t, db)
      BY <3>1 DEF ReplicaOK, MemoryOK
    <3>3. Pending(t[w]) = Range(Tail(t[w].writes))
      BY DEF Pending
    <3>4. \A v \in Admins : Pending(t2[v]) = Pending(t[v]) /\ Rest(t2[v]) = Rest(t[v])
      BY <1>1, <2>1, <3>3
    <3>5. MemoryIsCurrent(r.memory, t2, db)
      BY <3>2, <3>4, SameTasksSameMemory
    <3> QED
      BY <3>5
  <2>3. RestoresAlone(r2, t2)
    BY <1>1, <1>4, RestoreStaysAlone DEF ReplicaOK
  <2>4. RefreshOK(r2, t2["gateway"], db)
    <3>1. t["gateway"].step = "reading" => t["gateway"].step # "idle"
      OBVIOUS
    <3> QED
      BY <1>2, <2>1, <3>1 DEF ReplicaOK, RefreshOK
  <2>5. AnnouncedOK(r2, t2["gateway"], announcing2)
    <3>1. Reloading(t["gateway"]) => t["gateway"].step # "idle"
      BY DEF Reloading, RestsOfReload
    <3> QED
      BY <2>1, <3>1 DEF AnnouncedOK
  <2> QED
    BY <2>2, <2>3, <2>4, <2>5 DEF ReplicaOK
<1> QED
  BY <1>3, <1>4, SomeWorkers

(* The database refuses the write.                                         *)
LEMMA FailedWriteKeeps ==
    ASSUME NEW r, NEW t \in [Workers -> Tasks], NEW db, NEW announcing,
           ReplicaOK(r, t, db, announcing), NEW w \in Workers, t[w].step = "writing",
           NEW next, next.step \in {"idle", "writing"}, next.step = "writing" => next.rest.step = "idle",
           NEW r2, r2.blind,
           w # "gateway" => /\ r2.passed = r.passed
                            /\ r2.crossed = (t["gateway"].step # "idle"),
           NEW t2, t2[w] = next, \A v \in Workers \ {w} : t2[v] = t[v]
    PROVE  ReplicaOK(r2, t2, db, announcing)
<1>1. MemoryOK(r2, t2, db) /\ RestoresAlone(r2, t2)
  BY DEF MemoryOK, Aware, RestoresAlone
<1>2. CASE w = "gateway"
  <2>1. t2["gateway"] = next
    BY <1>2
  <2>2. RefreshOK(r2, next, db)
    BY DEF RefreshOK, Rest, RestsOfReload
  <2>3. AnnouncedOK(r2, next, announcing)
    <3>1. ~Reloading(next)
      BY DEF Reloading, RestsOfReload
    <3> QED
      BY <3>1 DEF AnnouncedOK
  <2> QED
    BY <1>1, <2>1, <2>2, <2>3 DEF ReplicaOK
<1>3. CASE w # "gateway"
  <2>1. t2["gateway"] = t["gateway"]
    BY <1>3, SomeWorkers
  <2>2. RefreshOK(r2, t["gateway"], db)
    <3>1. t["gateway"].step = "reading" => r2.crossed
      BY <1>3
    <3> QED
      BY <1>3, <3>1 DEF ReplicaOK, RefreshOK
  <2>3. AnnouncedOK(r2, t["gateway"], announcing)
    <3>1. Reloading(t["gateway"]) => t["gateway"].step # "idle"
      BY DEF Reloading, RestsOfReload
    <3> QED
      BY <1>3, <3>1 DEF AnnouncedOK
  <2> QED
    BY <1>1, <2>1, <2>2, <2>3 DEF ReplicaOK
<1> QED
  BY <1>2, <1>3

(* The rows cannot be read.                                                *)
LEMMA FailedReadingKeeps ==
    ASSUME NEW r, NEW t \in [Workers -> Tasks], NEW db, NEW announcing,
           ReplicaOK(r, t, db, announcing), NEW w \in Workers, t[w].step = "reading",
           NEW r2, r2.memory = r.memory, r2.behind = r.behind, r2.known = r.known,
           w = "gateway" => r2.blind = r.blind,
           w # "gateway" => /\ r2.blind /\ r2.seen = r.seen
                            /\ r2.passed = r.passed /\ r2.crossed = r.crossed,
           NEW t2, t2[w] = NoTask, \A v \in Workers \ {w} : t2[v] = t[v]
    PROVE  ReplicaOK(r2, t2, db, announcing)
<1>1. NoTask.step = "idle" /\ ~Reloading(NoTask)
  BY DEF NoTask, Reloading, RestsOfReload
<1>2. CASE w = "gateway"
  <2>1. t2["gateway"] = NoTask /\ \A v \in Admins : t2[v] = t[v]
    BY <1>2, SomeWorkers
  <2>2. MemoryOK(r2, t2, db)
    <3> SUFFICES ASSUME Aware(r2, t2) PROVE MemoryIsCurrent(r2.memory, t2, db)
      BY DEF MemoryOK
    <3>1. MemoryIsCurrent(r.memory, t, db)
      BY <1>2 DEF ReplicaOK, MemoryOK, Aware
    <3>2. \A v \in Admins : Pending(t2[v]) = Pending(t[v]) /\ Rest(t2[v]) = Rest(t[v])
      BY <2>1
    <3>3. MemoryIsCurrent(r.memory, t2, db)
      BY <3>1, <3>2, SameTasksSameMemory
    <3> QED
      BY <3>3
  <2>3. RestoresAlone(r2, t2)
    BY <1>2, <2>1 DEF ReplicaOK, RestoresAlone
  <2>4. RefreshOK(r2, NoTask, db)
    BY <1>1 DEF RefreshOK, Rest, RestsOfReload
  <2>5. AnnouncedOK(r2, NoTask, announcing)
    BY <1>1, <1>2 DEF ReplicaOK, AnnouncedOK
  <2> QED
    BY <2>1, <2>2, <2>3, <2>4, <2>5 DEF ReplicaOK
<1>3. CASE w # "gateway"
  <2>1. t2["gateway"] = t["gateway"]
    BY <1>3, SomeWorkers
  <2>2. MemoryOK(r2, t2, db) /\ RestoresAlone(r2, t2)
    BY <1>3 DEF MemoryOK, Aware, RestoresAlone
  <2>3. RefreshOK(r2, t["gateway"], db)
    BY <1>3 DEF ReplicaOK, RefreshOK
  <2>4. AnnouncedOK(r2, t["gateway"], announcing)
    BY <1>3 DEF ReplicaOK, AnnouncedOK
  <2> QED
    BY <2>1, <2>2, <2>3, <2>4 DEF ReplicaOK
<1> QED
  BY <1>2, <1>3

(* A refresh starts; goes on to write what it has found missing; and ends. *)
LEMMA RefreshStartKeeps ==
    ASSUME NEW r, NEW t \in [Workers -> Tasks], NEW db, NEW announcing,
           ReplicaOK(r, t, db, announcing), t["gateway"].step = "idle",
           NEW r2, r2.memory = r.memory, r2.blind = r.blind, r2.behind = r.behind,
           r2.known = r.known, ~r2.passed,
           NEW t2, t2["gateway"] = Reload(db), \A v \in Workers \ {"gateway"} : t2[v] = t[v]
    PROVE  ReplicaOK(r2, t2, db, announcing)
<1>1. \A v \in Admins : t2[v] = t[v]
  BY SomeWorkers
<1>2. Reload(db).step = "reading" /\ Reload(db).start = db
  BY DEF Reload
<1>3. MemoryOK(r2, t2, db)
  <2> SUFFICES ASSUME Aware(r2, t2) PROVE MemoryIsCurrent(r2.memory, t2, db)
    BY DEF MemoryOK
  <2>1. MemoryIsCurrent(r.memory, t, db)
    BY DEF ReplicaOK, MemoryOK, Aware
  <2>2. \A v \in Admins : Pending(t2[v]) = Pending(t[v]) /\ Rest(t2[v]) = Rest(t[v])
    BY <1>1
  <2>3. MemoryIsCurrent(r.memory, t2, db)
    BY <2>1, <2>2, SameTasksSameMemory
  <2> QED
    BY <2>3
<1>4. RestoresAlone(r2, t2)
  BY <1>1 DEF ReplicaOK, RestoresAlone
<1>5. RefreshOK(r2, t2["gateway"], db)
  BY <1>2 DEF RefreshOK, Rest, RestsOfReload
<1>6. AnnouncedOK(r2, t2["gateway"], announcing)
  BY DEF ReplicaOK, AnnouncedOK
<1> QED
  BY <1>3, <1>4, <1>5, <1>6 DEF ReplicaOK

LEMMA RefreshWriteKeeps ==
    ASSUME NEW r, NEW t \in [Workers -> Tasks], NEW db, NEW announcing,
           ReplicaOK(r, t, db, announcing), t["gateway"].step \in {"reading", "filled"},
           NEW r2, r2.blind = r.blind, r2.behind = r.behind, r2.known = r.known,
           r2.seen = r.seen, r2.passed = r.passed, r2.crossed = r.crossed,
           NEW next, next.step = "writing", next.rest.step \in RestsOfReload,
           NEW t2, t2["gateway"] = next, \A v \in Workers \ {"gateway"} : t2[v] = t[v]
    PROVE  ReplicaOK(r2, t2, db, announcing)
<1>1. \A v \in Admins : t2[v] = t[v]
  BY SomeWorkers
<1>2. MemoryOK(r2, t2, db)
  BY DEF MemoryOK, Aware
<1>3. RestoresAlone(r2, t2)
  BY <1>1 DEF ReplicaOK, RestoresAlone
<1>4. RefreshOK(r2, t2["gateway"], db)
  BY DEF RefreshOK
<1>5. AnnouncedOK(r2, t2["gateway"], announcing)
  <2>1. Reloading(t["gateway"])
    BY DEF Reloading, RestsOfReload
  <2> QED
    BY <2>1 DEF ReplicaOK, AnnouncedOK
<1> QED
  BY <1>2, <1>3, <1>4, <1>5 DEF ReplicaOK

LEMMA RefreshEndKeeps ==
    ASSUME NEW r, NEW t \in [Workers -> Tasks], NEW db, NEW announcing,
           ReplicaOK(r, t, db, announcing), t["gateway"].step \in {"reading", "filled", "ending"},
           NEW r2, r2.known => r.seen,
           r2.blind = (r.crossed \/ \E v \in Admins : t[v].step # "idle"),
           r2.behind = r.passed, ~r2.seen,
           ~r.passed /\ ~r.crossed => r2.memory = db,
           NEW t2 \in [Workers -> Tasks], t2["gateway"] = NoTask,
           \A v \in Workers \ {"gateway"} : t2[v] = t[v]
    PROVE  ReplicaOK(r2, t2, db, announcing)
<1>1. \A v \in Admins : t2[v] = t[v]
  BY SomeWorkers
<1>2. NoTask.step = "idle" /\ ~Reloading(NoTask)
  BY DEF NoTask, Reloading, RestsOfReload
<1>3. MemoryOK(r2, t2, db)
  <2> SUFFICES ASSUME Aware(r2, t2) PROVE MemoryIsCurrent(r2.memory, t2, db)
    BY DEF MemoryOK
  <2>1. r2.memory = db /\ \A v \in Admins : t2[v].step = "idle"
    BY <1>1 DEF Aware
  <2> QED
    BY <2>1, LoadedIsCurrent
<1>4. RestoresAlone(r2, t2)
  <2> SUFFICES ASSUME ~r2.blind PROVE \A v \in Admins : t2[v].step = "idle"
    BY DEF RestoresAlone
  <2> QED
    BY <1>1
<1>5. RefreshOK(r2, NoTask, db)
  BY <1>2 DEF RefreshOK, Rest, RestsOfReload
<1>6. AnnouncedOK(r2, NoTask, announcing)
  <2>1. Reloading(t["gateway"])
    BY DEF Reloading, RestsOfReload
  <2> QED
    BY <1>2, <2>1 DEF ReplicaOK, AnnouncedOK
<1> QED
  BY <1>3, <1>4, <1>5, <1>6 DEF ReplicaOK

(* A restore starts, and its reload loads what it has read.                *)
LEMMA RestoreKeeps ==
    ASSUME NEW r, NEW t \in [Workers -> Tasks], NEW db, NEW db2, NEW announcing, NEW announcing2,
           ReplicaOK(r, t, db, announcing), NEW w \in Admins,
           NEW r2, r2.passed = r.passed, ~r2.behind, r.blind => r2.blind,
           (\E v \in Admins : t[v].step # "idle") => r2.blind,
           t["gateway"].step # "idle" => r2.crossed,
           NEW t2 \in [Workers -> Tasks], t2[w] = Reload(db2),
           \A v \in Workers \ {w} : t2[v] = t[v]
    PROVE  ReplicaOK(r2, t2, db2, announcing2)
<1>1. t2["gateway"] = t["gateway"] /\ \A v \in Admins \ {w} : t2[v] = t[v]
  BY SomeWorkers
<1>2. Reload(db2).step = "reading" /\ Reload(db2).start = db2
  BY DEF Reload
<1>3. MemoryOK(r2, t2, db2)
  <2> SUFFICES ASSUME Aware(r2, t2) PROVE MemoryIsCurrent(r2.memory, t2, db2)
    BY DEF MemoryOK
  <2>1. Rest(t2[w]).step = "reading" /\ Rest(t2[w]).start = db2
    BY <1>2 DEF Rest
  <2>2. ReadIsCurrent(t2[w], db2) /\ \A s \in Slots : ToRead(t2[w], s)
    BY <2>1 DEF ReadIsCurrent, ToRead
  <2>3. ASSUME NEW v \in Admins \ {w} PROVE ReadIsCurrent(t2[v], db2)
    <3>1. t2[v] \in Tasks /\ t2[v].step = "idle"
      BY <1>1, SomeWorkers DEF Aware
    <3>2. ~Reloading(t2[v])
      BY <3>1 DEF Reloading, RestsOfReload
    <3> QED
      BY <3>1, <3>2, NothingToRead
  <2> QED
    BY <2>2, <2>3 DEF MemoryIsCurrent
<1>4. RestoresAlone(r2, t2)
  <2> SUFFICES ASSUME ~r2.blind, NEW u \in Admins, Reloading(t2[u])
               PROVE  \A v \in Admins \ {u} : t2[v].step = "idle"
    BY DEF RestoresAlone
  <2>1. \A v \in Admins : t[v].step = "idle"
    OBVIOUS
  <2>2. u = w
    <3>1. SUFFICES ASSUME u # w PROVE FALSE
      OBVIOUS
    <3>2. t2[u].step = "idle"
      BY <1>1, <2>1, <3>1
    <3> QED
      BY <3>2 DEF Reloading, RestsOfReload
  <2> QED
    BY <1>1, <2>1, <2>2
<1>5. RefreshOK(r2, t2["gateway"], db2)
  <2>1. t["gateway"].step = "reading" => r2.crossed
    OBVIOUS
  <2> QED
    BY <1>1, <2>1 DEF ReplicaOK, RefreshOK
<1>6. AnnouncedOK(r2, t2["gateway"], announcing2)
  <2>1. Reloading(t["gateway"]) => t["gateway"].step # "idle"
    BY DEF Reloading, RestsOfReload
  <2> QED
    BY <1>1, <2>1 DEF AnnouncedOK
<1> QED
  BY <1>3, <1>4, <1>5, <1>6 DEF ReplicaOK

LEMMA RestoreGoesOnKeeps ==
    ASSUME NEW r, NEW t \in [Workers -> Tasks], NEW db, NEW announcing,
           ReplicaOK(r, t, db, announcing), NEW w \in Admins, Reloading(t[w]),
           t[w].step # "idle",
           NEW r2, r2.blind = r.blind, r2.behind = r.behind, r2.known = r.known,
           r2.seen = r.seen, r2.passed = r.passed, r2.crossed = r.crossed,
           NEW t2 \in [Workers -> Tasks], \A v \in Workers \ {w} : t2[v] = t[v],
           (\A v \in Admins \ {w} : t2[v].step = "idle") /\ Aware(r, t)
               => MemoryIsCurrent(r2.memory, t2, db)
    PROVE  ReplicaOK(r2, t2, db, announcing)
<1>1. t2["gateway"] = t["gateway"] /\ \A v \in Admins \ {w} : t2[v] = t[v]
  BY SomeWorkers
<1>2. ASSUME ~r.blind PROVE \A v \in Admins \ {w} : t2[v].step = "idle"
  BY <1>1, <1>2 DEF ReplicaOK, RestoresAlone
<1>3. MemoryOK(r2, t2, db)
  BY <1>1, <1>2 DEF MemoryOK, Aware
<1>4. RestoresAlone(r2, t2)
  BY <1>1, RestoreStaysAlone DEF ReplicaOK
<1>5. RefreshOK(r2, t2["gateway"], db) /\ AnnouncedOK(r2, t2["gateway"], announcing)
  BY <1>1, RefreshGoesOn DEF ReplicaOK
<1> QED
  BY <1>3, <1>4, <1>5 DEF ReplicaOK

(* What a request does next, and nobody else.                              *)
LEMMA GotoFacts ==
    ASSUME SettingsTypeOK, NEW i \in Replicas, NEW w \in Workers, NEW task \in Tasks,
           tasks' = Goto(i, w, task)
    PROVE  /\ tasks' \in [Replicas -> [Workers -> Tasks]]
           /\ tasks'[i][w] = task
           /\ \A v \in Workers \ {w} : tasks'[i][v] = tasks[i][v]
           /\ \A j \in Replicas \ {i} : tasks'[j] = tasks[j]
<1>1. tasks \in [Replicas -> [Workers -> Tasks]]
  BY DEF SettingsTypeOK
<1>2. PICK own \in [Workers -> Tasks] : own = [tasks[i] EXCEPT ![w] = task]
  BY <1>1
<1>3. tasks' = [tasks EXCEPT ![i] = own]
  BY <1>2 DEF Goto
<1>4. own[w] = task /\ \A v \in Workers \ {w} : own[v] = tasks[i][v]
  BY <1>1, <1>2
<1>5. tasks' \in [Replicas -> [Workers -> Tasks]]
  BY <1>1, <1>3
<1>6. tasks'[i] = own /\ \A j \in Replicas \ {i} : tasks'[j] = tasks[j]
  BY <1>1, <1>3
<1> QED
  BY <1>4, <1>5, <1>6

LEMMA StillAnnounced ==
    ASSUME NEW r, NEW t, NEW db, NEW announcing, NEW announcing2,
           ReplicaOK(r, t, db, announcing), announcing => announcing2
    PROVE  ReplicaOK(r, t, db, announcing2)
BY DEF ReplicaOK, AnnouncedOK

LEMMA ReplicaTypes ==
    ASSUME SettingsInv, NEW i \in Replicas
    PROVE  /\ replicas[i] \in ReplicaRecords /\ tasks[i] \in [Workers -> Tasks]
           /\ \A w \in Workers : tasks[i][w] \in Tasks
           /\ database \in RowsOfTables
           /\ ReplicaOK(replicas[i], tasks[i], database, Announcing)
BY DEF SettingsInv, SettingsTypeOK

(* Replica i would be right as r, with that task for w.                    *)
OKThen(i, w, task, r) ==
    \A t2 \in [Workers -> Tasks] :
        t2[w] = task /\ (\A v \in Workers \ {w} : t2[v] = tasks[i][v])
            => ReplicaOK(r, t2, database, Announcing)

(* A step of one replica that leaves the database and Redis as they are,   *)
(* with nothing announced by it.                                           *)
LEMMA StepOfOne ==
    ASSUME SettingsInv, NEW i \in Replicas, NEW w \in Workers, tasks[i][w].step # "publishing",
           NEW task \in Tasks, tasks' = Goto(i, w, task),
           NEW r \in ReplicaRecords, replicas' = [replicas EXCEPT ![i] = r],
           database' = database, archive' = archive, published' = published,
           \A kind \in DOMAIN changes' : changes'[kind] \in Nat,
           OKThen(i, w, task, r)
    PROVE  SettingsInv'
<1>1. SettingsTypeOK
  BY DEF SettingsInv
<1>2. /\ tasks' \in [Replicas -> [Workers -> Tasks]]
      /\ tasks'[i][w] = task
      /\ \A v \in Workers \ {w} : tasks'[i][v] = tasks[i][v]
      /\ \A j \in Replicas \ {i} : tasks'[j] = tasks[j]
  BY <1>1, GotoFacts
<1>3. /\ replicas' \in [Replicas -> ReplicaRecords] /\ replicas'[i] = r
      /\ \A j \in Replicas \ {i} : replicas'[j] = replicas[j]
  BY <1>1 DEF SettingsTypeOK
<1>4. SettingsTypeOK'
  BY <1>1, <1>2, <1>3 DEF SettingsTypeOK
<1>5. Announcing => Announcing'
  <2>1. SUFFICES ASSUME NEW j \in Replicas, NEW v \in Workers, tasks[j][v].step = "publishing"
                 PROVE  tasks'[j][v].step = "publishing"
    BY DEF Announcing
  <2>2. j # i \/ v # w
    BY <2>1
  <2> QED
    BY <1>2, <2>1, <2>2
<1>6. ASSUME NEW j \in Replicas PROVE ReplicaOK(replicas'[j], tasks'[j], database', Announcing')
  <2>1. CASE j = i
    <3>1. ReplicaOK(r, tasks'[i], database, Announcing)
      BY <1>2 DEF OKThen
    <3>2. ReplicaOK(r, tasks'[i], database, Announcing')
      BY <1>5, <3>1, StillAnnounced
    <3> QED
      BY <1>3, <2>1, <3>2
  <2>2. CASE j # i
    <3>1. ReplicaOK(replicas[j], tasks[j], database, Announcing)
      BY DEF SettingsInv
    <3>2. ReplicaOK(replicas[j], tasks[j], database, Announcing')
      BY <1>5, <3>1, StillAnnounced
    <3> QED
      BY <1>2, <1>3, <2>2, <3>2
  <2> QED
    BY <2>1, <2>2
<1> QED
  BY <1>4, <1>6 DEF SettingsInv

(* A change in memory, which is handed on to be written.                   *)
LEMMA StoreKeeps ==
    ASSUME SettingsInv, NEW i \in Replicas, NEW w \in Admins,
           tasks[i][w].step \in {"idle", "repairing"},
           NEW write \in WritesOfRows, NEW rest \in PlainRests,
           NEW memory, memory = Written(Memory(i), write),
           Store(i, w, memory, write, rest),
           \A kind \in DOMAIN changes' : changes'[kind] \in Nat
    PROVE  SettingsInv'
<1>1. PICK r \in ReplicaRecords : r = replicas[i]
  BY ReplicaTypes
<1>2. PICK t \in [Workers -> Tasks] : t = tasks[i]
  BY ReplicaTypes
<1>3. PICK blind \in BOOLEAN : blind = (r.blind \/ Contended(i, w, write))
  OBVIOUS
<1>4. PICK r2 : r2 = [r EXCEPT !.memory = memory, !.blind = blind]
  OBVIOUS
<1>5. memory \in RowsOfTables
  BY <1>1, WrittenFacts DEF Memory, ReplicaRecords
<1>6. /\ r2 \in ReplicaRecords /\ r2.memory = memory /\ r2.blind = blind
      /\ r2.known = r.known /\ r2.seen = r.seen /\ r2.behind = r.behind
      /\ r2.passed = r.passed /\ r2.crossed = r.crossed
  BY <1>4, <1>5 DEF ReplicaRecords
<1>7. /\ replicas' = [replicas EXCEPT ![i] = r2]
      /\ tasks' = Goto(i, w, Writing(<<write>>, rest))
      /\ UNCHANGED <<database, archive, published>>
  BY <1>1, <1>3, <1>4 DEF Store
<1>8. PICK next : next = Writing(<<write>>, rest)
  OBVIOUS
<1>9. next.step = "writing" /\ next.writes = <<write>> /\ next.rest = rest
  BY <1>8 DEF Writing
<1>10. next \in Tasks /\ Pending(next) = {write} /\ ~Reloading(next)
  <2>1. <<write>> \in Seq(WritesOfRows) \ {<<>>}
    OBVIOUS
  <2>2. next \in Writings(WritesOfRows, PlainRests)
    BY <1>8, <2>1 DEF Writing, Writings
  <2>3. next \in Tasks
    BY <2>2 DEF Tasks, WritingTasks
  <2>4. Pending(next) = {write}
    BY <1>9 DEF Pending, Range
  <2>5. ~Reloading(next)
    BY <1>9, WriteKinds DEF Reloading, RestsOfReload
  <2> QED
    BY <2>3, <2>4, <2>5
<1>11. ReplicaOK(r, t, database, Announcing) /\ database \in RowsOfTables
  BY <1>1, <1>2, ReplicaTypes
<1>12. ~r2.blind =>
          /\ \A v \in Admins \ {w} : ~Reloading(t[v])
          /\ \A v \in Admins \ {w} : \A other \in Pending(t[v]) :
                ~(other.table = write.table /\ other.code = write.code)
  BY <1>2, <1>3, <1>6 DEF Contended, OthersReload
<1>13. (r.blind => r2.blind) /\ r2.memory = Written(r.memory, write) /\ t[w].step \in {"idle", "repairing"}
  BY <1>1, <1>2, <1>3, <1>6 DEF Memory
<1>14. ASSUME NEW t2 \in [Workers -> Tasks], t2[w] = next, \A v \in Workers \ {w} : t2[v] = t[v]
       PROVE  ReplicaOK(r2, t2, database, Announcing)
  BY <1>6, <1>10, <1>11, <1>12, <1>13, <1>14, ChangeKeeps
<1>15. w \in Workers /\ tasks[i][w].step # "publishing"
  BY SomeWorkers
<1>16. OKThen(i, w, next, r2)
  BY <1>2, <1>14 DEF OKThen
<1>17. next \in Tasks /\ r2 \in ReplicaRecords /\ tasks' = Goto(i, w, next)
  BY <1>6, <1>7, <1>8, <1>10
<1> QED
  BY <1>7, <1>15, <1>16, <1>17, StepOfOne

LEMMA ChangeStores ==
    ASSUME SettingsInv, NEW i \in Replicas, NEW w \in Admins, NEW kind, NEW memory,
           NEW write \in WritesOfRows, NEW rest \in PlainRests,
           memory = Written(Memory(i), write), Change(i, w, kind, memory, write, rest)
    PROVE  SettingsInv'
<1>1. /\ Idle(i, w) /\ Store(i, w, memory, write, rest)
      /\ kind \in DOMAIN changes /\ changes[kind] > 0
      /\ changes' = [changes EXCEPT ![kind] = @ - 1]
  BY DEF Change, CountChange
<1>2. \A k \in DOMAIN changes' : changes'[k] \in Nat
  BY <1>1 DEF SettingsInv, SettingsTypeOK
<1>3. tasks[i][w].step \in {"idle", "repairing"}
  BY <1>1 DEF Idle
<1> QED
  BY <1>1, <1>2, <1>3, StoreKeeps

(* Each change of an administrator makes of the memory what its write      *)
(* makes of the rows.                                                      *)
LEMMA ProviderChange ==
    ASSUME NEW memory \in RowsOfTables, NEW c \in Codes, NEW row \in ProviderRows \union Deletions
    PROVE  /\ ProviderWrite(c, row) \in WritesOfRows
           /\ Written(memory, ProviderWrite(c, row))
                 = [memory EXCEPT !.providers[c] = Stored(memory.providers[c], row)]
<1>1. PICK write : write = ProviderWrite(c, row)
  OBVIOUS
<1>2. write.table = "providers" /\ write.code = c /\ write.value = row
  BY <1>1 DEF ProviderWrite
<1>3. write \in WritesOfRows
  BY <1>1 DEF ProviderWrite, ProviderWrites, WritesOfRows
<1>4. Written(memory, write) = [memory EXCEPT !.providers[c] = Stored(memory.providers[c], row)]
  BY <1>2 DEF Written
<1> QED
  BY <1>1, <1>3, <1>4

LEMMA RouteChange ==
    ASSUME NEW memory, NEW route \in Routes
    PROVE  /\ RouteWrite(route) \in WritesOfRows
           /\ Written(memory, RouteWrite(route)) = [memory EXCEPT !.route = route]
<1>1. PICK write : write = RouteWrite(route)
  OBVIOUS
<1>2. write.table = "route" /\ write.value = route
  BY <1>1 DEF RouteWrite
<1>3. write \in WritesOfRows
  BY <1>1 DEF RouteWrite, RouteWrites, WritesOfRows
<1> QED
  BY <1>1, <1>2, <1>3 DEF Written

LEMMA PricingChange ==
    ASSUME NEW memory, NEW pricing \in Nat
    PROVE  /\ PricingWrite(pricing) \in WritesOfRows
           /\ Written(memory, PricingWrite(pricing)) = [memory EXCEPT !.pricing = pricing]
<1>1. PICK write : write = PricingWrite(pricing)
  OBVIOUS
<1>2. write.table = "pricing" /\ write.value = pricing
  BY <1>1 DEF PricingWrite
<1>3. write \in WritesOfRows
  BY <1>1 DEF PricingWrite, PricingWrites, WritesOfRows
<1> QED
  BY <1>1, <1>2, <1>3 DEF Written

LEMMA MemoryType ==
    ASSUME SettingsInv, NEW i \in Replicas
    PROVE  /\ Memory(i) \in RowsOfTables
           /\ \A c \in Codes : Memory(i).providers[c] \in ProviderRows
           /\ \A c \in Present(Memory(i).providers) :
                 c \in Codes /\ Memory(i).providers[c] \in [status : {"on", "off"}, id : Nat]
<1>1. Memory(i) \in RowsOfTables
  BY ReplicaTypes DEF Memory, ReplicaRecords
<1>2. \A c \in Codes : Memory(i).providers[c] \in ProviderRows
  BY <1>1 DEF RowsOfTables
<1>3. \A c \in Present(Memory(i).providers) : c \in Codes /\ Memory(i).providers[c] # Absent
  BY DEF Present
<1>4. ASSUME NEW c \in Present(Memory(i).providers)
      PROVE  Memory(i).providers[c] \in [status : {"on", "off"}, id : Nat]
  <2>1. Memory(i).providers[c] \in ProviderRows /\ Memory(i).providers[c] # Absent
    BY <1>2, <1>3
  <2> QED
    BY <2>1 DEF ProviderRows
<1> QED
  BY <1>1, <1>2, <1>3, <1>4

LEMMA PlainRestsThere == NoTask \in PlainRests /\ [step |-> "repairing"] \in PlainRests
BY DEF NoTask, PlainRests

LEMMA SaveKeeps ==
    ASSUME SettingsInv, NEW i \in Replicas, NEW w \in Admins, NEW c \in Codes, SaveProvider(i, w, c)
    PROVE  SettingsInv'
<1> DEFINE here == c \in Present(Memory(i).providers)
<1>1. PICK id : id = IF here THEN Memory(i).providers[c].id ELSE changes["save"]
  OBVIOUS
<1>2. PICK row : row = [status |-> "on", id |-> id]
  OBVIOUS
<1>3. /\ "save" \in DOMAIN changes
      /\ Change(i, w, "save", [Memory(i) EXCEPT !.providers[c] = row], ProviderWrite(c, row),
                [step |-> "repairing"])
  BY <1>1, <1>2 DEF SaveProvider
<1>4. id \in Nat
  <2>1. changes["save"] \in Nat
    BY <1>3 DEF SettingsInv, SettingsTypeOK
  <2>2. here => Memory(i).providers[c].id \in Nat
    BY MemoryType
  <2> QED
    BY <1>1, <2>1, <2>2
<1>5. row \in ProviderRows /\ row.status = "on" /\ row.id = id
  BY <1>2, <1>4 DEF ProviderRows
<1>6. Stored(Memory(i).providers[c], row) = row
  <2>1. CASE here
    <3>1. [row EXCEPT !.id = Memory(i).providers[c].id] = row
      BY <1>1, <1>2, <2>1
    <3> QED
      BY <1>5, <2>1, <3>1 DEF Stored, Present
  <2>2. CASE ~here
    BY <1>5, <2>2 DEF Stored, Present
  <2> QED
    BY <2>1, <2>2
<1>7. PICK write \in WritesOfRows :
         /\ write = ProviderWrite(c, row)
         /\ Written(Memory(i), write) = [Memory(i) EXCEPT !.providers[c] = row]
  BY <1>5, <1>6, MemoryType, ProviderChange
<1>8. Change(i, w, "save", [Memory(i) EXCEPT !.providers[c] = row], write, [step |-> "repairing"])
  BY <1>3, <1>7
<1> HIDE DEF here
<1> QED
  BY <1>7, <1>8, PlainRestsThere, ChangeStores

LEMMA UpdateKeeps ==
    ASSUME SettingsInv, NEW i \in Replicas, NEW w \in Admins, NEW c \in Codes,
           NEW status \in {"on", "off"}, UpdateProvider(i, w, c, status)
    PROVE  SettingsInv'
<1>1. PICK old : old = Memory(i).providers[c]
  OBVIOUS
<1>2. PICK row : row = [old EXCEPT !.status = status]
  OBVIOUS
<1>3. /\ c \in Present(Memory(i).providers)
      /\ Change(i, w, "update", [Memory(i) EXCEPT !.providers[c] = row], ProviderWrite(c, row), NoTask)
  BY <1>1, <1>2 DEF UpdateProvider
<1>4. old \in [status : {"on", "off"}, id : Nat] /\ old # Absent
  BY <1>1, <1>3, MemoryType DEF Present
<1>5. row \in [status : {"on", "off"}, id : Nat] /\ row.id = old.id
  BY <1>2, <1>4
<1>6. Stored(old, row) = row
  <2>1. row.status # "absent" /\ [row EXCEPT !.id = old.id] = row
    BY <1>5
  <2> QED
    BY <1>4, <2>1 DEF Stored
<1>7. row \in ProviderRows
  BY <1>5 DEF ProviderRows
<1>8. PICK write \in WritesOfRows :
         /\ write = ProviderWrite(c, row)
         /\ Written(Memory(i), write) = [Memory(i) EXCEPT !.providers[c] = row]
  BY <1>1, <1>6, <1>7, MemoryType, ProviderChange
<1>9. Change(i, w, "update", [Memory(i) EXCEPT !.providers[c] = row], write, NoTask)
  BY <1>3, <1>8
<1> QED
  BY <1>8, <1>9, PlainRestsThere, ChangeStores

LEMMA DeleteKeeps ==
    ASSUME SettingsInv, NEW i \in Replicas, NEW w \in Admins, NEW c \in Codes, DeleteProvider(i, w, c)
    PROVE  SettingsInv'
<1>1. PICK old : old = Memory(i).providers[c]
  OBVIOUS
<1>2. PICK row : row = [old EXCEPT !.status = "absent"]
  OBVIOUS
<1>3. /\ c \in Present(Memory(i).providers)
      /\ Change(i, w, "delete", [Memory(i) EXCEPT !.providers[c] = Absent], ProviderWrite(c, row),
                NoTask)
  BY <1>1, <1>2 DEF DeleteProvider
<1>4. old \in [status : {"on", "off"}, id : Nat]
  BY <1>1, <1>3, MemoryType
<1>5. row \in Deletions /\ row.id = old.id /\ row.status = "absent"
  BY <1>2, <1>4 DEF Deletions
<1>6. Stored(old, row) = Absent
  BY <1>5 DEF Stored
<1>7. PICK write \in WritesOfRows :
         /\ write = ProviderWrite(c, row)
         /\ Written(Memory(i), write) = [Memory(i) EXCEPT !.providers[c] = Absent]
  BY <1>1, <1>5, <1>6, MemoryType, ProviderChange
<1>8. Change(i, w, "delete", [Memory(i) EXCEPT !.providers[c] = Absent], write, NoTask)
  BY <1>3, <1>7
<1> QED
  BY <1>7, <1>8, PlainRestsThere, ChangeStores

LEMMA UpdateRouteKeeps ==
    ASSUME SettingsInv, NEW i \in Replicas, NEW w \in Admins, NEW primary \in Codes,
           NEW fallback \in Codes, NEW enabled \in BOOLEAN, UpdateRoute(i, w, primary, fallback, enabled)
    PROVE  SettingsInv'
<1>1. PICK route : route = [primary |-> primary, fallback |-> fallback, enabled |-> enabled]
  OBVIOUS
<1>2. route \in Routes
  BY <1>1 DEF Routes
<1>3. PICK write \in WritesOfRows :
         write = RouteWrite(route) /\ Written(Memory(i), write) = [Memory(i) EXCEPT !.route = route]
  BY <1>2, RouteChange
<1>4. Change(i, w, "route", [Memory(i) EXCEPT !.route = route], write, NoTask)
  BY <1>1, <1>3 DEF UpdateRoute
<1> QED
  BY <1>3, <1>4, PlainRestsThere, ChangeStores

LEMMA UpdatePricingKeeps ==
    ASSUME SettingsInv, NEW i \in Replicas, NEW w \in Admins, UpdatePricing(i, w)
    PROVE  SettingsInv'
<1>1. PICK pricing \in Nat : pricing = changes["pricing"]
  BY DEF UpdatePricing, SettingsInv, SettingsTypeOK
<1>2. PICK write \in WritesOfRows :
         /\ write = PricingWrite(pricing)
         /\ Written(Memory(i), write) = [Memory(i) EXCEPT !.pricing = pricing]
  BY PricingChange
<1>3. Change(i, w, "pricing", [Memory(i) EXCEPT !.pricing = pricing], write, NoTask)
  BY <1>1, <1>2 DEF UpdatePricing
<1> QED
  BY <1>2, <1>3, PlainRestsThere, ChangeStores

(* Of some codes one comes first, and a repaired route is a route.         *)
LEMMA FirstIsOne ==
    ASSUME NEW codes \in SUBSET Codes
    PROVE  First(codes) \in Codes \union {""}
<1>1. CASE codes = {}
  BY <1>1 DEF First
<1>2. CASE codes # {}
  <2> DEFINE places == {Preference[c] : c \in codes}
  <2>1. \A c \in codes : Preference[c] \in Nat
    BY SettingsAssumption
  <2>2. places \subseteq Nat /\ places # {}
    BY <1>2, <2>1
  <2>3. PICK least \in places : \A place \in places : <<place, least>> \notin OpToRel(<, Nat)
    BY <2>2, NatLessThanWellFounded, WFMin
  <2>4. PICK c \in codes : least = Preference[c]
    OBVIOUS
  <2>5. \A d \in codes : Preference[c] <= Preference[d]
    <3>1. \A m, n \in Nat : m < n => <<m, n>> \in OpToRel(<, Nat)
      BY DEF OpToRel
    <3>2. SUFFICES ASSUME NEW d \in codes, Preference[d] < Preference[c] PROVE FALSE
      BY <2>1
    <3>3. Preference[d] \in Nat /\ Preference[c] \in Nat /\ Preference[d] \in places
      BY <2>1
    <3>4. <<Preference[d], Preference[c]>> \in OpToRel(<, Nat)
      BY <3>1, <3>2, <3>3
    <3> QED
      BY <2>3, <2>4, <3>3, <3>4
  <2>6. (CHOOSE x \in codes : \A d \in codes : Preference[x] <= Preference[d]) \in codes
    BY <2>5
  <2> QED
    BY <1>2, <2>6 DEF First
<1> QED
  BY <1>1, <1>2

LEMMA RepairedType ==
    ASSUME NEW route \in Routes, NEW providers
    PROVE  Repaired(route, providers) \in Routes
<1> DEFINE usable == Usable(providers)
           primary == IF route.primary \in usable THEN route.primary ELSE First(usable)
           fallback == IF route.fallback \in usable \ {primary} THEN route.fallback
                       ELSE First(usable \ {primary})
<1>1. usable \subseteq Codes
  BY DEF Usable
<1>2. First(usable) \in Codes \union {""}
  BY <1>1, FirstIsOne
<1>3. First(usable \ {primary}) \in Codes \union {""}
  <2>1. usable \ {primary} \in SUBSET Codes
    BY <1>1
  <2> HIDE DEF usable, primary
  <2> QED
    BY <2>1, FirstIsOne
<1>4. primary \in Codes \union {""} /\ fallback \in Codes \union {""}
  BY <1>2, <1>3 DEF Routes
<1>5. Repaired(route, providers)
          = IF usable = {} THEN route
            ELSE [route EXCEPT !.primary = primary, !.fallback = fallback]
  BY DEF Repaired
<1> HIDE DEF usable, primary, fallback
<1>6. [route EXCEPT !.primary = primary, !.fallback = fallback] \in Routes
  BY <1>4 DEF Routes
<1> QED
  BY <1>5, <1>6

(* The routes are repaired after a provider was stored.                    *)
LEMMA RepairKeeps ==
    ASSUME SettingsInv, NEW i \in Replicas, NEW w \in Admins, RepairRoutes(i, w)
    PROVE  SettingsInv'
<1>1. PICK route : route = Repaired(Memory(i).route, Memory(i).providers)
  OBVIOUS
<1>2. /\ tasks[i][w].step = "repairing"
      /\ IF route = Memory(i).route
         THEN /\ tasks' = Goto(i, w, NoTask)
              /\ UNCHANGED <<database, archive, published, replicas>>
         ELSE Store(i, w, [Memory(i) EXCEPT !.route = route], RouteWrite(route), NoTask)
      /\ changes' = changes
  BY <1>1 DEF RepairRoutes
<1>3. \A kind \in DOMAIN changes' : changes'[kind] \in Nat
  BY <1>2 DEF SettingsInv, SettingsTypeOK
<1>4. route \in Routes
  <2>1. Memory(i).route \in Routes
    BY MemoryType DEF RowsOfTables
  <2> QED
    BY <1>1, <2>1, RepairedType
<1>5. CASE route = Memory(i).route
  <2>1. PICK r \in ReplicaRecords : r = replicas[i]
    BY ReplicaTypes
  <2>2. replicas' = [replicas EXCEPT ![i] = r]
    BY <1>2, <1>5, <2>1 DEF SettingsInv, SettingsTypeOK
  <2>3. NoTask \in Tasks /\ w \in Workers /\ tasks[i][w].step # "publishing"
    BY <1>2, PlainRestsThere, WriteKinds, SomeWorkers
  <2>4. tasks' = Goto(i, w, NoTask) /\ UNCHANGED <<database, archive, published>>
    BY <1>2, <1>5
  <2>5. ASSUME NEW t2 \in [Workers -> Tasks], t2[w] = NoTask,
               \A v \in Workers \ {w} : t2[v] = tasks[i][v]
        PROVE  ReplicaOK(r, t2, database, Announcing)
    <3>1. ReplicaOK(r, tasks[i], database, Announcing) /\ tasks[i] \in [Workers -> Tasks]
      BY <2>1, ReplicaTypes
    <3> QED
      BY <1>2, <2>5, <3>1, RepairedKeeps
  <2>6. OKThen(i, w, NoTask, r)
    BY <2>5 DEF OKThen
  <2> QED
    BY <1>3, <2>2, <2>3, <2>4, <2>6, StepOfOne
<1>6. CASE route # Memory(i).route
  <2>1. PICK write \in WritesOfRows :
           write = RouteWrite(route) /\ Written(Memory(i), write) = [Memory(i) EXCEPT !.route = route]
    BY <1>4, RouteChange
  <2>2. Store(i, w, [Memory(i) EXCEPT !.route = route], write, NoTask)
    BY <1>2, <1>6, <2>1
  <2>3. tasks[i][w].step \in {"idle", "repairing"}
    BY <1>2
  <2> QED
    BY <1>3, <2>1, <2>2, <2>3, PlainRestsThere, StoreKeeps
<1> QED
  BY <1>5, <1>6

(* A row is written: every other replica is behind, until it is announced. *)
LEMMA WriteRowKeeps ==
    ASSUME SettingsInv, NEW i \in Replicas, NEW w \in Workers, WriteRow(i, w)
    PROVE  SettingsInv'
<1>1. SettingsTypeOK
  BY DEF SettingsInv
<1>2. PICK task \in Tasks : task = tasks[i][w]
  BY ReplicaTypes
<1>3. /\ task.step = "writing"
      /\ database' = Written(database, Head(task.writes))
      /\ tasks' = Goto(i, w, [task EXCEPT !.step = "publishing"])
      /\ replicas' = [j \in Replicas |->
            [replicas[j] EXCEPT !.behind = @ \/ j # i \/ OthersReload(i, w),
                                !.passed = ~Idle(j, "gateway")]]
      /\ archive' = archive /\ published' = published /\ changes' = changes
  BY <1>2 DEF WriteRow
<1>4. PICK next \in Tasks :
         /\ next = [task EXCEPT !.step = "publishing"]
         /\ next.step = "publishing" /\ next.rest = task.rest
         /\ Pending(next) = Range(Tail(task.writes))
  BY <1>3, NextWriteFacts
<1>5. /\ tasks' \in [Replicas -> [Workers -> Tasks]]
      /\ tasks'[i][w] = next
      /\ \A v \in Workers \ {w} : tasks'[i][v] = tasks[i][v]
      /\ \A j \in Replicas \ {i} : tasks'[j] = tasks[j]
  BY <1>1, <1>3, <1>4, GotoFacts
<1>6. Announcing'
  BY <1>4, <1>5 DEF Announcing
<1>7. database' \in RowsOfTables
  <2>1. Head(task.writes) \in WritesOfRows
    BY <1>3, NextWriteFacts
  <2> QED
    BY <1>1, <1>3, <2>1, WrittenFacts DEF SettingsTypeOK
<1>8. ASSUME NEW j \in Replicas
      PROVE  /\ replicas'[j] \in ReplicaRecords
             /\ replicas'[j].memory = replicas[j].memory /\ replicas'[j].blind = replicas[j].blind
             /\ replicas'[j].behind = (replicas[j].behind \/ j # i \/ OthersReload(i, w))
             /\ replicas'[j].passed = ~Idle(j, "gateway")
  <2>1. PICK r \in ReplicaRecords : r = replicas[j]
    BY ReplicaTypes
  <2>2. PICK behind \in BOOLEAN : behind = (r.behind \/ j # i \/ OthersReload(i, w))
    OBVIOUS
  <2>3. PICK passed \in BOOLEAN : passed = ~Idle(j, "gateway")
    OBVIOUS
  <2>4. PICK r2 : r2 = [r EXCEPT !.behind = behind, !.passed = passed]
    OBVIOUS
  <2>5. /\ r2 \in ReplicaRecords /\ r2.memory = r.memory /\ r2.blind = r.blind
        /\ r2.behind = behind /\ r2.passed = passed
    BY <2>4 DEF ReplicaRecords
  <2>6. replicas'[j] = r2
    BY <1>3, <2>1, <2>2, <2>3, <2>4
  <2> QED
    BY <2>1, <2>2, <2>3, <2>5, <2>6
<1>9. SettingsTypeOK'
  <2>1. replicas' \in [Replicas -> ReplicaRecords]
    <3>1. replicas' = [j \in Replicas |-> replicas'[j]]
      BY <1>3
    <3> QED
      BY <1>8, <3>1
  <2> QED
    BY <1>1, <1>3, <1>5, <1>7, <2>1 DEF SettingsTypeOK
<1>10. ReplicaOK(replicas'[i], tasks'[i], database', Announcing')
  <2>1. PICK r \in ReplicaRecords : r = replicas[i]
    BY ReplicaTypes
  <2>2. PICK r2 : r2 = replicas'[i]
    OBVIOUS
  <2>3. PICK t \in [Workers -> Tasks] : t = tasks[i]
    BY ReplicaTypes
  <2>4. /\ r2.memory = r.memory /\ r2.blind = r.blind
        /\ r2.behind = (r.behind \/ \E v \in Admins \ {w} : Reloading(t[v]))
        /\ r2.passed = (t["gateway"].step # "idle")
    BY <1>8, <2>1, <2>2, <2>3 DEF OthersReload, Idle
  <2>5. ReplicaOK(r, t, database, Announcing) /\ database \in RowsOfTables
    BY <2>1, <2>3, ReplicaTypes
  <2>6. PICK t2 : t2 = tasks'[i]
    OBVIOUS
  <2>7. t2[w] = next /\ \A v \in Workers \ {w} : t2[v] = t[v]
    BY <1>5, <2>3, <2>6
  <2>8. t[w].step = "writing" /\ next.rest = t[w].rest /\ Pending(next) = Range(Tail(t[w].writes))
    BY <1>2, <1>3, <1>4, <2>3
  <2>9. ReplicaOK(r2, t2, Written(database, Head(t[w].writes)), TRUE)
    BY <1>4, <2>4, <2>5, <2>7, <2>8, WriteKeeps
  <2>10. ReplicaOK(r2, t2, database', TRUE)
    BY <1>2, <1>3, <2>3, <2>9
  <2> QED
    BY <1>6, <2>2, <2>6, <2>10, StillAnnounced
<1>11. ASSUME NEW j \in Replicas, j # i
       PROVE  ReplicaOK(replicas'[j], tasks'[j], database', Announcing')
  <2>1. PICK r \in ReplicaRecords : r = replicas[j]
    BY ReplicaTypes
  <2>2. PICK r2 : r2 = replicas'[j]
    OBVIOUS
  <2>3. r2.behind /\ r2.blind = r.blind /\ (tasks[j]["gateway"].step # "idle" => r2.passed)
    BY <1>8, <1>11, <2>1, <2>2 DEF Idle
  <2>4. ReplicaOK(r, tasks[j], database, Announcing)
    BY <2>1, ReplicaTypes
  <2>5. ReplicaOK(r2, tasks[j], database', Announcing')
    BY <1>6, <2>3, <2>4, BehindKeeps
  <2> QED
    BY <1>5, <1>11, <2>2, <2>5
<1> QED
  BY <1>9, <1>10, <1>11 DEF SettingsInv

LEMMA UnawareFacts ==
    ASSUME NEW r \in ReplicaRecords
    PROVE  /\ Unaware(r) \in ReplicaRecords /\ ~Unaware(r).known /\ ~Unaware(r).seen
           /\ Unaware(r).memory = r.memory /\ Unaware(r).blind = r.blind
           /\ Unaware(r).behind = r.behind /\ Unaware(r).passed = r.passed
           /\ Unaware(r).crossed = r.crossed
BY DEF ReplicaRecords, Unaware

LEMMA CrossedFacts ==
    ASSUME SettingsInv, NEW j \in Replicas
    PROVE  /\ Crossed(j) \in ReplicaRecords
           /\ Crossed(j).memory = replicas[j].memory /\ Crossed(j).known = replicas[j].known
           /\ Crossed(j).seen = replicas[j].seen /\ Crossed(j).blind = replicas[j].blind
           /\ Crossed(j).behind = replicas[j].behind /\ Crossed(j).passed = replicas[j].passed
           /\ Crossed(j).crossed = (tasks[j]["gateway"].step # "idle")
           /\ Overtaken(j) \in ReplicaRecords /\ Overtaken(j).blind
           /\ Overtaken(j).passed = replicas[j].passed
           /\ Overtaken(j).crossed = (tasks[j]["gateway"].step # "idle")
<1>1. PICK r \in ReplicaRecords : r = replicas[j]
  BY ReplicaTypes
<1>2. PICK busy \in BOOLEAN : busy = (tasks[j]["gateway"].step # "idle")
  OBVIOUS
<1>3. PICK c : c = [r EXCEPT !.crossed = busy] /\ c = Crossed(j)
  BY <1>1, <1>2 DEF Crossed, Idle
<1>4. /\ c \in ReplicaRecords /\ c.memory = r.memory /\ c.known = r.known /\ c.seen = r.seen
      /\ c.blind = r.blind /\ c.behind = r.behind /\ c.passed = r.passed /\ c.crossed = busy
  BY <1>3 DEF ReplicaRecords
<1>5. PICK o : o = [c EXCEPT !.blind = TRUE]
  OBVIOUS
<1>6. o \in ReplicaRecords /\ o.blind /\ o.passed = c.passed /\ o.crossed = c.crossed
  BY <1>4, <1>5 DEF ReplicaRecords
<1>7. Overtaken(j) = o
  BY <1>3, <1>5 DEF Overtaken
<1> QED
  BY <1>1, <1>2, <1>3, <1>4, <1>6, <1>7

(* The revision is gone, for every replica.                                *)
LEMMA ExpiryKeeps ==
    ASSUME SettingsInv, ExpireRevision
    PROVE  SettingsInv'
<1>1. /\ published' = FALSE
      /\ replicas' = [i \in Replicas |-> Unaware(replicas[i])]
      /\ database' = database /\ archive' = archive /\ tasks' = tasks /\ changes' = changes
  BY DEF ExpireRevision
<1>2. ASSUME NEW j \in Replicas
      PROVE  /\ replicas'[j] \in ReplicaRecords
             /\ ReplicaOK(replicas'[j], tasks'[j], database', Announcing')
  <2>1. PICK r \in ReplicaRecords : r = replicas[j]
    BY ReplicaTypes
  <2>2. replicas'[j] = Unaware(r) /\ Unaware(r) \in ReplicaRecords
    BY <1>1, <2>1, UnawareFacts
  <2>3. ReplicaOK(r, tasks[j], database, Announcing)
    BY <2>1, ReplicaTypes
  <2>4. ReplicaOK(Unaware(r), tasks[j], database, Announcing')
    BY <2>3, UnawareFacts, UnawareKeeps
  <2> QED
    BY <1>1, <2>2, <2>4
<1>3. replicas' \in [Replicas -> ReplicaRecords]
  <2>1. replicas' = [j \in Replicas |-> replicas'[j]]
    BY <1>1
  <2> QED
    BY <1>2, <2>1
<1>4. SettingsTypeOK'
  BY <1>1, <1>3 DEF SettingsInv, SettingsTypeOK
<1> QED
  BY <1>2, <1>4 DEF SettingsInv

(* Redis runs the command, and every other replica will look; or it does   *)
(* not, and every other is blind.                                          *)
LEMMA PublishingKeeps ==
    ASSUME SettingsInv, NEW i \in Replicas, NEW w \in Workers, Publish(i, w)
    PROVE  SettingsInv'
<1>1. SettingsTypeOK
  BY DEF SettingsInv
<1>2. PICK task \in Tasks : task = tasks[i][w]
  BY ReplicaTypes
<1>3. /\ task.step = "publishing"
      /\ tasks' = Goto(i, w, AfterWrite(task))
      /\ database' = database /\ archive' = archive
  BY <1>2 DEF Publish
<1>4. PICK next \in Tasks :
         /\ next = AfterWrite(task)
         /\ (next.step = "writing" /\ next.rest = task.rest) \/ next = task.rest
         /\ Rest(next) = task.rest
         /\ next.step \in {"writing", "idle", "repairing", "filled", "ending"}
         /\ Pending(next) = Range(Tail(task.writes))
  BY <1>3, AfterWriteFacts
<1>5. /\ tasks' \in [Replicas -> [Workers -> Tasks]]
      /\ tasks'[i][w] = next
      /\ \A v \in Workers \ {w} : tasks'[i][v] = tasks[i][v]
      /\ \A j \in Replicas \ {i} : tasks'[j] = tasks[j]
  BY <1>1, <1>3, <1>4, GotoFacts
<1>6. PICK r \in ReplicaRecords : r = replicas[i]
  BY ReplicaTypes
<1>7. PICK t \in [Workers -> Tasks] : t = tasks[i]
  BY ReplicaTypes
<1>8. ReplicaOK(r, t, database, Announcing) /\ database \in RowsOfTables
  BY <1>6, <1>7, ReplicaTypes
<1>9. /\ t[w].step = "publishing" /\ Rest(next) = t[w].rest
      /\ (next.step = "writing" /\ next.rest = t[w].rest) \/ next = t[w].rest
      /\ next.step # "reading" /\ next.step # "publishing"
      /\ Pending(next) = Range(Tail(t[w].writes))
  BY <1>2, <1>3, <1>4, <1>7
<1>10. PICK t2 : t2 = tasks'[i]
  OBVIOUS
<1>11. t2[w] = next /\ \A v \in Workers \ {w} : t2[v] = t[v]
  BY <1>5, <1>7, <1>10
<1>12. ASSUME NEW r2 \in ReplicaRecords, replicas'[i] = r2,
              r2.memory = r.memory, r.blind => r2.blind, r2.behind = r.behind,
              r2.passed = r.passed, r.behind => r2.blind \/ ~r2.known,
              \/ ~r2.seen /\ r2.crossed = r.crossed
              \/ ~r2.known /\ r2.crossed = (t["gateway"].step # "idle"),
              published' \in BOOLEAN, \A kind \in DOMAIN changes' : changes'[kind] \in Nat,
              DOMAIN replicas' = Replicas, replicas' = [j \in Replicas |-> replicas'[j]],
              \A j \in Replicas \ {i} :
                 /\ replicas'[j] \in ReplicaRecords
                 /\ ReplicaOK(replicas'[j], tasks[j], database, Announcing')
       PROVE  SettingsInv'
  <2>1. ReplicaOK(r2, t2, database, Announcing')
    BY <1>8, <1>9, <1>11, <1>12, PublishKeeps
  <2>2. replicas' \in [Replicas -> ReplicaRecords]
    <3>1. \A j \in Replicas : replicas'[j] \in ReplicaRecords
      BY <1>12
    <3> QED
      BY <1>12, <3>1
  <2>3. SettingsTypeOK'
    BY <1>1, <1>3, <1>5, <1>12, <2>2 DEF SettingsTypeOK
  <2>4. ASSUME NEW j \in Replicas PROVE ReplicaOK(replicas'[j], tasks'[j], database', Announcing')
    BY <1>3, <1>5, <1>10, <1>12, <2>1
  <2> QED
    BY <2>3, <2>4 DEF SettingsInv
<1>13. CASE /\ published' = TRUE
            /\ changes' = changes
            /\ replicas' = [j \in Replicas |->
                  IF j = i THEN [replicas[i] EXCEPT !.known = TRUE, !.seen = FALSE,
                                                    !.blind = @ \/ replicas[i].behind]
                  ELSE Unaware(replicas[j])]
  <2>1. PICK blind \in BOOLEAN : blind = (r.blind \/ r.behind)
    OBVIOUS
  <2>2. PICK r2 : r2 = [r EXCEPT !.known = TRUE, !.seen = FALSE, !.blind = blind]
    OBVIOUS
  <2>3. /\ r2 \in ReplicaRecords /\ r2.memory = r.memory /\ ~r2.seen /\ r2.blind = blind
        /\ r2.behind = r.behind /\ r2.passed = r.passed /\ r2.crossed = r.crossed
    BY <2>2 DEF ReplicaRecords
  <2>4. replicas'[i] = r2
    BY <1>6, <1>13, <2>1, <2>2
  <2>5. (r.blind => r2.blind) /\ (r.behind => r2.blind \/ ~r2.known)
    BY <2>1, <2>3
  <2>6. ASSUME NEW j \in Replicas \ {i}
        PROVE  /\ replicas'[j] \in ReplicaRecords
               /\ ReplicaOK(replicas'[j], tasks[j], database, Announcing')
    <3>1. PICK q \in ReplicaRecords : q = replicas[j]
      BY ReplicaTypes
    <3>2. replicas'[j] = Unaware(q) /\ Unaware(q) \in ReplicaRecords
      BY <1>13, <3>1, UnawareFacts
    <3>3. ReplicaOK(q, tasks[j], database, Announcing)
      BY <3>1, ReplicaTypes
    <3>4. ReplicaOK(Unaware(q), tasks[j], database, Announcing')
      BY <3>3, UnawareFacts, UnawareKeeps
    <3> QED
      BY <3>2, <3>4
  <2>7. DOMAIN replicas' = Replicas /\ replicas' = [j \in Replicas |-> replicas'[j]]
    BY <1>13
  <2>8. published' \in BOOLEAN /\ \A kind \in DOMAIN changes' : changes'[kind] \in Nat
    BY <1>1, <1>13 DEF SettingsTypeOK
  <2> QED
    BY <1>12, <2>3, <2>4, <2>5, <2>6, <2>7, <2>8
<1>14. CASE /\ CountChange("failure")
            /\ published' = published
            /\ replicas' = [j \in Replicas |->
                  IF j = i THEN [Crossed(i) EXCEPT !.known = FALSE] ELSE Overtaken(j)]
  <2>1. PICK c \in ReplicaRecords :
           /\ c = Crossed(i) /\ c.memory = r.memory /\ c.blind = r.blind
           /\ c.behind = r.behind /\ c.passed = r.passed
           /\ c.crossed = (t["gateway"].step # "idle")
    BY <1>6, <1>7, CrossedFacts
  <2>2. PICK r2 : r2 = [c EXCEPT !.known = FALSE]
    OBVIOUS
  <2>3. /\ r2 \in ReplicaRecords /\ ~r2.known /\ r2.memory = r.memory /\ r2.blind = r.blind
        /\ r2.behind = r.behind /\ r2.passed = r.passed
        /\ r2.crossed = (t["gateway"].step # "idle")
    BY <2>1, <2>2 DEF ReplicaRecords
  <2>4. replicas'[i] = r2
    BY <1>14, <2>1, <2>2
  <2>5. (r.blind => r2.blind) /\ (r.behind => r2.blind \/ ~r2.known)
    BY <2>3
  <2>6. ASSUME NEW j \in Replicas \ {i}
        PROVE  /\ replicas'[j] \in ReplicaRecords
               /\ ReplicaOK(replicas'[j], tasks[j], database, Announcing')
    <3>1. replicas'[j] = Overtaken(j) /\ Overtaken(j) \in ReplicaRecords
      BY <1>14, CrossedFacts
    <3>2. ReplicaOK(replicas[j], tasks[j], database, Announcing)
      BY ReplicaTypes
    <3>3. ReplicaOK(Overtaken(j), tasks[j], database, Announcing')
      BY <3>2, CrossedFacts, OvertakenKeeps
    <3> QED
      BY <3>1, <3>3
  <2>7. DOMAIN replicas' = Replicas /\ replicas' = [j \in Replicas |-> replicas'[j]]
    BY <1>14
  <2>8. published' \in BOOLEAN /\ \A kind \in DOMAIN changes' : changes'[kind] \in Nat
    BY <1>1, <1>14 DEF SettingsTypeOK, CountChange
  <2> QED
    BY <1>12, <2>3, <2>4, <2>5, <2>6, <2>7, <2>8
<1> QED
  BY <1>13, <1>14 DEF Publish

LEMMA CountedChanges ==
    ASSUME SettingsInv, NEW kind, CountChange(kind)
    PROVE  \A k \in DOMAIN changes' : changes'[k] \in Nat
BY DEF CountChange, SettingsInv, SettingsTypeOK

LEMMA FailWriteKeeps ==
    ASSUME SettingsInv, NEW i \in Replicas, NEW w \in Workers, FailWrite(i, w)
    PROVE  SettingsInv'
<1>1. PICK task \in Tasks : task = tasks[i][w]
  BY ReplicaTypes
<1>2. /\ task.step = "writing"
      /\ CountChange("failure")
      /\ tasks' = Goto(i, w, AfterWrite([task EXCEPT !.rest = NoTask]))
      /\ replicas' = [replicas EXCEPT ![i] =
            IF w = "gateway" THEN [Refreshed(@) EXCEPT !.blind = TRUE] ELSE Overtaken(i)]
      /\ database' = database /\ archive' = archive /\ published' = published
  BY <1>1 DEF FailWrite
<1>3. PICK given : given = [task EXCEPT !.rest = NoTask]
  OBVIOUS
<1>4. given \in Tasks /\ given.step = "writing" /\ given.rest = NoTask
  <2>1. /\ task.writes \in Seq(WritesOfRows) \ {<<>>} /\ NoTask \in PlainRests
    BY <1>2, WritingFacts, PlainRestsThere
  <2>2. \/ task \in Writings(WritesOfRows, PlainRests)
        \/ task \in Writings(ProviderWrites, FilledRests)
        \/ task \in Writings(RouteWrites, EndingRests)
    BY <1>2, WritingFacts
  <2>3. given.step = "writing" /\ given.rest = NoTask /\ given.writes = task.writes
        /\ given = [step |-> given.step, writes |-> given.writes, rest |-> given.rest]
    BY <1>2, <1>3, <2>2 DEF Writings
  <2>4. given \in Writings(WritesOfRows, PlainRests)
    BY <2>1, <2>3 DEF Writings
  <2> QED
    BY <2>3, <2>4 DEF Tasks, WritingTasks
<1>5. PICK next \in Tasks :
         /\ next = AfterWrite(given)
         /\ (next.step = "writing" /\ next.rest = given.rest) \/ next = given.rest
  BY <1>4, AfterWriteFacts
<1>6. next.step \in {"idle", "writing"} /\ (next.step = "writing" => next.rest.step = "idle")
  BY <1>4, <1>5 DEF NoTask
<1>7. PICK r \in ReplicaRecords : r = replicas[i]
  BY ReplicaTypes
<1>8. PICK r2 : r2 = IF w = "gateway" THEN [Refreshed(r) EXCEPT !.blind = TRUE] ELSE Overtaken(i)
  OBVIOUS
<1>9. /\ r2 \in ReplicaRecords /\ r2.blind
      /\ w # "gateway" => /\ r2.passed = r.passed
                          /\ r2.crossed = (tasks[i]["gateway"].step # "idle")
  <2>1. CASE w = "gateway"
    <3>1. PICK f : f = Refreshed(r)
      OBVIOUS
    <3>2. f \in ReplicaRecords
      BY <3>1 DEF Refreshed, ReplicaRecords
    <3>3. r2 = [f EXCEPT !.blind = TRUE]
      BY <1>8, <2>1, <3>1
    <3> QED
      BY <2>1, <3>2, <3>3 DEF ReplicaRecords
  <2>2. CASE w # "gateway"
    BY <1>7, <1>8, <2>2, CrossedFacts
  <2> QED
    BY <2>1, <2>2
<1>10. replicas' = [replicas EXCEPT ![i] = r2] /\ tasks' = Goto(i, w, next)
  BY <1>2, <1>3, <1>5, <1>7, <1>8
<1>11. OKThen(i, w, next, r2)
  <2>1. ReplicaOK(r, tasks[i], database, Announcing) /\ tasks[i] \in [Workers -> Tasks]
    BY <1>7, ReplicaTypes
  <2>2. tasks[i][w].step = "writing"
    BY <1>1, <1>2
  <2>3. ASSUME NEW t2 \in [Workers -> Tasks], t2[w] = next,
               \A v \in Workers \ {w} : t2[v] = tasks[i][v]
        PROVE  ReplicaOK(r2, t2, database, Announcing)
    BY <1>6, <1>9, <2>1, <2>2, <2>3, FailedWriteKeeps
  <2> QED
    BY <2>3 DEF OKThen
<1>12. \A kind \in DOMAIN changes' : changes'[kind] \in Nat
  BY <1>2, CountedChanges
<1>13. tasks[i][w].step # "publishing"
  BY <1>1, <1>2
<1> QED
  BY <1>2, <1>9, <1>10, <1>11, <1>12, <1>13, StepOfOne

LEMMA RefreshedFacts ==
    ASSUME NEW r \in ReplicaRecords
    PROVE  /\ Refreshed(r) \in ReplicaRecords
           /\ Refreshed(r).memory = r.memory /\ Refreshed(r).known = r.known
           /\ Refreshed(r).blind = r.blind /\ Refreshed(r).behind = r.behind
           /\ ~Refreshed(r).seen /\ ~Refreshed(r).passed /\ ~Refreshed(r).crossed
BY DEF Refreshed, ReplicaRecords

LEMMA FailReadingKeeps ==
    ASSUME SettingsInv, NEW i \in Replicas, NEW w \in Workers, FailReading(i, w)
    PROVE  SettingsInv'
<1>1. /\ tasks[i][w].step = "reading"
      /\ CountChange("failure")
      /\ tasks' = Goto(i, w, NoTask)
      /\ replicas' = [replicas EXCEPT ![i] =
            IF w = "gateway" THEN Refreshed(@) ELSE [@ EXCEPT !.blind = TRUE]]
      /\ database' = database /\ archive' = archive /\ published' = published
  BY DEF FailReading
<1>2. PICK r \in ReplicaRecords : r = replicas[i]
  BY ReplicaTypes
<1>3. PICK r2 : r2 = IF w = "gateway" THEN Refreshed(r) ELSE [r EXCEPT !.blind = TRUE]
  OBVIOUS
<1>4. /\ r2 \in ReplicaRecords
      /\ r2.memory = r.memory /\ r2.behind = r.behind /\ r2.known = r.known
      /\ w = "gateway" => r2.blind = r.blind
      /\ w # "gateway" => /\ r2.blind /\ r2.seen = r.seen
                          /\ r2.passed = r.passed /\ r2.crossed = r.crossed
  <2>1. CASE w = "gateway"
    BY <1>3, <2>1, RefreshedFacts
  <2>2. CASE w # "gateway"
    BY <1>3, <2>2 DEF ReplicaRecords
  <2> QED
    BY <2>1, <2>2
<1>5. replicas' = [replicas EXCEPT ![i] = r2]
  BY <1>1, <1>2, <1>3
<1>6. OKThen(i, w, NoTask, r2)
  <2>1. ReplicaOK(r, tasks[i], database, Announcing) /\ tasks[i] \in [Workers -> Tasks]
    BY <1>2, ReplicaTypes
  <2>2. ASSUME NEW t2 \in [Workers -> Tasks], t2[w] = NoTask,
               \A v \in Workers \ {w} : t2[v] = tasks[i][v]
        PROVE  ReplicaOK(r2, t2, database, Announcing)
    BY <1>1, <1>4, <2>1, <2>2, FailedReadingKeeps
  <2> QED
    BY <2>2 DEF OKThen
<1>7. \A kind \in DOMAIN changes' : changes'[kind] \in Nat
  BY <1>1, CountedChanges
<1>8. NoTask \in Tasks /\ tasks[i][w].step # "publishing"
  BY <1>1, PlainRestsThere, WriteKinds
<1> QED
  BY <1>1, <1>4, <1>5, <1>6, <1>7, <1>8, StepOfOne

(* A refresh that begins reads the rows of now.                            *)
LEMMA RefreshKeeps ==
    ASSUME SettingsInv, NEW i \in Replicas, NEW seen \in BOOLEAN, Refresh(i, seen),
           \A kind \in DOMAIN changes' : changes'[kind] \in Nat
    PROVE  SettingsInv'
<1>1. /\ tasks[i]["gateway"].step = "idle"
      /\ replicas' = [replicas EXCEPT ![i] = [Refreshed(@) EXCEPT !.seen = seen]]
      /\ tasks' = Goto(i, "gateway", Reload(database))
      /\ database' = database /\ archive' = archive /\ published' = published
  BY DEF Refresh, Idle
<1>2. PICK r \in ReplicaRecords : r = replicas[i]
  BY ReplicaTypes
<1>3. PICK f \in ReplicaRecords :
         /\ f = Refreshed(r) /\ f.memory = r.memory /\ f.known = r.known
         /\ f.blind = r.blind /\ f.behind = r.behind /\ ~f.passed
  BY RefreshedFacts
<1>4. PICK r2 : r2 = [f EXCEPT !.seen = seen]
  OBVIOUS
<1>5. /\ r2 \in ReplicaRecords /\ r2.memory = r.memory /\ r2.known = r.known
      /\ r2.blind = r.blind /\ r2.behind = r.behind /\ ~r2.passed
  BY <1>3, <1>4 DEF ReplicaRecords
<1>6. replicas' = [replicas EXCEPT ![i] = r2]
  BY <1>1, <1>2, <1>3, <1>4
<1>7. Reload(database) \in Tasks
  <2>1. Reload(database) \in [step : {"reading"}, start : RowsOfTables]
    BY ReplicaTypes DEF Reload
  <2> QED
    BY <2>1 DEF Tasks
<1>8. OKThen(i, "gateway", Reload(database), r2)
  <2>1. ReplicaOK(r, tasks[i], database, Announcing) /\ tasks[i] \in [Workers -> Tasks]
    BY <1>2, ReplicaTypes
  <2>2. ASSUME NEW t2 \in [Workers -> Tasks], t2["gateway"] = Reload(database),
               \A v \in Workers \ {"gateway"} : t2[v] = tasks[i][v]
        PROVE  ReplicaOK(r2, t2, database, Announcing)
    BY <1>1, <1>5, <2>1, <2>2, RefreshStartKeeps
  <2> QED
    BY <2>2 DEF OKThen
<1>9. "gateway" \in Workers /\ tasks[i]["gateway"].step # "publishing"
  BY <1>1, SomeWorkers
<1> QED
  BY <1>1, <1>5, <1>6, <1>7, <1>8, <1>9, StepOfOne

(* A restore replaces the rows, and announces nothing.                     *)
LEMMA RestoringKeeps ==
    ASSUME SettingsInv, NEW i \in Replicas, NEW w \in Admins, Restore(i, w)
    PROVE  SettingsInv'
<1>1. SettingsTypeOK
  BY DEF SettingsInv
<1>2. /\ tasks[i][w].step = "idle"
      /\ CountChange("restore")
      /\ database' = archive
      /\ tasks' = Goto(i, w, Reload(archive))
      /\ replicas' = [j \in Replicas |->
            IF j = i THEN [Crossed(i) EXCEPT !.behind = FALSE,
                                             !.blind = @ \/ \E v \in Admins : ~Idle(i, v)]
            ELSE Overtaken(j)]
      /\ archive' = archive /\ published' = published
  BY DEF Restore, Idle
<1>3. Reload(archive) \in Tasks /\ archive \in RowsOfTables
  <2>1. Reload(archive) \in [step : {"reading"}, start : RowsOfTables]
    BY <1>1 DEF Reload, SettingsTypeOK
  <2> QED
    BY <1>1, <2>1 DEF Tasks, SettingsTypeOK
<1>4. /\ tasks' \in [Replicas -> [Workers -> Tasks]]
      /\ tasks'[i][w] = Reload(archive)
      /\ \A v \in Workers \ {w} : tasks'[i][v] = tasks[i][v]
      /\ \A j \in Replicas \ {i} : tasks'[j] = tasks[j]
  BY <1>1, <1>2, <1>3, SomeWorkers, GotoFacts
<1>5. /\ replicas'[i] \in ReplicaRecords
      /\ ReplicaOK(replicas'[i], tasks'[i], archive, Announcing')
  <2>1. PICK r \in ReplicaRecords : r = replicas[i]
    BY ReplicaTypes
  <2>2. PICK t \in [Workers -> Tasks] : t = tasks[i]
    BY ReplicaTypes
  <2>3. PICK c \in ReplicaRecords :
           /\ c = Crossed(i) /\ c.blind = r.blind /\ c.passed = r.passed
           /\ c.crossed = (t["gateway"].step # "idle")
    BY <2>1, <2>2, CrossedFacts
  <2>4. PICK blind \in BOOLEAN : blind = (c.blind \/ \E v \in Admins : ~Idle(i, v))
    OBVIOUS
  <2>5. PICK r2 : r2 = [c EXCEPT !.behind = FALSE, !.blind = blind]
    OBVIOUS
  <2>6. /\ r2 \in ReplicaRecords /\ ~r2.behind /\ r2.blind = blind /\ r2.passed = r.passed
        /\ r2.crossed = c.crossed
    BY <2>3, <2>5 DEF ReplicaRecords
  <2>7. replicas'[i] = r2
    BY <1>2, <2>3, <2>4, <2>5
  <2>8. /\ r.blind => r2.blind
        /\ (\E v \in Admins : t[v].step # "idle") => r2.blind
        /\ t["gateway"].step # "idle" => r2.crossed
    BY <2>2, <2>3, <2>4, <2>6 DEF Idle
  <2>9. ReplicaOK(r, t, database, Announcing)
    BY <2>1, <2>2, ReplicaTypes
  <2>10. PICK t2 \in [Workers -> Tasks] : t2 = tasks'[i]
    BY <1>4
  <2>11. t2[w] = Reload(archive) /\ \A v \in Workers \ {w} : t2[v] = t[v]
    BY <1>4, <2>2, <2>10
  <2>12. ReplicaOK(r2, t2, archive, Announcing')
    BY <2>6, <2>8, <2>9, <2>11, RestoreKeeps
  <2> QED
    BY <2>6, <2>7, <2>10, <2>12
<1>6. ASSUME NEW j \in Replicas, j # i
      PROVE  /\ replicas'[j] \in ReplicaRecords
             /\ ReplicaOK(replicas'[j], tasks'[j], archive, Announcing')
  <2>1. replicas'[j] = Overtaken(j) /\ Overtaken(j) \in ReplicaRecords
    BY <1>2, <1>6, CrossedFacts
  <2>2. ReplicaOK(replicas[j], tasks[j], database, Announcing)
    BY ReplicaTypes
  <2>3. ReplicaOK(Overtaken(j), tasks[j], archive, Announcing')
    BY <2>2, CrossedFacts, OvertakenKeeps
  <2> QED
    BY <1>4, <1>6, <2>1, <2>3
<1>7. SettingsTypeOK'
  <2>1. replicas' \in [Replicas -> ReplicaRecords]
    <3>1. replicas' = [j \in Replicas |-> replicas'[j]]
      BY <1>2
    <3>2. \A j \in Replicas : replicas'[j] \in ReplicaRecords
      BY <1>5, <1>6
    <3> QED
      BY <3>1, <3>2
  <2>2. \A kind \in DOMAIN changes' : changes'[kind] \in Nat
    BY <1>2, CountedChanges
  <2> QED
    BY <1>1, <1>2, <1>4, <2>1, <2>2 DEF SettingsTypeOK
<1> QED
  BY <1>2, <1>5, <1>6, <1>7 DEF SettingsInv

(* The rows that a reload at w would load are the database's, if its       *)
(* replica can tell them to be.                                            *)
Trusting(i, w) ==
    IF w = "gateway" THEN ~replicas[i].passed /\ ~replicas[i].crossed
    ELSE Aware(replicas[i], tasks[i]) /\ \A v \in Admins \ {w} : tasks[i][v].step = "idle"

SameFlags(r, r2) ==
    /\ r2.known = r.known /\ r2.seen = r.seen /\ r2.blind = r.blind
    /\ r2.behind = r.behind /\ r2.passed = r.passed /\ r2.crossed = r.crossed

Busy(i) == \E v \in Admins : tasks[i][v].step # "idle"

(* What a replica is once it has stored the settings it loaded.            *)
ReloadedAs(r2, i, replica, w, pricing) ==
    /\ r2 = Reloaded(i, replica, w, pricing)
    /\ r2.memory = [replica.memory EXCEPT !.pricing = pricing]
    /\ w # "gateway" => SameFlags(replica, r2)
    /\ w = "gateway" =>
          /\ r2.known = replica.seen /\ r2.behind = replica.passed /\ ~r2.seen
          /\ r2.blind = (replica.crossed \/ Busy(i))

LEMMA ReloadedFacts ==
    ASSUME NEW i, NEW replica \in ReplicaRecords, NEW w, NEW pricing \in Nat
    PROVE  \E r2 \in ReplicaRecords : ReloadedAs(r2, i, replica, w, pricing)
<1>1. PICK memory : memory = [replica.memory EXCEPT !.pricing = pricing]
  OBVIOUS
<1>2. memory \in RowsOfTables
  BY <1>1 DEF ReplicaRecords, RowsOfTables
<1>3. PICK loaded : loaded = [replica EXCEPT !.memory = memory]
  OBVIOUS
<1>4. loaded \in ReplicaRecords /\ loaded.memory = memory /\ SameFlags(replica, loaded)
  BY <1>2, <1>3 DEF ReplicaRecords, SameFlags
<1>5. loaded = [replica EXCEPT !.memory.pricing = pricing]
  BY <1>1, <1>3
<1>6. CASE w # "gateway"
  <2>1. Reloaded(i, replica, w, pricing) = loaded
    BY <1>5, <1>6 DEF Reloaded
  <2> QED
    BY <1>1, <1>4, <1>6, <2>1 DEF ReloadedAs
<1>7. CASE w = "gateway"
  <2>1. PICK f \in ReplicaRecords : f = Refreshed(loaded) /\ f.memory = memory /\ ~f.seen
    BY <1>4, RefreshedFacts
  <2>2. PICK blind \in BOOLEAN : blind = (replica.crossed \/ \E v \in Admins : ~Idle(i, v))
    OBVIOUS
  <2>3. PICK r2 : r2 = [f EXCEPT !.known = replica.seen, !.blind = blind, !.behind = replica.passed]
    OBVIOUS
  <2>4. /\ r2 \in ReplicaRecords /\ r2.memory = memory /\ r2.known = replica.seen
        /\ r2.blind = blind /\ r2.behind = replica.passed /\ ~r2.seen
    BY <2>1, <2>3 DEF ReplicaRecords
  <2>5. Reloaded(i, replica, w, pricing) = r2
    BY <1>5, <1>7, <2>1, <2>2, <2>3 DEF Reloaded, RevisionRead
  <2> QED
    BY <1>1, <1>7, <2>2, <2>4, <2>5 DEF Idle, Busy, ReloadedAs
<1> QED
  BY <1>6, <1>7

(* A reload is over.                                                       *)
LEMMA ReloadEnds ==
    ASSUME SettingsInv, NEW i \in Replicas, NEW w \in Workers,
           tasks[i][w].step \in {"reading", "filled", "ending"},
           NEW replica \in ReplicaRecords, SameFlags(replicas[i], replica), NEW pricing \in Nat,
           replicas' = [replicas EXCEPT ![i] = Reloaded(i, replica, w, pricing)],
           tasks' = Goto(i, w, NoTask),
           database' = database, archive' = archive, published' = published, changes' = changes,
           Trusting(i, w) => [replica.memory EXCEPT !.pricing = pricing] = database
    PROVE  SettingsInv'
<1>1. PICK r \in ReplicaRecords : r = replicas[i]
  BY ReplicaTypes
<1>2. PICK t \in [Workers -> Tasks] : t = tasks[i]
  BY ReplicaTypes
<1>3. ReplicaOK(r, t, database, Announcing)
  BY <1>1, <1>2, ReplicaTypes
<1>4. PICK r2 \in ReplicaRecords : ReloadedAs(r2, i, replica, w, pricing)
  BY ReloadedFacts
<1>5. Trusting(i, w) => r2.memory = database
  BY <1>4 DEF ReloadedAs
<1>6. ASSUME NEW t2 \in [Workers -> Tasks], t2[w] = NoTask,
             \A v \in Workers \ {w} : t2[v] = t[v]
      PROVE  ReplicaOK(r2, t2, database, Announcing)
  <2>1. CASE w = "gateway"
    <3>1. ~r.passed /\ ~r.crossed => r2.memory = database
      BY <1>1, <1>5, <2>1 DEF Trusting
    <3>2. /\ r2.known = replica.seen /\ r2.behind = replica.passed /\ ~r2.seen
          /\ r2.blind = (replica.crossed \/ Busy(i))
      BY <1>4, <2>1 DEF ReloadedAs
    <3>3. /\ r2.known => r.seen
          /\ r2.blind = (r.crossed \/ \E v \in Admins : t[v].step # "idle")
          /\ r2.behind = r.passed /\ ~r2.seen
      BY <1>1, <1>2, <3>2 DEF SameFlags, Busy
    <3>4. /\ t["gateway"].step \in {"reading", "filled", "ending"} /\ t2["gateway"] = NoTask
          /\ \A v \in Workers \ {"gateway"} : t2[v] = t[v]
      BY <1>2, <1>6, <2>1
    <3> QED
      BY <1>3, <3>1, <3>3, <3>4, RefreshEndKeeps
  <2>2. CASE w # "gateway"
    <3>1. w \in Admins
      BY <2>2, SomeWorkers
    <3>2. SameFlags(r, r2)
      <4>1. SameFlags(r, replica) /\ SameFlags(replica, r2)
        BY <1>1, <1>4, <2>2 DEF ReloadedAs
      <4> QED
        BY <4>1 DEF SameFlags
    <3>3. Reloading(t[w]) /\ t[w].step # "idle"
      BY <1>2 DEF Reloading, RestsOfReload
    <3>4. ASSUME \A v \in Admins \ {w} : t2[v].step = "idle", Aware(r, t)
          PROVE  MemoryIsCurrent(r2.memory, t2, database)
      <4>1. \A v \in Admins \ {w} : t2[v] = t[v]
        BY <1>6, SomeWorkers
      <4>2. r2.memory = database
        BY <1>1, <1>2, <1>5, <2>2, <3>4, <4>1 DEF Trusting
      <4>3. \A v \in Admins : t2[v].step = "idle"
        BY <1>6, <3>4 DEF NoTask
      <4> QED
        BY <4>2, <4>3, LoadedIsCurrent
    <3> QED
      BY <1>3, <1>6, <3>1, <3>2, <3>3, <3>4, RestoreGoesOnKeeps DEF SameFlags
  <2> QED
    BY <2>1, <2>2
<1>7. OKThen(i, w, NoTask, r2)
  BY <1>2, <1>6 DEF OKThen
<1>8. /\ NoTask \in Tasks /\ tasks[i][w].step # "publishing"
      /\ replicas' = [replicas EXCEPT ![i] = r2]
  BY <1>4, PlainRestsThere, WriteKinds DEF ReloadedAs
<1>9. \A kind \in DOMAIN changes' : changes'[kind] \in Nat
  BY DEF SettingsInv, SettingsTypeOK
<1> QED
  BY <1>7, <1>8, <1>9, StepOfOne

(* A reload has rows to write, after which it goes on.                     *)
WritesCurrent(w, next, memory) ==
    \A t2 \in [Workers -> Tasks] :
        t2[w] = next /\ (\A v \in Admins \ {w} : t2[v].step = "idle")
            => MemoryIsCurrent(memory, t2, database)

LEMMA ReloadWrites ==
    ASSUME SettingsInv, NEW i \in Replicas, NEW w \in Workers,
           tasks[i][w].step \in {"reading", "filled"},
           NEW replica \in ReplicaRecords, SameFlags(replicas[i], replica),
           NEW next \in Tasks, next.step = "writing", next.rest.step \in RestsOfReload,
           replicas' = [replicas EXCEPT ![i] = replica],
           tasks' = Goto(i, w, next),
           database' = database, archive' = archive, published' = published, changes' = changes,
           w \in Admins /\ Trusting(i, w) => WritesCurrent(w, next, replica.memory)
    PROVE  SettingsInv'
<1>1. PICK r \in ReplicaRecords : r = replicas[i]
  BY ReplicaTypes
<1>2. PICK t \in [Workers -> Tasks] : t = tasks[i]
  BY ReplicaTypes
<1>3. ReplicaOK(r, t, database, Announcing)
  BY <1>1, <1>2, ReplicaTypes
<1>4. ASSUME NEW t2 \in [Workers -> Tasks], t2[w] = next,
             \A v \in Workers \ {w} : t2[v] = t[v]
      PROVE  ReplicaOK(replica, t2, database, Announcing)
  <2>1. CASE w = "gateway"
    <3>1. /\ t["gateway"].step \in {"reading", "filled"} /\ t2["gateway"] = next
          /\ \A v \in Workers \ {"gateway"} : t2[v] = t[v]
      BY <1>2, <1>4, <2>1
    <3>2. /\ replica.blind = r.blind /\ replica.behind = r.behind /\ replica.known = r.known
          /\ replica.seen = r.seen /\ replica.passed = r.passed /\ replica.crossed = r.crossed
      BY <1>1 DEF SameFlags
    <3> QED
      BY <1>3, <3>1, <3>2, RefreshWriteKeeps
  <2>2. CASE w # "gateway"
    <3>1. w \in Admins
      BY <2>2, SomeWorkers
    <3>2. Reloading(t[w]) /\ t[w].step # "idle"
      BY <1>2 DEF Reloading, RestsOfReload
    <3>3. ASSUME \A v \in Admins \ {w} : t2[v].step = "idle", Aware(r, t)
          PROVE  MemoryIsCurrent(replica.memory, t2, database)
      <4>1. \A v \in Admins \ {w} : t2[v] = t[v]
        BY <1>4, SomeWorkers
      <4>2. Trusting(i, w)
        BY <1>1, <1>2, <2>2, <3>3, <4>1 DEF Trusting
      <4> QED
        BY <1>4, <3>1, <3>3, <4>2 DEF WritesCurrent
    <3>4. /\ replica.blind = r.blind /\ replica.behind = r.behind /\ replica.known = r.known
          /\ replica.seen = r.seen /\ replica.passed = r.passed /\ replica.crossed = r.crossed
      BY <1>1 DEF SameFlags
    <3> QED
      BY <1>3, <1>4, <3>1, <3>2, <3>3, <3>4, RestoreGoesOnKeeps
  <2> QED
    BY <2>1, <2>2
<1>5. OKThen(i, w, next, replica)
  BY <1>2, <1>4 DEF OKThen
<1>6. \A kind \in DOMAIN changes' : changes'[kind] \in Nat
  BY DEF SettingsInv, SettingsTypeOK
<1>7. tasks[i][w].step # "publishing"
  OBVIOUS
<1> QED
  BY <1>5, <1>6, <1>7, StepOfOne

(* What a reload still has to load is the database's, and the rest is in   *)
(* memory already.                                                         *)
LEMMA RestIsLoaded ==
    ASSUME NEW memory \in RowsOfTables, NEW t \in [Workers -> Tasks], NEW db \in RowsOfTables,
           MemoryIsCurrent(memory, t, db), NEW w \in Admins, t[w].step \in {"filled", "ending"},
           \A v \in Admins \ {w} : t[v].step = "idle"
    PROVE  /\ memory.providers = db.providers
           /\ t[w].step = "filled" => t[w].read.route = db.route /\ t[w].read.pricing = db.pricing
           /\ t[w].step = "ending" => memory.route = db.route /\ t[w].pricing = db.pricing
<1>1. Rest(t[w]) = t[w]
  BY DEF Rest
<1>2. ReadIsCurrent(t[w], db)
  BY DEF MemoryIsCurrent
<1>3. \A v \in Admins : Pending(t[v]) = {}
  BY DEF Pending
<1>4. ASSUME NEW s \in Slots, ~ToRead(t[w], s)
      PROVE  RowAt(memory, s) = RowAt(db, s)
  <2>1. ASSUME NEW v \in Admins \ {w} PROVE ~ToRead(t[v], s)
    <3>1. t[v] \in Tasks /\ ~Reloading(t[v])
      BY SomeWorkers DEF Reloading, RestsOfReload
    <3> QED
      BY <3>1, NothingToRead
  <2>2. RowIsCurrent(memory, t, db, s)
    BY <1>4, <2>1 DEF MemoryIsCurrent
  <2> QED
    BY <1>3, <2>2 DEF RowIsCurrent
<1>5. \A c \in Codes : [table |-> "providers", code |-> c] \in Slots
  BY DEF Slots
<1>6. \A c \in Codes : memory.providers[c] = db.providers[c]
  <2> SUFFICES ASSUME NEW c \in Codes PROVE memory.providers[c] = db.providers[c]
    OBVIOUS
  <2>1. PICK s \in Slots : s = [table |-> "providers", code |-> c]
    BY <1>5
  <2>2. s.table = "providers" /\ s.code = c
    BY <2>1
  <2>3. ~ToRead(t[w], s)
    BY <1>1, <2>2 DEF ToRead
  <2> QED
    BY <1>4, <2>2, <2>3 DEF RowAt
<1>7. memory.providers = db.providers
  BY <1>6 DEF RowsOfTables
<1>8. t[w].step = "ending" => memory.route = db.route
  <2>1. PICK s : s = [table |-> "route", code |-> ""]
    OBVIOUS
  <2>2. s \in Slots /\ s.table = "route"
    BY <2>1 DEF Slots
  <2>3. t[w].step = "ending" => ~ToRead(t[w], s)
    BY <1>1, <2>2 DEF ToRead
  <2> QED
    BY <1>4, <2>2, <2>3 DEF RowAt
<1> QED
  BY <1>1, <1>2, <1>7, <1>8 DEF ReadIsCurrent

LEMMA RowsReadType ==
    ASSUME SettingsTypeOK, NEW start \in RowsOfTables, NEW read \in RowsRead(start)
    PROVE  /\ read \in RowsOfTables
           /\ start = database => read = database
<1>1. PICK p \in {start.pricing, database.pricing} :
         \E q \in {start.providers, database.providers}, r \in {start.route, database.route} :
             read = [pricing |-> p, providers |-> q, route |-> r]
  BY DEF RowsRead
<1>2. PICK q \in {start.providers, database.providers}, r \in {start.route, database.route} :
         read = [pricing |-> p, providers |-> q, route |-> r]
  BY <1>1
<1>3. database \in RowsOfTables
  BY DEF SettingsTypeOK
<1>4. read \in RowsOfTables
  BY <1>2, <1>3 DEF RowsOfTables
<1>5. start = database => read = database
  BY <1>2, <1>3 DEF RowsOfTables
<1> QED
  BY <1>4, <1>5

(* A reload that can tell has read the rows of the database.               *)
LEMMA ReadIsTrusted ==
    ASSUME SettingsInv, NEW i \in Replicas, NEW w \in Workers, Trusting(i, w)
    PROVE  /\ tasks[i][w].step = "reading" => tasks[i][w].start = database
           /\ w = "gateway" => tasks[i][w].step \notin {"filled", "ending"}
           /\ w # "gateway" =>
                 /\ w \in Admins /\ \A v \in Admins \ {w} : tasks[i][v].step = "idle"
                 /\ MemoryIsCurrent(Memory(i), tasks[i], database)
<1>1. PICK t \in [Workers -> Tasks] : t = tasks[i]
  BY ReplicaTypes
<1>2. PICK r \in ReplicaRecords : r = replicas[i]
  BY ReplicaTypes
<1>3. ReplicaOK(r, t, database, Announcing)
  BY <1>1, <1>2, ReplicaTypes
<1>4. CASE w = "gateway"
  <2>1. ~r.passed /\ ~r.crossed
    BY <1>2, <1>4 DEF Trusting
  <2>2. t["gateway"].step = "reading" => t["gateway"].start = database
    BY <1>3, <2>1 DEF ReplicaOK, RefreshOK
  <2>3. t["gateway"].step \notin {"filled", "ending"}
    BY <1>3, <2>1 DEF ReplicaOK, RefreshOK, Rest, RestsOfReload
  <2> QED
    BY <1>1, <1>4, <2>2, <2>3
<1>5. CASE w # "gateway"
  <2>1. w \in Admins
    BY <1>5, SomeWorkers
  <2>2. Aware(r, t) /\ \A v \in Admins \ {w} : t[v].step = "idle"
    BY <1>1, <1>2, <1>5 DEF Trusting
  <2>3. MemoryIsCurrent(r.memory, t, database)
    BY <1>3, <2>2 DEF ReplicaOK, MemoryOK
  <2>4. t[w].step = "reading" => t[w].start = database
    <3>1. ReadIsCurrent(t[w], database)
      BY <2>1, <2>3 DEF MemoryIsCurrent
    <3> QED
      BY <3>1 DEF ReadIsCurrent, Rest
  <2> QED
    BY <1>1, <1>2, <1>5, <2>1, <2>2, <2>3, <2>4 DEF Memory
<1> QED
  BY <1>4, <1>5

(* Memory becomes what was read, and a repaired route is to be written.    *)
ProvidersLoaded(i, read) ==
    IF Present(read.providers) = {} THEN Memory(i).providers ELSE read.providers

LEMMA ApplyKeeps ==
    ASSUME SettingsInv, NEW i \in Replicas, NEW w \in Workers, NEW read \in RowsOfTables,
           tasks[i][w].step \in {"reading", "filled"}, ApplyReload(i, w, read),
           Trusting(i, w) => /\ ProvidersLoaded(i, read) = database.providers
                             /\ read.route = database.route /\ read.pricing = database.pricing
    PROVE  SettingsInv'
<1>1. PICK providers : providers = ProvidersLoaded(i, read)
  OBVIOUS
<1>2. PICK route : route = Repaired(read.route, providers)
  OBVIOUS
<1>3. PICK r \in ReplicaRecords : r = replicas[i]
  BY ReplicaTypes
<1>4. PICK applied : applied = [r EXCEPT !.memory.providers = providers, !.memory.route = route]
  OBVIOUS
<1>5. /\ IF route = read.route
         THEN /\ replicas' = [replicas EXCEPT ![i] = Reloaded(i, applied, w, read.pricing)]
              /\ tasks' = Goto(i, w, NoTask)
         ELSE /\ replicas' = [replicas EXCEPT ![i] = applied]
              /\ tasks' = Goto(i, w, Writing(<<RouteWrite(route)>>,
                                             [step |-> "ending", pricing |-> read.pricing]))
      /\ database' = database /\ archive' = archive /\ published' = published /\ changes' = changes
  BY <1>1, <1>2, <1>3, <1>4 DEF ApplyReload, ProvidersLoaded
<1>6. /\ providers \in [Codes -> ProviderRows] /\ read.route \in Routes /\ read.pricing \in Nat
  BY <1>1, MemoryType DEF ProvidersLoaded, RowsOfTables
<1>7. route \in Routes
  BY <1>2, <1>6, RepairedType
<1>8. PICK memory : memory = [r.memory EXCEPT !.providers = providers, !.route = route]
  OBVIOUS
<1>9. memory \in RowsOfTables /\ memory.providers = providers /\ memory.route = route
  BY <1>6, <1>7, <1>8 DEF ReplicaRecords, RowsOfTables
<1>10. applied = [r EXCEPT !.memory = memory]
  BY <1>4, <1>8
<1>11. applied \in ReplicaRecords /\ applied.memory = memory /\ SameFlags(replicas[i], applied)
  BY <1>3, <1>9, <1>10 DEF ReplicaRecords, SameFlags
<1>12. database \in RowsOfTables
  BY ReplicaTypes
<1>13. CASE route = read.route
  <2>1. ASSUME Trusting(i, w) PROVE [memory EXCEPT !.pricing = read.pricing] = database
    <3>1. /\ memory.providers = database.providers /\ memory.route = database.route
          /\ read.pricing = database.pricing
      BY <1>1, <1>9, <1>13, <2>1
    <3> QED
      BY <1>9, <1>12, <3>1 DEF RowsOfTables
  <2>2. Trusting(i, w) => [applied.memory EXCEPT !.pricing = read.pricing] = database
    BY <1>11, <2>1
  <2>3. /\ replicas' = [replicas EXCEPT ![i] = Reloaded(i, applied, w, read.pricing)]
        /\ tasks' = Goto(i, w, NoTask)
    BY <1>5, <1>13
  <2>4. tasks[i][w].step \in {"reading", "filled", "ending"}
    OBVIOUS
  <2> QED
    BY <1>5, <1>6, <1>11, <2>2, <2>3, <2>4, ReloadEnds
<1>14. CASE route # read.route
  <2>1. PICK next : next = Writing(<<RouteWrite(route)>>, [step |-> "ending", pricing |-> read.pricing])
    OBVIOUS
  <2>2. next \in Tasks /\ next.step = "writing" /\ next.rest.step \in RestsOfReload
    <3>1. RouteWrite(route) \in RouteWrites
      BY <1>7 DEF RouteWrite, RouteWrites
    <3>2. <<RouteWrite(route)>> \in Seq(RouteWrites) \ {<<>>}
      BY <3>1
    <3>3. PICK rest \in EndingRests : rest = [step |-> "ending", pricing |-> read.pricing]
      BY <1>6 DEF EndingRests
    <3>4. next = [step |-> "writing", writes |-> <<RouteWrite(route)>>, rest |-> rest]
      BY <2>1, <3>3 DEF Writing
    <3>5. next \in Writings(RouteWrites, EndingRests)
      BY <3>2, <3>4 DEF Writings
    <3>6. next.rest.step = "ending" /\ next.step = "writing"
      BY <3>3, <3>4
    <3> QED
      BY <3>5, <3>6 DEF Tasks, WritingTasks, RestsOfReload
  <2>3. ASSUME w \in Admins, Trusting(i, w) PROVE WritesCurrent(w, next, memory)
    <3>1. memory.providers = database.providers /\ read.pricing = database.pricing
      BY <1>1, <1>9, <2>3
    <3>2. ASSUME NEW t2 \in [Workers -> Tasks], t2[w] = next,
                 \A v \in Admins \ {w} : t2[v].step = "idle"
          PROVE  MemoryIsCurrent(memory, t2, database)
      <4>1. t2[w] = Writing(<<RouteWrite(memory.route)>>,
                            [step |-> "ending", pricing |-> database.pricing])
        BY <1>9, <2>1, <3>1, <3>2
      <4> QED
        BY <1>9, <1>12, <2>3, <3>1, <3>2, <4>1, RoutedIsCurrent
    <3> QED
      BY <3>2 DEF WritesCurrent
  <2>4. replicas' = [replicas EXCEPT ![i] = applied] /\ tasks' = Goto(i, w, next)
    BY <1>5, <1>14, <2>1
  <2>5. w \in Admins /\ Trusting(i, w) => WritesCurrent(w, next, applied.memory)
    BY <1>11, <2>3
  <2> QED
    BY <1>5, <1>11, <2>2, <2>4, <2>5, ReloadWrites
<1> QED
  BY <1>13, <1>14

(* An empty table is filled from memory, with every provider once.         *)
LEMMA InOrder ==
    ASSUME NEW S, IsFiniteSet(S), S # {}, NEW n, n = Cardinality(S), NEW s \in [1..n -> S],
           \A j, k \in DOMAIN s : j # k => s[j] # s[k]
    PROVE  s \in Seq(S) \ {<<>>} /\ Range(s) = S
<1>1. n \in Nat /\ n # 0
  BY FS_CardinalityType, FS_EmptySet
<1>2. s \in Seq(S) /\ DOMAIN s = 1..n /\ Len(s) = n
  BY <1>1
<1>3. ASSUME NEW x \in S PROVE \E k \in 1..n : s[k] = x
  <2>1. SUFFICES ASSUME \A k \in 1..n : s[k] # x PROVE FALSE
    OBVIOUS
  <2>2. PICK T : T = S \ {x}
    OBVIOUS
  <2>3. T \in SUBSET S /\ T # S
    BY <2>2
  <2>4. IsFiniteSet(T)
    BY <2>3, FS_Subset
  <2>5. Cardinality(T) <= n /\ Cardinality(T) # n /\ Cardinality(T) \in Nat
    BY <2>3, <2>4, FS_Subset, FS_CardinalityType
  <2>6. IsFiniteSet(1..n) /\ Cardinality(1..n) = n
    BY <1>1, FS_Interval
  <2>7. s \in [1..n -> T]
    BY <2>1, <2>2
  <2>8. Cardinality(T) < Cardinality(1..n)
    BY <1>1, <2>5, <2>6
  <2>9. PICK places : places = 1..n
    OBVIOUS
  <2>10. \E j, k \in places : j # k /\ s[j] = s[k]
    <3>1. /\ IsFiniteSet(places) /\ IsFiniteSet(T) /\ Cardinality(T) < Cardinality(places)
          /\ s \in [places -> T]
      BY <2>4, <2>6, <2>7, <2>8, <2>9
    <3> QED
      BY <3>1, FS_PigeonHole, Zenon
  <2> QED
    BY <1>2, <2>9, <2>10
<1>4. Range(s) = S
  <2>1. Range(s) \subseteq S
    BY <1>2 DEF Range
  <2>2. S \subseteq Range(s)
    BY <1>2, <1>3 DEF Range
  <2> QED
    BY <2>1, <2>2
<1> QED
  BY <1>1, <1>2, <1>4

LEMMA FillKeeps ==
    ASSUME SettingsInv, NEW i \in Replicas, NEW w \in Workers, NEW read \in RowsOfTables,
           tasks[i][w].step = "reading", FillProviders(i, w, read),
           Trusting(i, w) => read = database
    PROVE  SettingsInv'
<1>1. PICK memory \in RowsOfTables : memory = Memory(i)
  BY MemoryType
<1>2. PICK mine : mine = Present(memory.providers)
  OBVIOUS
<1>3. mine \subseteq Codes /\ mine # {} /\ Present(read.providers) = {}
  BY <1>1, <1>2 DEF Present, FillProviders, ToFill
<1>4. PICK n : n = Cardinality(mine)
  OBVIOUS
<1>5. PICK s \in [1..n -> mine] :
         /\ \A j, k \in DOMAIN s : j # k => s[j] # s[k]
         /\ tasks' = Goto(i, w, Writing([j \in DOMAIN s |-> ProviderWrite(s[j], memory.providers[s[j]])],
                                        [step |-> "filled", read |-> read]))
  BY <1>1, <1>2, <1>4 DEF FillProviders
<1>6. /\ replicas' = replicas /\ database' = database /\ archive' = archive
      /\ published' = published /\ changes' = changes
  BY DEF FillProviders
<1>7. s \in Seq(mine) \ {<<>>} /\ Range(s) = mine
  <2>1. IsFiniteSet(mine)
    BY <1>3, SettingsAssumption, FS_Subset
  <2> QED
    BY <1>3, <1>4, <1>5, <2>1, InOrder
<1>8. s \in Seq(Codes) /\ s # <<>>
  BY <1>3, <1>7
<1>9. PICK writes : writes = [j \in DOMAIN s |-> ProviderWrite(s[j], memory.providers[s[j]])]
  OBVIOUS
<1>10. writes \in Seq(ProviderWrites) \ {<<>>}
  <2>1. ASSUME NEW c \in Codes PROVE ProviderWrite(c, memory.providers[c]) \in ProviderWrites
    <3>1. memory.providers[c] \in ProviderRows
      BY DEF RowsOfTables
    <3> QED
      BY <3>1 DEF ProviderWrite, ProviderWrites
  <2>2. Len(s) \in Nat \ {0} /\ DOMAIN s = 1..Len(s) /\ \A j \in 1..Len(s) : s[j] \in Codes
    <3>1. PICK q \in Seq(Codes) \ {<<>>} : q = s
      BY <1>8
    <3>2. Len(q) \in Nat \ {0} /\ DOMAIN q = 1..Len(q) /\ \A j \in 1..Len(q) : q[j] \in Codes
      OBVIOUS
    <3> QED
      BY <3>1, <3>2
  <2>3. writes \in [1..Len(s) -> ProviderWrites]
    BY <1>9, <2>1, <2>2
  <2>4. writes \in Seq(ProviderWrites) /\ DOMAIN writes # {}
    BY <2>2, <2>3
  <2> QED
    BY <2>4
<1>11. PICK rest : rest = [step |-> "filled", read |-> read]
  OBVIOUS
<1>12. rest \in FilledRests /\ rest.step = "filled"
  BY <1>3, <1>11 DEF FilledRests, EmptyRows
<1>13. PICK next : next = Writing(writes, rest)
  OBVIOUS
<1>14. next \in Tasks /\ next.step = "writing" /\ next.rest.step \in RestsOfReload
  <2>1. next \in Writings(ProviderWrites, FilledRests)
    BY <1>10, <1>12, <1>13 DEF Writing, Writings
  <2>2. next.rest = rest /\ next.step = "writing"
    BY <1>13 DEF Writing
  <2> QED
    BY <1>12, <2>1, <2>2 DEF Tasks, WritingTasks, RestsOfReload
<1>15. ASSUME w \in Admins, Trusting(i, w) PROVE WritesCurrent(w, next, memory)
  <2>1. read = database /\ database \in EmptyRows
    BY <1>3, <1>15 DEF EmptyRows
  <2>2. ASSUME NEW t2 \in [Workers -> Tasks], t2[w] = next,
               \A v \in Admins \ {w} : t2[v].step = "idle"
        PROVE  MemoryIsCurrent(memory, t2, database)
    <3>1. t2[w] = Writing([j \in DOMAIN s |-> ProviderWrite(s[j], memory.providers[s[j]])],
                          [step |-> "filled", read |-> database])
      BY <1>9, <1>11, <1>13, <2>1, <2>2
    <3>2. Range(s) = Present(memory.providers)
      BY <1>2, <1>7
    <3> QED
      BY <1>8, <1>15, <2>1, <2>2, <3>1, <3>2, FilledIsCurrent
  <2> QED
    BY <2>2 DEF WritesCurrent
<1>16. PICK r \in ReplicaRecords : r = replicas[i] /\ r.memory = memory
  BY <1>1, ReplicaTypes DEF Memory
<1>17. replicas' = [replicas EXCEPT ![i] = r] /\ SameFlags(replicas[i], r)
  BY <1>6, <1>16 DEF SameFlags, SettingsInv, SettingsTypeOK
<1>18. tasks' = Goto(i, w, next)
  BY <1>5, <1>9, <1>11, <1>13
<1>19. /\ w \in Admins /\ Trusting(i, w) => WritesCurrent(w, next, r.memory)
       /\ tasks[i][w].step \in {"reading", "filled"}
  BY <1>15, <1>16
<1> QED
  BY <1>6, <1>14, <1>16, <1>17, <1>18, <1>19, ReloadWrites

LEMMA ReloadKeeps ==
    ASSUME SettingsInv, NEW i \in Replicas, NEW w \in Workers, ReloadStep(i, w)
    PROVE  SettingsInv'
<1>1. PICK task \in Tasks : task = tasks[i][w]
  BY ReplicaTypes
<1>2. PICK r \in ReplicaRecords : r = replicas[i]
  BY ReplicaTypes
<1>3. PICK t \in [Workers -> Tasks] : t = tasks[i]
  BY ReplicaTypes
<1>4. Memory(i) \in RowsOfTables /\ database \in RowsOfTables /\ r.memory = Memory(i)
  BY <1>2, MemoryType, ReplicaTypes DEF Memory
<1>5. CASE LoadRows(i, w)
  <2>1. task.step = "reading"
    BY <1>1, <1>5 DEF LoadRows
  <2>2. task.start \in RowsOfTables
    BY <2>1 DEF Tasks, Rests, PlainRests, FilledRests, EndingRests, WritingTasks, Writings
  <2>3. PICK read \in RowsRead(task.start) :
           FillProviders(i, w, read) \/ (~ToFill(i, read) /\ ApplyReload(i, w, read))
    BY <1>1, <1>5 DEF LoadRows
  <2>4. read \in RowsOfTables /\ (Trusting(i, w) => read = database)
    BY <1>1, <2>1, <2>2, ReadIsTrusted, RowsReadType DEF SettingsInv
  <2>5. CASE FillProviders(i, w, read)
    BY <1>1, <2>1, <2>4, <2>5, FillKeeps
  <2>6. CASE ~ToFill(i, read) /\ ApplyReload(i, w, read)
    <3>1. ProvidersLoaded(i, read) = read.providers
      <4>1. CASE Present(read.providers) = {}
        <5>1. Present(Memory(i).providers) = {}
          BY <2>6, <4>1 DEF ToFill
        <5>2. \A c \in Codes : Memory(i).providers[c] = Absent /\ read.providers[c] = Absent
          BY <4>1, <5>1 DEF Present
        <5>3. Memory(i).providers = read.providers
          BY <1>4, <2>4, <5>2 DEF RowsOfTables
        <5> QED
          BY <5>3 DEF ProvidersLoaded
      <4>2. CASE Present(read.providers) # {}
        BY <4>2 DEF ProvidersLoaded
      <4> QED
        BY <4>1, <4>2
    <3>2. Trusting(i, w) => /\ ProvidersLoaded(i, read) = database.providers
                            /\ read.route = database.route /\ read.pricing = database.pricing
      BY <2>4, <3>1
    <3>3. tasks[i][w].step \in {"reading", "filled"}
      BY <1>1, <2>1
    <3> QED
      BY <2>4, <2>6, <3>2, <3>3, ApplyKeeps
  <2> QED
    BY <2>3, <2>5, <2>6
<1>6. CASE GoOnFilled(i, w)
  <2>1. task.step = "filled" /\ ApplyReload(i, w, task.read)
    BY <1>1, <1>6 DEF GoOnFilled
  <2>2. task.read \in EmptyRows
    BY <2>1 DEF Tasks, Rests, PlainRests, FilledRests, EndingRests, WritingTasks, Writings
  <2>3. PICK read : read = task.read
    OBVIOUS
  <2>4. read \in RowsOfTables /\ ProvidersLoaded(i, read) = r.memory.providers
    BY <1>4, <2>2, <2>3 DEF EmptyRows, ProvidersLoaded
  <2>5. ASSUME Trusting(i, w)
        PROVE  /\ ProvidersLoaded(i, read) = database.providers
               /\ read.route = database.route /\ read.pricing = database.pricing
    <3>1. /\ w # "gateway" /\ w \in Admins /\ \A v \in Admins \ {w} : t[v].step = "idle"
          /\ MemoryIsCurrent(r.memory, t, database) /\ t[w].step \in {"filled", "ending"}
          /\ t[w].step = "filled" /\ t[w].read = read
      BY <1>1, <1>3, <1>4, <2>1, <2>3, <2>5, ReadIsTrusted
    <3>2. /\ r.memory.providers = database.providers
          /\ t[w].read.route = database.route /\ t[w].read.pricing = database.pricing
      BY <1>4, <3>1, RestIsLoaded
    <3> QED
      BY <2>4, <3>1, <3>2
  <2>6. tasks[i][w].step \in {"reading", "filled"} /\ ApplyReload(i, w, read)
    BY <1>1, <2>1, <2>3
  <2> QED
    BY <2>4, <2>5, <2>6, ApplyKeeps
<1>7. CASE EndReload(i, w)
  <2>1. /\ task.step = "ending"
        /\ replicas' = [replicas EXCEPT ![i] = Reloaded(i, r, w, task.pricing)]
        /\ tasks' = Goto(i, w, NoTask)
        /\ database' = database /\ archive' = archive /\ published' = published /\ changes' = changes
    BY <1>1, <1>2, <1>7 DEF EndReload
  <2>2. PICK pricing \in Nat : pricing = task.pricing
    BY <2>1 DEF Tasks, Rests, PlainRests, FilledRests, EndingRests, WritingTasks, Writings
  <2>3. ASSUME Trusting(i, w) PROVE [r.memory EXCEPT !.pricing = pricing] = database
    <3>1. /\ w # "gateway" /\ w \in Admins /\ \A v \in Admins \ {w} : t[v].step = "idle"
          /\ MemoryIsCurrent(r.memory, t, database) /\ t[w].step \in {"filled", "ending"}
          /\ t[w].step = "ending" /\ t[w].pricing = pricing
      BY <1>1, <1>3, <1>4, <2>1, <2>2, <2>3, ReadIsTrusted
    <3>2. /\ r.memory.providers = database.providers /\ r.memory.route = database.route
          /\ pricing = database.pricing
      BY <1>4, <3>1, RestIsLoaded
    <3> QED
      BY <1>4, <3>2 DEF RowsOfTables
  <2>4. SameFlags(replicas[i], r) /\ tasks[i][w].step \in {"reading", "filled", "ending"}
    BY <1>1, <1>2, <2>1 DEF SameFlags
  <2>5. replicas' = [replicas EXCEPT ![i] = Reloaded(i, r, w, pricing)]
    BY <2>1, <2>2
  <2> QED
    BY <2>1, <2>3, <2>4, <2>5, ReloadEnds
<1> QED
  BY <1>5, <1>6, <1>7 DEF ReloadStep

(* Every request of an administrator.                                      *)
LEMMA AdminKeeps ==
    ASSUME SettingsInv, NEW i \in Replicas, NEW w \in Admins, AdminStep(i, w)
    PROVE  SettingsInv'
<1>1. CASE UpdatePricing(i, w)
  BY <1>1, UpdatePricingKeeps
<1>2. CASE Restore(i, w)
  BY <1>2, RestoringKeeps
<1>3. ASSUME NEW c \in Codes, SaveProvider(i, w, c) \/ DeleteProvider(i, w, c)
      PROVE  SettingsInv'
  BY <1>3, SaveKeeps, DeleteKeeps
<1>4. ASSUME NEW c \in Codes, NEW status \in {"on", "off"}, UpdateProvider(i, w, c, status)
      PROVE  SettingsInv'
  BY <1>4, UpdateKeeps
<1>5. ASSUME NEW primary \in Codes, NEW fallback \in Codes, NEW enabled \in BOOLEAN,
             UpdateRoute(i, w, primary, fallback, enabled)
      PROVE  SettingsInv'
  BY <1>5, UpdateRouteKeeps
<1> QED
  BY <1>1, <1>2, <1>3, <1>4, <1>5 DEF AdminStep

LEMMA StepKeepsSettings ==
    SettingsInv /\ [NextSettings]_settingsVars => SettingsInv'
<1> SUFFICES ASSUME SettingsInv, [NextSettings]_settingsVars
             PROVE  SettingsInv'
  OBVIOUS
<1>1. ASSUME NEW i \in Replicas, NEW w \in Workers, GoOn(i, w)
      PROVE  SettingsInv'
  <2>1. published \in BOOLEAN /\ \A kind \in DOMAIN changes : changes[kind] \in Nat
    BY DEF SettingsInv, SettingsTypeOK
  <2>2. CASE WriteRow(i, w)
    BY <2>2, WriteRowKeeps
  <2>3. CASE Publish(i, w)
    BY <2>3, PublishingKeeps
  <2>4. CASE ReloadStep(i, w)
    BY <2>4, ReloadKeeps
  <2>5. CASE w \in Admins /\ RepairRoutes(i, w)
    BY <2>5, RepairKeeps
  <2>6. CASE CheckRevision(i)
    <3>1. Refresh(i, published) /\ changes' = changes
      BY <2>6 DEF CheckRevision
    <3>2. \A kind \in DOMAIN changes' : changes'[kind] \in Nat
      BY <2>1, <3>1
    <3> QED
      BY <2>1, <3>1, <3>2, RefreshKeeps
  <2> QED
    BY <1>1, <2>2, <2>3, <2>4, <2>5, <2>6 DEF GoOn, TaskStep
<1>2. ASSUME NEW i \in Replicas, MissRevision(i)
      PROVE  SettingsInv'
  <2>1. Refresh(i, FALSE) /\ CountChange("failure") /\ FALSE \in BOOLEAN
    BY <1>2 DEF MissRevision
  <2>2. \A kind \in DOMAIN changes' : changes'[kind] \in Nat
    BY <2>1, CountedChanges
  <2> QED
    BY <2>1, <2>2, RefreshKeeps
<1>3. ASSUME NEW i \in Replicas, NEW w \in Workers, FailStep(i, w)
      PROVE  SettingsInv'
  BY <1>3, FailWriteKeeps, FailReadingKeeps DEF FailStep
<1>4. ASSUME NEW i \in Replicas, Free(i) # {}, AdminStep(i, CHOOSE w \in Free(i) : TRUE)
      PROVE  SettingsInv'
  <2>1. PICK w : w = CHOOSE v \in Free(i) : TRUE
    OBVIOUS
  <2>2. w \in Admins
    BY <1>4, <2>1 DEF Free
  <2>3. AdminStep(i, w)
    BY <1>4, <2>1
  <2> QED
    BY <2>2, <2>3, AdminKeeps
<1>5. ASSUME UNCHANGED settingsVars
      PROVE  SettingsInv'
  <2>1. /\ database' = database /\ archive' = archive /\ published' = published
        /\ replicas' = replicas /\ tasks' = tasks /\ changes' = changes
    BY <1>5 DEF settingsVars
  <2>2. SettingsTypeOK'
    BY <2>1 DEF SettingsInv, SettingsTypeOK
  <2>3. Announcing' = Announcing
    BY <2>1 DEF Announcing
  <2>4. ASSUME NEW j \in Replicas PROVE ReplicaOK(replicas'[j], tasks'[j], database', Announcing')
    BY <2>1, <2>3, ReplicaTypes
  <2> QED
    BY <2>2, <2>4 DEF SettingsInv
<1> QED
  BY <1>1, <1>2, <1>3, <1>4, <1>5, ExpiryKeeps DEF NextSettings

(* For every number of replicas, administrators, providers and changes: a  *)
(* replica that takes its copy for the current one has the rows of the     *)
(* database when nothing is under way, but for the gaps that               *)
(* KnownIsCurrent names (persistProvider, publishConfigRevision,           *)
(* refreshIfStale).                                                        *)
THEOREM CopiesAreCurrent ==
    SpecSettings => []KnownIsCurrent
<1>1. InitSettings => SettingsInv
  <2> SUFFICES ASSUME InitSettings
               PROVE  SettingsInv
    OBVIOUS
  <2>1. PICK instance \in Instances :
           database = instance.rows /\ archive = instance.archived /\ changes = instance.changes
    BY DEF InitSettings
  <2>2. /\ database \in RowsOfTables /\ archive \in RowsOfTables
        /\ \A kind \in DOMAIN changes : changes[kind] \in Nat
    BY <2>1, SettingsAssumption
  <2>3. PICK r : r = NewReplica(database)
    OBVIOUS
  <2>4. /\ r \in ReplicaRecords /\ r.memory = database /\ ~r.known /\ ~r.seen
    BY <2>2, <2>3 DEF NewReplica, ReplicaRecords
  <2>5. NoTask \in Tasks /\ NoTask.step = "idle"
    BY PlainRestsThere, WriteKinds DEF NoTask
  <2>6. PICK t : t = [w \in Workers |-> NoTask]
    OBVIOUS
  <2>7. t \in [Workers -> Tasks] /\ \A w \in Workers : t[w] = NoTask
    BY <2>5, <2>6
  <2>8. replicas = [i \in Replicas |-> r] /\ tasks = [i \in Replicas |-> t] /\ published = FALSE
    BY <2>3, <2>6 DEF InitSettings
  <2>9. SettingsTypeOK
    BY <2>2, <2>4, <2>7, <2>8 DEF SettingsTypeOK
  <2>10. ReplicaOK(r, t, database, Announcing)
    <3>1. MemoryOK(r, t, database)
      <4>1. \A w \in Admins : t[w].step = "idle"
        BY <2>5, <2>7, SomeWorkers
      <4> QED
        BY <2>4, <2>7, <4>1, LoadedIsCurrent DEF MemoryOK
    <3>2. \A w \in Workers : ~Reloading(t[w])
      BY <2>5, <2>7 DEF Reloading, RestsOfReload
    <3>3. RestoresAlone(r, t)
      BY <3>2, SomeWorkers DEF RestoresAlone
    <3>4. RefreshOK(r, t["gateway"], database)
      BY <2>5, <2>7, SomeWorkers DEF RefreshOK, Rest, RestsOfReload
    <3>5. AnnouncedOK(r, t["gateway"], Announcing)
      BY <2>4 DEF AnnouncedOK
    <3> QED
      BY <3>1, <3>3, <3>4, <3>5 DEF ReplicaOK
  <2> QED
    BY <2>8, <2>9, <2>10 DEF SettingsInv
<1>2. SettingsInv => KnownIsCurrent
  <2> SUFFICES ASSUME SettingsInv, Quiet, NEW i \in Replicas,
                      replicas[i].known, ~replicas[i].blind
               PROVE  Memory(i) = database
    BY DEF KnownIsCurrent
  <2>1. \A j \in Replicas, w \in Workers : tasks[j][w].step = "idle"
    BY DEF Quiet, Idle
  <2>2. ~Announcing
    BY <2>1 DEF Announcing
  <2>3. PICK r \in ReplicaRecords : r = replicas[i]
    BY ReplicaTypes
  <2>4. PICK t \in [Workers -> Tasks] : t = tasks[i]
    BY ReplicaTypes
  <2>5. ReplicaOK(r, t, database, Announcing) /\ database \in RowsOfTables
    BY <2>3, <2>4, ReplicaTypes
  <2>6. ~r.behind
    BY <2>2, <2>3, <2>5 DEF ReplicaOK, AnnouncedOK
  <2>7. \A w \in Workers : t[w].step = "idle"
    BY <2>1, <2>4
  <2>8. Aware(r, t)
    BY <2>3, <2>6, <2>7, SomeWorkers DEF Aware
  <2>9. MemoryIsCurrent(r.memory, t, database)
    BY <2>5, <2>8 DEF ReplicaOK, MemoryOK
  <2>10. r.memory \in RowsOfTables /\ \A w \in Admins : t[w].step = "idle"
    BY <2>7, SomeWorkers DEF ReplicaRecords
  <2>11. r.memory = database
    BY <2>5, <2>9, <2>10, CurrentIsDatabase
  <2> QED
    BY <2>3, <2>11 DEF Memory
<1> QED
  BY <1>1, <1>2, StepKeepsSettings, PTL DEF SpecSettings

=============================================================================

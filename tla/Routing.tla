------------------------------ MODULE Routing -------------------------------
(***************************************************************************)
(* Requests of one API key on their way through GatewayService.chat and    *)
(* AiRouter.route to the AI providers: the lease that admits them, the     *)
(* order of providers, retries, the circuit of each provider and the lease *)
(* on its capacity.  Failures and circuits live in a router object in      *)
(* memory, which a change of the provider settings replaces while requests *)
(* still run on the old one; leases live in Redis, whose answers may be    *)
(* lost.  The window of assertAllowed refuses a request before it takes    *)
(* anything and is left out; billing, between admission and routing, is    *)
(* the business of AnalysisJobs and DirectCredit: here it may only fail.   *)
(***************************************************************************)
EXTENDS Leases, Sequences, FiniteSets

CONSTANTS
    Requests,           \* requests of one API key, each made again and again
    Providers,          \* enabled providers with a key that serve the module
    Rank,               \* Rank[p]: place of p for the plan and the module
    AccountLimit,       \* calls at a time for one API key
    ProviderLimit,      \* ProviderLimit[p]: calls at a time to provider p
    Retries,            \* attempts per provider
    FailureThreshold,   \* failures that open a circuit
    Cooldown,           \* ticks a circuit stays open
    Timeout             \* ticks a provider has to answer

ASSUME RoutingAssumption ==
    /\ IsFiniteSet(Requests) /\ IsFiniteSet(Providers)
    /\ "account" \notin Providers
    /\ Rank \in [Providers -> Nat]
    /\ ProviderLimit \in [Providers -> Nat \ {0}]
    /\ {AccountLimit, Retries, FailureThreshold, Cooldown} \subseteq Nat \ {0}
    /\ Timeout \in Nat
    /\ Timeout < LeaseTtl       \* 45 and 90 seconds unless configured otherwise

VARIABLES
    account,    \* the key's lease
    capacity,   \* capacity[p]: the lease on provider p
    router,     \* router[p]: what the current router knows of provider p
    requests,   \* requests[r]: where request r is
    overrun     \* history: the leases that expired under a holder still there

routingVars == <<account, capacity, router, requests, overrun>>

-----------------------------------------------------------------------------
Key == "account"        \* the key's lease among the leases of the providers
Phases == {"idle", "admitted", "trying", "calling", "answered", "leaving"}

NewRequest == [phase |-> "idle", retired |-> FALSE, order |-> <<>>, attempt |-> 0,
               age |-> 0, failed |-> FALSE]

Leaving == [NewRequest EXCEPT !.phase = "leaving"]

(* new AiRouter: every circuit closed. *)
FreshRouter == [p \in Providers |-> [failures |-> 0, cooling |-> 0]]

InitRouting ==
    /\ account = Gone
    /\ capacity = [p \in Providers |-> Gone]
    /\ router = FreshRouter
    /\ requests = [r \in Requests |-> NewRequest]
    /\ overrun = {}

Provider(r) == Head(requests[r].order)
Calling(p) == {r \in Requests : requests[r].phase = "calling" /\ Provider(r) = p}
Holding(p) ==
    {r \in Requests : requests[r].phase \in {"calling", "answered"} /\ Provider(r) = p}
OnRouter(r) == requests[r].phase \in {"trying", "calling", "answered"}
Admitted == {r \in Requests : requests[r].phase # "idle"}

-----------------------------------------------------------------------------
(* chat: assertAllowed and withAiConcurrency.  Redis may not answer, with  *)
(* or without having run the script; production then refuses the request.  *)

(* Mutant: one place too many. *)
HasPlaceTooMany == account.count <= AccountLimit

HasPlace == account.count < AccountLimit

Admit(r) ==
    /\ requests[r].phase = "idle"
    /\ HasPlace
    /\ account' = Acquired(account)
    /\ requests' = [requests EXCEPT ![r].phase = "admitted"]
    /\ UNCHANGED <<capacity, router, overrun>>

TurnAway(r) ==
    /\ requests[r].phase = "idle"
    /\ ~HasPlace
    /\ account' = Refused(account)
    /\ UNCHANGED <<capacity, router, requests, overrun>>

(* A script ran whose answer is lost: a place is taken that nobody knows   *)
(* of, and only the time to live returns it.                               *)
AdmissionLost(r) ==
    /\ requests[r].phase = "idle"
    /\ HasPlace
    /\ account' = Acquired(account)
    /\ UNCHANGED <<capacity, router, requests, overrun>>

-----------------------------------------------------------------------------
(* route: the candidates and their order, once for the whole request *)

Precedes(known, p, q) ==
    \/ Rank[p] < Rank[q]
    \/ Rank[p] = Rank[q] /\ known[p].failures <= known[q].failures

Candidates(known) == {p \in Providers : known[p].cooling = 0}

(* Which of two equal providers comes first is a matter of configuration. *)
Orders(known) ==
    {s \in [1..Cardinality(Candidates(known)) -> Candidates(known)] :
        \A i, j \in DOMAIN s : i < j => s[i] # s[j] /\ Precedes(known, s[i], s[j])}

Routed(s) == IF s = <<>> THEN Leaving
             ELSE [NewRequest EXCEPT !.phase = "trying", !.order = s]

Route(r) ==
    /\ requests[r].phase = "admitted"
    /\ \E s \in Orders(router) : requests' = [requests EXCEPT ![r] = Routed(s)]
    /\ UNCHANGED <<account, capacity, router, overrun>>

(* The settings have another revision: currentRouter builds a new router,  *)
(* and the requests on the old one have it to themselves.                  *)
Rebuild(r) ==
    /\ requests[r].phase = "admitted"
    /\ router' = FreshRouter
    /\ \E s \in Orders(FreshRouter) :
          requests' = [q \in Requests |-> IF q = r THEN Routed(s)
                                         ELSE [requests[q] EXCEPT !.retired = OnRouter(q)]]
    /\ UNCHANGED <<account, capacity, overrun>>

(* Billing refuses the request before it is routed. *)
RefuseBilling(r) ==
    /\ requests[r].phase = "admitted"
    /\ requests' = [requests EXCEPT ![r] = Leaving]
    /\ UNCHANGED <<account, capacity, router, overrun>>

-----------------------------------------------------------------------------
(* The next provider.  When none is left an error is thrown; which one is  *)
(* for the client to see.                                                  *)
MoveOn(q) ==
    IF Len(q.order) > 1
    THEN [q EXCEPT !.phase = "trying", !.order = Tail(@), !.attempt = 0, !.failed = FALSE]
    ELSE Leaving

(* catch: another attempt, unless the circuit opened, the error is one the *)
(* provider will repeat, or the attempts are used up.                      *)
AfterFailure(q, opened, retryable) ==
    IF opened \/ ~retryable \/ q.attempt + 1 >= Retries
    THEN MoveOn(q)
    ELSE [q EXCEPT !.phase = "trying", !.failed = FALSE, !.attempt = @ + 1]

(* The failures are not needed beyond the threshold. *)
OneMoreFailure(known) ==
    LET n == IF known.failures >= FailureThreshold THEN FailureThreshold ELSE known.failures + 1
    IN [failures |-> n, cooling |-> IF n >= FailureThreshold THEN Cooldown ELSE known.cooling]

(* What a retired router knows is not kept: whether this failure opens its *)
(* circuit is left open.                                                   *)
CountFailure(r, retryable) ==
    LET known == OneMoreFailure(router[Provider(r)])
        openings == IF requests[r].retired THEN BOOLEAN
                    ELSE {known.failures >= FailureThreshold}
    IN /\ router' = IF requests[r].retired THEN router
                    ELSE [router EXCEPT ![Provider(r)] = known]
       /\ \E opened \in openings :
             requests' = [requests EXCEPT ![r] = AfterFailure(@, opened, retryable)]

(* withProviderCapacity *)

AcquireCapacity(r) ==
    /\ requests[r].phase = "trying"
    /\ capacity[Provider(r)].count < ProviderLimit[Provider(r)]
    /\ capacity' = [capacity EXCEPT ![Provider(r)] = Acquired(@)]
    /\ requests' = [requests EXCEPT ![r].phase = "calling"]
    /\ UNCHANGED <<account, router, overrun>>

(* A full provider, or one past its requests per second (with whatever     *)
(* traffic other keys send), is left for the next one and not blamed.      *)
CapacityRefused(r) ==
    /\ requests[r].phase = "trying"
    /\ capacity' = IF capacity[Provider(r)].count >= ProviderLimit[Provider(r)]
                   THEN [capacity EXCEPT ![Provider(r)] = Refused(@)] ELSE capacity
    /\ requests' = [requests EXCEPT ![r] = MoveOn(@)]
    /\ UNCHANGED <<account, router, overrun>>

(* Redis does not answer.  The router takes the error for the provider's.  *)
CapacityUnknown(r) ==
    /\ requests[r].phase = "trying"
    /\ \/ UNCHANGED capacity
       \/ /\ capacity[Provider(r)].count < ProviderLimit[Provider(r)]
          /\ capacity' = [capacity EXCEPT ![Provider(r)] = Acquired(@)]
    /\ CountFailure(r, TRUE)
    /\ UNCHANGED <<account, overrun>>

-----------------------------------------------------------------------------
(* callProvider *)

(* A good answer forgives the provider, also when its circuit has opened   *)
(* since the call began.                                                   *)
Succeed(r) ==
    /\ requests[r].phase = "calling"
    /\ router' = IF requests[r].retired THEN router
                 ELSE [router EXCEPT ![Provider(r)] = [failures |-> 0, cooling |-> 0]]
    /\ requests' = [requests EXCEPT ![r].phase = "answered", ![r].age = 0]
    /\ UNCHANGED <<account, capacity, overrun>>

(* An error status, an answer that is empty or not JSON, or the time-out. *)
Fail(r) ==
    /\ requests[r].phase = "calling"
    /\ requests' = [requests EXCEPT ![r].phase = "answered", ![r].failed = TRUE, ![r].age = 0]
    /\ UNCHANGED <<account, capacity, router, overrun>>

-----------------------------------------------------------------------------
(* releaseLease never fails: a release Redis does not run is forgotten *)

ReleaseCapacity(r) ==
    LET p == Provider(r) IN
    /\ requests[r].phase = "answered"
    /\ \/ capacity' = [capacity EXCEPT ![p] = Released(@)]
       \/ UNCHANGED capacity
    /\ overrun' = IF Holding(p) = {r} THEN overrun \ {p} ELSE overrun
    /\ IF requests[r].failed
       THEN \E retryable \in BOOLEAN : CountFailure(r, retryable)
       ELSE /\ requests' = [requests EXCEPT ![r] = Leaving]
            /\ UNCHANGED router
    /\ UNCHANGED account

ReleaseAccount(r) ==
    /\ requests[r].phase = "leaving"
    /\ account' \in {Released(account), account}
    /\ overrun' = IF Admitted = {r} THEN overrun \ {Key} ELSE overrun
    /\ requests' = [requests EXCEPT ![r] = NewRequest]
    /\ UNCHANGED <<capacity, router>>

-----------------------------------------------------------------------------
(* The clock.  A call that has lasted Timeout is aborted before the next   *)
(* tick.  A lease that expires while it is held has been overrun.          *)
Tick ==
    /\ \A r \in Requests : requests[r].phase = "calling" => requests[r].age < Timeout
    /\ account' = Aged(account)
    /\ capacity' = [p \in Providers |-> Aged(capacity[p])]
    /\ router' = [p \in Providers |-> [router[p] EXCEPT !.cooling = IF @ = 0 THEN 0 ELSE @ - 1]]
    /\ requests' = [r \in Requests |->
          IF requests[r].phase = "calling" THEN [requests[r] EXCEPT !.age = @ + 1]
          ELSE requests[r]]
    /\ overrun' = overrun \union {k \in {Key} : account.ttl = 1 /\ Admitted # {}}
                          \union {p \in Providers : capacity[p].ttl = 1 /\ Holding(p) # {}}

(* The process dies with its requests and its router; Redis remembers. *)
Restart ==
    /\ requests' = [r \in Requests |-> NewRequest]
    /\ router' = FreshRouter
    /\ overrun' = {}
    /\ UNCHANGED <<account, capacity>>

Proceed(r) ==
    \/ Route(r) \/ Rebuild(r) \/ RefuseBilling(r)
    \/ AcquireCapacity(r) \/ CapacityRefused(r) \/ CapacityUnknown(r)
    \/ Succeed(r) \/ Fail(r) \/ ReleaseCapacity(r) \/ ReleaseAccount(r)

NextRouting ==
    \/ Tick
    \/ Restart
    \/ \E r \in Requests : Admit(r) \/ TurnAway(r) \/ AdmissionLost(r) \/ Proceed(r)

(* The event loop runs every request on, and the clock goes on. *)
FairnessRouting == WF_routingVars(Tick) /\ \A r \in Requests : WF_routingVars(Proceed(r))

SpecRouting == InitRouting /\ [][NextRouting]_routingVars
FairSpecRouting == SpecRouting /\ FairnessRouting

(***************************************************************************)
(* Properties                                                              *)
(***************************************************************************)

(* A call never outlasts its lease on the provider: what is left of the    *)
(* lease is more than what is left of the call, however many callers come  *)
(* and go.  Until a release comes so late that its lease has expired: it   *)
(* then takes the place of another (acquireLease, releaseLease).           *)
LeaseOutlivesCall ==
    \A p \in Providers : \A r \in Calling(p) :
        p \notin overrun => capacity[p].ttl > Timeout - requests[r].age

(* No more requests of a key, and no more calls to a provider, are in      *)
(* flight than the limit: lost answers and crashes never let more in.      *)
(* Until a lease expires under a holder: a request that is retried by      *)
(* several providers lasts longer than its lease, another is admitted, and *)
(* its place is given back by the first.                                   *)
HoldersWithinLimit ==
    /\ Key \notin overrun => Cardinality(Admitted) <= AccountLimit
    /\ \A p \in Providers \ overrun : Cardinality(Holding(p)) <= ProviderLimit[p]

(* A key whose places have all been lost with answers or a crash is        *)
(* admitted again, although its requests keep being turned away meanwhile. *)
LeakedPlacesReturn ==
    (account.count >= AccountLimit /\ Admitted = {}) ~> account.count < AccountLimit
=============================================================================

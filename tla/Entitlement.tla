---------------------------- MODULE Entitlement -----------------------------
(***************************************************************************)
(* What pays for a member's analysis jobs: the plans PaymentService sells, *)
(* the subscription they add up to, and ProEntitlementService, which is    *)
(* asked within the transaction that creates a job (startPersistent) and   *)
(* counts the jobs of the day and of the week in Jakarta.  Every           *)
(* transaction is serializable, hence a step.  Whether the wallet has the  *)
(* estimate to spare is the business of AnalysisJobs and free here.        *)
(***************************************************************************)
EXTENDS Integers, FiniteSets

CONSTANTS
    Requests,       \* request ids of jobs
    Videos,         \* source keys
    Orders,         \* ids of plan payments, and of the subscriptions they found
    PlanDays,       \* PlanDays[plan]: days a payment is for
    Instants,       \* bound: the hours, since 1970 and in UTC, things happen at
    DailyLimit,     \* jobs a day a PRO subscription includes
    WeeklyLimit,    \* videos a week that are free without one
    TakeLimit,      \* rows read of the week's free jobs
    Fallback        \* whether the wallet pays when the subscription does not

ASSUME EntitlementAssumption ==
    /\ IsFiniteSet(Requests)
    /\ {"STARTER", "PRO"} = DOMAIN PlanDays
    /\ \A plan \in DOMAIN PlanDays : PlanDays[plan] \in Nat \ {0}
    /\ Instants \subseteq Nat
    /\ {DailyLimit, TakeLimit} \subseteq Nat \ {0}
    /\ WeeklyLimit \in Nat
    /\ Fallback \in BOOLEAN
    /\ {} \notin Videos

VARIABLES
    now,            \* the hour
    unlimited,      \* the member's unlimitedCredits
    orders,         \* orders[o]: the payment of a plan
    subscriptions,  \* subscriptions[o]: the Subscription row founded by o
    starts,         \* starts[r]: what the AnalysisJob row says of its billing
    promised        \* history: the end of the PRO time paid for, and whether
                    \* another plan or a refund has come in between since

entitlementVars == <<now, unlimited, orders, subscriptions, starts, promised>>

NoOrder == [status |-> "none", plan |-> "none", subscription |-> {}, at |-> 0]
NoSubscription == [status |-> "none", plan |-> "none", end |-> 0]
NoStart == [source |-> "none", at |-> 0, video |-> {}, asked |-> FALSE]

(* The member may have had jobs at no charge and refunded plans before. *)
InitEntitlement(earlier, former) ==
    /\ now \in Instants
    /\ \A hour \in Instants : now <= hour
    /\ unlimited = FALSE
    /\ orders = [o \in Orders |-> IF o \in former
                                 THEN [NoOrder EXCEPT !.status = "REFUNDED", !.subscription = o]
                                 ELSE NoOrder]
    /\ subscriptions = [o \in Orders |-> IF o \in former
                                        THEN [NoSubscription EXCEPT !.status = "CANCELED"]
                                        ELSE NoSubscription]
    /\ starts = [r \in Requests |-> IF r \in earlier
                                   THEN [NoStart EXCEPT !.source = "NO_CHARGE_LOCAL", !.at = now]
                                   ELSE NoStart]
    /\ promised = [end |-> 0, disturbed |-> FALSE]

-----------------------------------------------------------------------------
(* The calendar.  Days are counted from Thursday, 1 January 1970. *)

JakartaOffset == 7      \* hours

Day(hour) == (hour + JakartaOffset) \div 24

Monday(day) == day - ((day + 3) % 7)

LeapDays(year) == LET y == year - 1 IN y \div 4 - y \div 100 + y \div 400

YearStart(year) == 365 * (year - 1970) + LeapDays(year) - LeapDays(1970)

Year(day) ==
    CHOOSE y \in 1970 + day \div 366 .. 1970 + day \div 365 :
        YearStart(y) <= day /\ day < YearStart(y + 1)

(* weekNumberJakarta: a week is numbered in the year of its Thursday. *)
WeekNumber(monday) ==
    LET thursday == monday + 3
    IN (thursday - YearStart(Year(thursday))) \div 7 + 1

(* The key has the number of the week and the year of its Monday, which    *)
(* is not always the year the week is numbered in.                         *)
WeekKey(hour) ==
    LET monday == Monday(Day(hour))
    IN [year |-> Year(monday), week |-> WeekNumber(monday)]

(* jakartaDayWindow and jakartaWeekWindow, for the hours there are. *)
Calendar == [hour \in Instants |->
    [day |-> Day(hour), monday |-> Monday(Day(hour)), key |-> WeekKey(hour)]]

-----------------------------------------------------------------------------
(* Plans *)

Current == {s \in Orders : subscriptions[s].status = "ACTIVE"}

(* createInvoice for a plan; PRO is sold after a first top-up only, which  *)
(* refuses an order and no more.                                           *)
OrderPlan(o, plan) ==
    /\ orders[o].status = "none"
    /\ orders' = [orders EXCEPT ![o] = [NoOrder EXCEPT !.status = "PENDING", !.plan = plan]]
    /\ UNCHANGED <<now, unlimited, subscriptions, starts, promised>>

(* Mutant: a renewal begins at once. *)
PeriodBaseNow(s) == now

PeriodBase(s) == IF subscriptions[s].end > now THEN subscriptions[s].end ELSE now

Later(a, b) == IF a > b THEN a ELSE b

(* applyWebhook for a paid plan: the member's subscription, if there is    *)
(* one, becomes one of this plan and is extended.  (That a payment may be  *)
(* told of again after a refund is in Payments.)                           *)
GrantPlan(o) ==
    LET plan == orders[o].plan
        hours == 24 * PlanDays[plan]
        founded == [status |-> "ACTIVE", plan |-> plan, end |-> now + hours]
        extended(s) == [status |-> "ACTIVE", plan |-> plan, end |-> PeriodBase(s) + hours]
        s == IF Current = {} THEN o ELSE CHOOSE c \in Current : TRUE
    IN /\ orders[o].status = "PENDING"
       /\ subscriptions' = [subscriptions EXCEPT ![s] = IF Current = {} THEN founded ELSE extended(s)]
       /\ orders' = [orders EXCEPT ![o].status = "PAID", ![o].subscription = s, ![o].at = now]
       /\ promised' = IF plan = "PRO"
                      THEN [promised EXCEPT !.end = Later(promised.end, now) + hours]
                      ELSE [promised EXCEPT !.disturbed = TRUE]
       /\ UNCHANGED <<now, unlimited, starts>>

(* refund, once its checks of the wallet have passed: the subscription is  *)
(* cancelled, whatever else has been paid for it.                          *)
RefundPlan(o) ==
    /\ orders[o].status = "PAID"
    /\ orders' = [orders EXCEPT ![o].status = "REFUNDED"]
    /\ subscriptions' = [subscriptions EXCEPT ![orders[o].subscription].status = "CANCELED",
                                              ![orders[o].subscription].end = now]
    /\ promised' = [promised EXCEPT !.disturbed = TRUE]
    /\ UNCHANGED <<now, unlimited, starts>>

(* updateMember *)
SetUnlimited ==
    /\ unlimited' = ~unlimited
    /\ UNCHANGED <<now, orders, subscriptions, starts, promised>>

Pass ==
    /\ now' \in {hour \in Instants : hour > now}
    /\ UNCHANGED <<unlimited, orders, subscriptions, starts, promised>>

-----------------------------------------------------------------------------
(* resolveAnalysisJobBilling *)

ActivePro == \E s \in Current : subscriptions[s].plan = "PRO" /\ subscriptions[s].end > now

Started(source) == {r \in Requests : starts[r].source = source}

(* A job that failed still counts. *)
IncludedOn(day) == {r \in Started("SUBSCRIPTION_INCLUDED") : Calendar[starts[r].at].day = day}

FreeUnder(key) == {r \in Started("FREE_PREMIUM_TRIAL") : Calendar[starts[r].at].key = key}

VideosOf(rows) == {starts[r].video : r \in rows}

(* Mutant: one more than the limit. *)
DailyLeftTooMany == Cardinality(IncludedOn(Calendar[now].day)) <= DailyLimit

DailyLeft == Cardinality(IncludedOn(Calendar[now].day)) < DailyLimit

(* The week's rows are read in no order, and no more than TakeLimit. *)
Taken(key) ==
    LET rows == FreeUnder(key) IN
    IF Cardinality(rows) <= TakeLimit THEN {rows}
    ELSE {taken \in SUBSET rows : Cardinality(taken) = TakeLimit}

(* Mutant: one video more than the limit. *)
TrialLeftTooMany(video, taken) ==
    video \in VideosOf(taken) \/ Cardinality(VideosOf(taken)) <= WeeklyLimit

(* Mutant: every free job counts, a second one of the same video as well. *)
TrialLeftByJobs(video, taken) ==
    video \in VideosOf(taken) \/ Cardinality(taken) < WeeklyLimit

TrialLeft(video, taken) ==
    video \in VideosOf(taken) \/ Cardinality(VideosOf(taken)) < WeeklyLimit

(* The sources a job may be billed to; none when it is refused. *)
Decided(video, taken, spendable) ==
    CASE unlimited -> {"NO_CHARGE_LOCAL"}
      [] ~unlimited /\ ActivePro /\ DailyLeft -> {"SUBSCRIPTION_INCLUDED"}
      [] ~unlimited /\ ActivePro /\ ~DailyLeft ->
            IF Fallback /\ spendable THEN {"WALLET_FALLBACK"} ELSE {}
      [] ~unlimited /\ ~ActivePro /\ video # {} /\ TrialLeft(video, taken) ->
            {"FREE_PREMIUM_TRIAL"}
      [] OTHER -> IF spendable THEN {"WALLET_STANDARD"} ELSE {}

(* startPersistent; a request id that has a job is answered with that job. *)
(* The video is {} when there is no source key, or when the mode is not    *)
(* one that may be free.  History: asked, whether it might have been free. *)
StartJob(r, video, spendable) ==
    /\ starts[r].source = "none"
    /\ \E taken \in Taken(Calendar[now].key) :
          \E source \in Decided(video, taken, spendable) :
              starts' = [starts EXCEPT ![r] =
                  [source |-> source, at |-> now,
                   video |-> IF source = "FREE_PREMIUM_TRIAL" THEN video ELSE {},
                   asked |-> source = "WALLET_STANDARD" /\ video # {}]]
    /\ UNCHANGED <<now, unlimited, orders, subscriptions, promised>>

NextEntitlement ==
    \/ Pass \/ SetUnlimited
    \/ \E o \in Orders : GrantPlan(o) \/ RefundPlan(o)
                         \/ \E plan \in DOMAIN PlanDays : OrderPlan(o, plan)
    \/ \E r \in Requests, video \in Videos \union {{}}, spendable \in BOOLEAN :
          StartJob(r, video, spendable)

SpecEntitlement == InitEntitlement({}, {}) /\ [][NextEntitlement]_entitlementVars

(***************************************************************************)
(* Properties                                                              *)
(***************************************************************************)

FreeIn(monday) == {r \in Started("FREE_PREMIUM_TRIAL") : Calendar[starts[r].at].monday = monday}

(* Nobody gets more than is due: no more included jobs on a day in Jakarta *)
(* than the limit, and none before a plan has been paid for; no more free  *)
(* videos in a week, from Monday to Sunday, than the limit.  That last     *)
(* holds while the free jobs under the key of the week, of which one video *)
(* may have any number, are all read (weeklyTrialSources).                 *)
FreeJobsWithinQuota ==
    \A r \in Requests :
        /\ starts[r].source = "SUBSCRIPTION_INCLUDED" =>
              /\ Cardinality(IncludedOn(Calendar[starts[r].at].day)) <= DailyLimit
              /\ \E o \in Orders : orders[o].status \in {"PAID", "REFUNDED"}
                                   /\ orders[o].at <= starts[r].at
        /\ starts[r].source = "FREE_PREMIUM_TRIAL" =>
              LET hour == Calendar[starts[r].at]
              IN  \/ Cardinality(VideosOf(FreeIn(hour.monday))) <= WeeklyLimit
                  \/ Cardinality(FreeUnder(hour.key)) > TakeLimit

(* Weeks that have the key of another: the first of a year that begins on  *)
(* a Monday and the last of that year (jakartaWeekWindow).                 *)
SharesKey == [hour \in Instants |->
    \E other \in Instants : /\ Calendar[other].monday # Calendar[hour].monday
                            /\ Calendar[other].key = Calendar[hour].key]

(* Nobody gets less than is due.  Who has paid for PRO has it for all the  *)
(* days of all payments, one after the other, unless another plan was      *)
(* bought or one of the payments refunded: either ends it.  And who is     *)
(* billed for a video that could be free has had that week's, unless the   *)
(* week shares its key.                                                    *)
DuesAreServed ==
    /\ ~promised.disturbed /\ now < promised.end => ActivePro
    /\ \A r \in Requests : starts[r].asked =>
              \/ Cardinality(VideosOf(FreeIn(Calendar[starts[r].at].monday))) >= WeeklyLimit
              \/ SharesKey[starts[r].at]
=============================================================================

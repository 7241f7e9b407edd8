--------------------------- MODULE PricingProofs ---------------------------
(***************************************************************************)
(* What is sold at what price, and what pays for it, beyond the grids and  *)
(* the calendar of the run: the quotas and the dues of Entitlement for any *)
(* number of requests, videos and plan payments, and any hours they happen *)
(* at; the margins and the reservations of the pricing functions for any   *)
(* policy and any amounts.                                                 *)
(***************************************************************************)
EXTENDS MCPricing, AmountProofs, WellFoundedInduction

-----------------------------------------------------------------------------
(* Types of Entitlement *)

Sources == {"none", "NO_CHARGE_LOCAL", "SUBSCRIPTION_INCLUDED", "WALLET_FALLBACK",
            "FREE_PREMIUM_TRIAL", "WALLET_STANDARD"}

Plans == DOMAIN PlanDays \union {"none"}

OrderRows == [status : {"none", "PENDING", "PAID", "REFUNDED"}, plan : Plans,
              subscription : Orders \union {{}}, at : Nat]
SubscriptionRows == [status : {"none", "ACTIVE", "CANCELED"}, plan : Plans, end : Nat]
StartRows == [source : Sources, at : Nat, video : Videos \union {{}}, asked : BOOLEAN]

EntitlementTypes ==
    /\ now \in Instants
    /\ orders \in [Orders -> OrderRows]
    /\ subscriptions \in [Orders -> SubscriptionRows]
    /\ starts \in [Requests -> StartRows]
    /\ promised \in [end : Nat, disturbed : BOOLEAN]
    /\ \A o \in Orders : /\ orders[o].status = "PENDING" => orders[o].plan \in DOMAIN PlanDays
                         /\ orders[o].status = "PAID" => orders[o].subscription \in Orders
    /\ \A r \in Requests : starts[r].source # "none" =>
                              starts[r].at \in Instants /\ starts[r].at <= now

(* What one operation does to the rows of jobs, orders and subscriptions.  *)
Starting(r, row) ==
    /\ starts[r].source = "none"
    /\ starts' = [starts EXCEPT ![r] = row]
    /\ UNCHANGED <<now, unlimited, orders, subscriptions, promised>>

LEMMA DecidedKinds ==
    ASSUME NEW video, NEW taken, NEW spendable \in BOOLEAN,
           NEW source \in Decided(video, taken, spendable)
    PROVE  /\ source \in Sources
           /\ source # "none"
           /\ source = "SUBSCRIPTION_INCLUDED" => ActivePro /\ DailyLeft
           /\ source = "FREE_PREMIUM_TRIAL" => video # {} /\ TrialLeft(video, taken)
           /\ source = "WALLET_STANDARD" /\ video # {} => ~TrialLeft(video, taken)
<1> DEFINE pro == ActivePro
           left == DailyLeft
           trial == TrialLeft(video, taken)
<1>1. source \in CASE unlimited -> {"NO_CHARGE_LOCAL"}
                   [] ~unlimited /\ pro /\ left -> {"SUBSCRIPTION_INCLUDED"}
                   [] ~unlimited /\ pro /\ ~left ->
                         IF Fallback /\ spendable THEN {"WALLET_FALLBACK"} ELSE {}
                   [] ~unlimited /\ ~pro /\ video # {} /\ trial -> {"FREE_PREMIUM_TRIAL"}
                   [] OTHER -> IF spendable THEN {"WALLET_STANDARD"} ELSE {}
  BY Zenon DEF Decided
<1> HIDE DEF pro, left, trial
<1>2. CASE unlimited
  BY <1>1, <1>2 DEF Sources
<1>3. CASE ~unlimited /\ pro /\ left
  BY <1>1, <1>3 DEF Sources, pro, left
<1>4. CASE ~unlimited /\ pro /\ ~left
  BY <1>1, <1>4 DEF Sources
<1>5. CASE ~unlimited /\ ~pro /\ video # {} /\ trial
  BY <1>1, <1>5 DEF Sources, trial
<1>6. CASE ~unlimited /\ ~pro /\ ~(video # {} /\ trial)
  BY <1>1, <1>6 DEF Sources, trial
<1> QED
  BY <1>2, <1>3, <1>4, <1>5, <1>6

(* A job that is started is billed now, to the source that was decided on. *)
LEMMA StartEffect ==
    ASSUME EntitlementTypes, NEW r \in Requests, NEW video \in Videos \union {{}},
           NEW spendable \in BOOLEAN, StartJob(r, video, spendable)
    PROVE  \E taken \in Taken(Calendar[now].key), row \in StartRows :
              /\ Starting(r, row)
              /\ row.at = now
              /\ row.source # "none"
              /\ row.source = "SUBSCRIPTION_INCLUDED" => ActivePro /\ DailyLeft
              /\ row.source = "FREE_PREMIUM_TRIAL" => row.video = video /\ TrialLeft(video, taken)
              /\ row.asked => ~TrialLeft(video, taken)
<1>1. PICK taken \in Taken(Calendar[now].key) :
         \E source \in Decided(video, taken, spendable) :
            starts' = [starts EXCEPT ![r] =
                       [source |-> source, at |-> now,
                        video |-> IF source = "FREE_PREMIUM_TRIAL" THEN video ELSE {},
                        asked |-> source = "WALLET_STANDARD" /\ video # {}]]
  BY Zenon DEF StartJob
<1>2. PICK source \in Decided(video, taken, spendable) :
         starts' = [starts EXCEPT ![r] =
                       [source |-> source, at |-> now,
                        video |-> IF source = "FREE_PREMIUM_TRIAL" THEN video ELSE {},
                        asked |-> source = "WALLET_STANDARD" /\ video # {}]]
  BY <1>1, Zenon
<1>3. PICK row : row = [source |-> source, at |-> now,
                        video |-> IF source = "FREE_PREMIUM_TRIAL" THEN video ELSE {},
                        asked |-> source = "WALLET_STANDARD" /\ video # {}]
  OBVIOUS
<1>4. /\ source \in Sources
      /\ source # "none"
      /\ source = "SUBSCRIPTION_INCLUDED" => ActivePro /\ DailyLeft
      /\ source = "FREE_PREMIUM_TRIAL" => video # {} /\ TrialLeft(video, taken)
      /\ source = "WALLET_STANDARD" /\ video # {} => ~TrialLeft(video, taken)
  BY DecidedKinds, Zenon
<1>5. now \in Nat
  BY EntitlementAssumption DEF EntitlementTypes
<1>6. /\ row.source = source /\ row.at = now
      /\ row.video = IF source = "FREE_PREMIUM_TRIAL" THEN video ELSE {}
      /\ row.asked <=> source = "WALLET_STANDARD" /\ video # {}
  BY <1>3
<1>7. row \in StartRows
  <2>1. (IF source = "FREE_PREMIUM_TRIAL" THEN video ELSE {}) \in Videos \union {{}}
    OBVIOUS
  <2> QED
    BY <1>3, <1>4, <1>5, <2>1, Zenon DEF StartRows
<1>8. Starting(r, row)
  BY <1>2, <1>3, Zenon DEF Starting, StartJob
<1> QED
  BY <1>4, <1>6, <1>7, <1>8, Zenon

(* A plan that is granted founds a subscription, or makes the current one  *)
(* one of the plan, from its end on or from now.                           *)
Granting(o, s, hours) ==
    /\ orders[o].status = "PENDING"
    /\ IF Current = {} THEN s = o ELSE s \in Current
    /\ orders' = [orders EXCEPT ![o].status = "PAID", ![o].subscription = s, ![o].at = now]
    /\ subscriptions'[s].status = "ACTIVE"
    /\ subscriptions'[s].plan = orders[o].plan
    /\ subscriptions'[s].end = (IF Current = {} THEN now ELSE PeriodBase(s)) + hours
    /\ \A t \in Orders \ {s} : subscriptions'[t] = subscriptions[t]
    /\ IF orders[o].plan = "PRO"
       THEN promised'.end = Later(promised.end, now) + hours /\ promised'.disturbed = promised.disturbed
       ELSE promised'.disturbed = TRUE
    /\ UNCHANGED <<now, unlimited, starts>>

LEMMA GrantEffect ==
    ASSUME EntitlementTypes, NEW o \in Orders, GrantPlan(o)
    PROVE  /\ \E s \in Orders, hours \in Nat : Granting(o, s, hours)
           /\ subscriptions' \in [Orders -> SubscriptionRows]
           /\ promised' \in [end : Nat, disturbed : BOOLEAN]
<1>1. PICK plan \in DOMAIN PlanDays : plan = orders[o].plan
  BY DEF GrantPlan, EntitlementTypes
<1>2. PICK hours \in Nat : hours = 24 * PlanDays[plan]
  <2>1. PICK days \in Nat \ {0} : days = PlanDays[plan]
    BY EntitlementAssumption
  <2>2. 24 * days \in Nat
    OBVIOUS
  <2> QED
    BY <2>1, <2>2
<1>3. PICK s : s = IF Current = {} THEN o ELSE CHOOSE c \in Current : TRUE
  OBVIOUS
<1>4. IF Current = {} THEN s = o ELSE s \in Current
  BY <1>3
<1>5. s \in Orders
  BY <1>4 DEF Current
<1>6. PICK base : base = IF Current = {} THEN now ELSE PeriodBase(s)
  OBVIOUS
<1>7. now \in Nat
  BY EntitlementAssumption DEF EntitlementTypes
<1>8. base \in Nat
  BY <1>5, <1>6, <1>7 DEF PeriodBase, EntitlementTypes, SubscriptionRows
<1>9. subscriptions' = [subscriptions EXCEPT ![s] = [status |-> "ACTIVE", plan |-> plan,
                                                     end |-> base + hours]]
  <2>1. subscriptions' = [subscriptions EXCEPT ![s] =
           IF Current = {} THEN [status |-> "ACTIVE", plan |-> plan, end |-> now + hours]
           ELSE [status |-> "ACTIVE", plan |-> plan, end |-> PeriodBase(s) + hours]]
    BY <1>1, <1>2, <1>3 DEF GrantPlan
  <2> QED
    BY <1>6, <2>1
<1>10. PICK end \in Nat : end = base + hours
  BY <1>8
<1>11. subscriptions' \in [Orders -> SubscriptionRows]
  <2>1. [status |-> "ACTIVE", plan |-> plan, end |-> end] \in SubscriptionRows
    BY DEF SubscriptionRows, Plans
  <2> QED
    BY <1>9, <1>10, <2>1, Zenon DEF EntitlementTypes
<1>12. /\ subscriptions'[s].status = "ACTIVE" /\ subscriptions'[s].plan = plan
       /\ subscriptions'[s].end = base + hours
       /\ \A t \in Orders \ {s} : subscriptions'[t] = subscriptions[t]
  BY <1>5, <1>9 DEF EntitlementTypes
<1>13. promised' = IF plan = "PRO"
                   THEN [promised EXCEPT !.end = Later(promised.end, now) + hours]
                   ELSE [promised EXCEPT !.disturbed = TRUE]
  BY <1>1, <1>2 DEF GrantPlan
<1>14. /\ promised' \in [end : Nat, disturbed : BOOLEAN]
       /\ IF plan = "PRO"
          THEN promised'.end = Later(promised.end, now) + hours
               /\ promised'.disturbed = promised.disturbed
          ELSE promised'.disturbed = TRUE
  <2>1. PICK later \in Nat : later = Later(promised.end, now) + hours
    BY <1>7 DEF Later, EntitlementTypes
  <2> QED
    BY <1>13, <2>1 DEF EntitlementTypes
<1>15. orders' = [orders EXCEPT ![o].status = "PAID", ![o].subscription = s, ![o].at = now]
  BY <1>3, Zenon DEF GrantPlan
<1>16. Granting(o, s, hours)
  BY <1>1, <1>4, <1>6, <1>12, <1>14, <1>15, Zenon DEF Granting, GrantPlan
<1> QED
  BY <1>5, <1>11, <1>14, <1>16

(* A refund cancels the subscription the payment was for.                  *)
LEMMA RefundEffect ==
    ASSUME EntitlementTypes, NEW o \in Orders, RefundPlan(o)
    PROVE  /\ subscriptions' \in [Orders -> SubscriptionRows]
           /\ orders' = [orders EXCEPT ![o].status = "REFUNDED"]
           /\ orders[o].status = "PAID"
           /\ promised' \in [end : Nat, disturbed : BOOLEAN]
           /\ promised'.disturbed = TRUE
           /\ \A s \in Orders : subscriptions'[s] = subscriptions[s]
                                \/ subscriptions'[s].status = "CANCELED"
           /\ UNCHANGED <<now, unlimited, starts>>
<1>1. PICK s \in Orders : s = orders[o].subscription
  BY DEF RefundPlan, EntitlementTypes
<1>2. subscriptions' = [subscriptions EXCEPT ![s].status = "CANCELED", ![s].end = now]
  BY <1>1 DEF RefundPlan
<1>3. now \in Nat
  BY EntitlementAssumption DEF EntitlementTypes
<1>4. /\ subscriptions' \in [Orders -> SubscriptionRows]
      /\ \A t \in Orders : subscriptions'[t] = subscriptions[t]
                           \/ subscriptions'[t].status = "CANCELED"
  BY <1>2, <1>3 DEF EntitlementTypes, SubscriptionRows
<1>5. promised' \in [end : Nat, disturbed : BOOLEAN] /\ promised'.disturbed = TRUE
  BY DEF RefundPlan, EntitlementTypes
<1> QED
  BY <1>4, <1>5, Zenon DEF RefundPlan

LEMMA EntitlementTypesInitially ==
    ASSUME NEW earlier, NEW former, InitEntitlement(earlier, former)
    PROVE  EntitlementTypes
<1>1. now \in Instants /\ now \in Nat
  BY EntitlementAssumption DEF InitEntitlement
<1>2. /\ orders \in [Orders -> OrderRows]
      /\ \A o \in Orders : orders[o].status \in {"none", "REFUNDED"}
  BY DEF InitEntitlement, NoOrder, OrderRows, Plans
<1>3. subscriptions \in [Orders -> SubscriptionRows]
  BY DEF InitEntitlement, NoSubscription, SubscriptionRows, Plans
<1>4. /\ starts \in [Requests -> StartRows]
      /\ \A r \in Requests : starts[r].source # "none" => starts[r].at = now
  BY <1>1 DEF InitEntitlement, NoStart, StartRows, Sources
<1>5. promised \in [end : Nat, disturbed : BOOLEAN]
  BY DEF InitEntitlement
<1> QED
  BY <1>1, <1>2, <1>3, <1>4, <1>5 DEF EntitlementTypes

LEMMA EntitlementTypesKept ==
    ASSUME EntitlementTypes, [NextEntitlement]_entitlementVars
    PROVE  EntitlementTypes'
<1>1. now \in Nat
  BY EntitlementAssumption DEF EntitlementTypes
<1>2. CASE UNCHANGED entitlementVars
  BY <1>2, Zenon DEF EntitlementTypes, entitlementVars
<1>3. CASE Pass
  <2>1. now' \in Instants /\ now' \in Nat /\ now < now'
    BY <1>3, EntitlementAssumption DEF Pass
  <2>2. \A r \in Requests : starts[r].at \in Nat
    BY DEF EntitlementTypes, StartRows
  <2> QED
    BY <1>1, <1>3, <2>1, <2>2 DEF Pass, EntitlementTypes
<1>4. CASE SetUnlimited
  BY <1>4, Zenon DEF SetUnlimited, EntitlementTypes
<1>5. ASSUME NEW o \in Orders, NEW plan \in DOMAIN PlanDays, OrderPlan(o, plan)
      PROVE  EntitlementTypes'
  <2>1. PICK row : row = [NoOrder EXCEPT !.status = "PENDING", !.plan = plan]
    OBVIOUS
  <2>2. row \in OrderRows /\ row.status = "PENDING" /\ row.plan \in DOMAIN PlanDays
    BY <2>1 DEF NoOrder, OrderRows, Plans
  <2>3. orders' = [orders EXCEPT ![o] = row]
    BY <1>5, <2>1 DEF OrderPlan
  <2>4. /\ orders' \in [Orders -> OrderRows]
        /\ \A p \in Orders : orders'[p] = IF p = o THEN row ELSE orders[p]
    BY <2>2, <2>3 DEF EntitlementTypes
  <2>5. UNCHANGED <<now, unlimited, subscriptions, starts, promised>>
    BY <1>5, Zenon DEF OrderPlan
  <2>6. \A p \in Orders :
           /\ orders'[p].status = "PENDING" => orders'[p].plan \in DOMAIN PlanDays
           /\ orders'[p].status = "PAID" => orders'[p].subscription \in Orders
    BY <2>2, <2>4 DEF EntitlementTypes
  <2> QED
    BY <2>4, <2>5, <2>6, Zenon DEF EntitlementTypes
<1>6. ASSUME NEW o \in Orders, GrantPlan(o) PROVE EntitlementTypes'
  <2>1. PICK s \in Orders, hours \in Nat : Granting(o, s, hours)
    BY <1>6, GrantEffect
  <2>2. subscriptions' \in [Orders -> SubscriptionRows]
        /\ promised' \in [end : Nat, disturbed : BOOLEAN]
    BY <1>6, GrantEffect
  <2>3. orders' = [orders EXCEPT ![o].status = "PAID", ![o].subscription = s, ![o].at = now]
    BY <2>1 DEF Granting
  <2>4. orders' \in [Orders -> OrderRows]
    <3>1. PICK paid : paid = [orders EXCEPT ![o].status = "PAID"]
      OBVIOUS
    <3>2. paid \in [Orders -> OrderRows]
      BY <3>1 DEF EntitlementTypes, OrderRows
    <3>3. PICK linked : linked = [paid EXCEPT ![o].subscription = s]
      OBVIOUS
    <3>4. linked \in [Orders -> OrderRows]
      BY <3>2, <3>3 DEF OrderRows
    <3>5. orders' = [linked EXCEPT ![o].at = now]
      BY <2>3, <3>1, <3>3
    <3> QED
      BY <1>1, <3>4, <3>5 DEF OrderRows
  <2>5. \A p \in Orders :
           /\ orders'[p].status = "PENDING" => orders'[p].plan \in DOMAIN PlanDays
           /\ orders'[p].status = "PAID" => orders'[p].subscription \in Orders
    BY <2>3 DEF EntitlementTypes, OrderRows
  <2>6. UNCHANGED <<now, unlimited, starts>>
    BY <2>1, Zenon DEF Granting
  <2> QED
    BY <2>2, <2>4, <2>5, <2>6, Zenon DEF EntitlementTypes
<1>7. ASSUME NEW o \in Orders, RefundPlan(o) PROVE EntitlementTypes'
  <2>1. /\ subscriptions' \in [Orders -> SubscriptionRows]
        /\ orders' = [orders EXCEPT ![o].status = "REFUNDED"]
        /\ promised' \in [end : Nat, disturbed : BOOLEAN]
        /\ UNCHANGED <<now, unlimited, starts>>
    BY <1>7, RefundEffect, Zenon
  <2>2. orders' \in [Orders -> OrderRows]
    BY <2>1 DEF EntitlementTypes, OrderRows
  <2>3. \A p \in Orders :
           /\ orders'[p].status = "PENDING" => orders'[p].plan \in DOMAIN PlanDays
           /\ orders'[p].status = "PAID" => orders'[p].subscription \in Orders
    BY <2>1 DEF EntitlementTypes, OrderRows
  <2> QED
    BY <2>1, <2>2, <2>3, Zenon DEF EntitlementTypes
<1>8. ASSUME NEW r \in Requests, NEW video \in Videos \union {{}}, NEW spendable \in BOOLEAN,
             StartJob(r, video, spendable)
      PROVE  EntitlementTypes'
  <2>1. PICK row \in StartRows : Starting(r, row) /\ row.at = now
    BY <1>8, StartEffect, Zenon
  <2>2. /\ starts' \in [Requests -> StartRows]
        /\ \A q \in Requests : starts'[q] = IF q = r THEN row ELSE starts[q]
    BY <2>1 DEF Starting, EntitlementTypes
  <2>3. \A q \in Requests : starts'[q].source # "none" =>
                               starts'[q].at \in Instants /\ starts'[q].at <= now
    BY <1>1, <2>1, <2>2 DEF EntitlementTypes
  <2> QED
    BY <2>1, <2>2, <2>3, Zenon DEF EntitlementTypes, Starting
<1> QED
  BY <1>2, <1>3, <1>4, <1>5, <1>6, <1>7, <1>8, Zenon DEF NextEntitlement

-----------------------------------------------------------------------------
(* The quotas *)

PaidBy(hour) == \E o \in Orders : orders[o].status \in {"PAID", "REFUNDED"}
                                  /\ orders[o].at <= hour

DayKept(hour) == Cardinality(IncludedOn(Calendar[hour].day)) <= DailyLimit

WeekKept(hour) ==
    \/ Cardinality(VideosOf(FreeUnder(Calendar[hour].key))) <= WeeklyLimit
    \/ Cardinality(FreeUnder(Calendar[hour].key)) > TakeLimit

(* What every hour's day and week has, and that a subscription is paid.    *)
QuotasKept ==
    /\ \A hour \in Instants : DayKept(hour) /\ WeekKept(hour)
    /\ Current # {} => PaidBy(now)
    /\ \A r \in Requests : starts[r].source = "SUBSCRIPTION_INCLUDED" => PaidBy(starts[r].at)

(* What is counted is finite, the videos of finitely many jobs as well.    *)
LEMMA VideosAreFinite ==
    ASSUME NEW f, NEW rows, IsFiniteSet(rows)
    PROVE  IsFiniteSet({f[r].video : r \in rows})
<1> DEFINE videos == {f[r].video : r \in rows}
           g == [r \in rows |-> f[r].video]
<1>1. g \in Surjection(rows, videos)
  BY DEF Surjection
<1> QED
  BY <1>1, FS_Surjection

LEMMA CountedAreFinite ==
    /\ \A day : IsFiniteSet(IncludedOn(day))
    /\ \A key : IsFiniteSet(FreeUnder(key)) /\ IsFiniteSet(VideosOf(FreeUnder(key)))
    /\ \A monday : IsFiniteSet(FreeIn(monday)) /\ IsFiniteSet(VideosOf(FreeIn(monday)))
<1>1. \A day : IncludedOn(day) \in SUBSET Requests
  BY DEF IncludedOn, Started
<1>2. \A key : FreeUnder(key) \in SUBSET Requests
  BY DEF FreeUnder, Started
<1>3. \A monday : FreeIn(monday) \in SUBSET Requests
  BY DEF FreeIn, Started
<1>4. \A rows \in SUBSET Requests : IsFiniteSet(rows) /\ IsFiniteSet(VideosOf(rows))
  <2>1. \A rows \in SUBSET Requests : IsFiniteSet(rows)
    BY FS_Subset, EntitlementAssumption
  <2> QED
    BY <2>1, VideosAreFinite, Zenon DEF VideosOf
<1> QED
  BY <1>1, <1>2, <1>3, <1>4

(* The videos that count in a week are among those under its key: a week   *)
(* has one key.                                                            *)
LEMMA WeeksHaveKeys ==
    ASSUME NEW hour \in Instants, NEW other \in Instants,
           Calendar[hour].monday = Calendar[other].monday
    PROVE  Calendar[hour].key = Calendar[other].key
<1>1. Monday(Day(hour)) = Monday(Day(other))
  BY Zenon DEF Calendar
<1>2. WeekKey(hour) = WeekKey(other)
  BY <1>1, Zenon DEF WeekKey
<1> QED
  BY <1>2, Zenon DEF Calendar

LEMMA WeekUnderKey ==
    ASSUME EntitlementTypes, NEW hour \in Instants
    PROVE  /\ FreeIn(Calendar[hour].monday) \subseteq FreeUnder(Calendar[hour].key)
           /\ ~SharesKey[hour] => FreeUnder(Calendar[hour].key) = FreeIn(Calendar[hour].monday)
<1>1. ASSUME NEW r \in FreeIn(Calendar[hour].monday)
      PROVE  r \in FreeUnder(Calendar[hour].key)
  <2>1. /\ r \in Requests /\ starts[r].source = "FREE_PREMIUM_TRIAL"
        /\ Calendar[starts[r].at].monday = Calendar[hour].monday
    BY DEF FreeIn, Started
  <2>2. starts[r].at \in Instants
    BY <2>1 DEF EntitlementTypes
  <2>3. Calendar[starts[r].at].key = Calendar[hour].key
    BY <2>1, <2>2, WeeksHaveKeys
  <2> QED
    BY <2>1, <2>3, Zenon DEF FreeUnder, Started
<1>2. ASSUME ~SharesKey[hour], NEW r \in FreeUnder(Calendar[hour].key)
      PROVE  r \in FreeIn(Calendar[hour].monday)
  <2>1. /\ r \in Requests /\ starts[r].source = "FREE_PREMIUM_TRIAL"
        /\ Calendar[starts[r].at].key = Calendar[hour].key
    BY DEF FreeUnder, Started
  <2>2. starts[r].at \in Instants
    BY <2>1 DEF EntitlementTypes
  <2>3. Calendar[starts[r].at].monday = Calendar[hour].monday
    BY <1>2, <2>1, <2>2, Zenon DEF SharesKey
  <2> QED
    BY <2>1, <2>3, Zenon DEF FreeIn, Started
<1> QED
  BY <1>1, <1>2

(* What a job that is started adds to the rows that are counted.           *)
LEMMA CountedAfterStart ==
    ASSUME EntitlementTypes, NEW r \in Requests, NEW row \in StartRows, Starting(r, row),
           row.at = now
    PROVE  /\ \A day : IncludedOn(day)' =
                 IF row.source = "SUBSCRIPTION_INCLUDED" /\ Calendar[now].day = day
                 THEN IncludedOn(day) \union {r} ELSE IncludedOn(day)
           /\ \A key : FreeUnder(key)' =
                 IF row.source = "FREE_PREMIUM_TRIAL" /\ Calendar[now].key = key
                 THEN FreeUnder(key) \union {r} ELSE FreeUnder(key)
           /\ \A key : VideosOf(FreeUnder(key))' =
                 IF row.source = "FREE_PREMIUM_TRIAL" /\ Calendar[now].key = key
                 THEN VideosOf(FreeUnder(key)) \union {row.video} ELSE VideosOf(FreeUnder(key))
<1>1. /\ starts'[r] = row /\ starts[r].source = "none"
      /\ \A q \in Requests \ {r} : starts'[q] = starts[q]
  BY DEF Starting, EntitlementTypes
<1>2. ASSUME NEW day
      PROVE  IncludedOn(day)' =
                 IF row.source = "SUBSCRIPTION_INCLUDED" /\ Calendar[now].day = day
                 THEN IncludedOn(day) \union {r} ELSE IncludedOn(day)
  BY <1>1 DEF IncludedOn, Started
<1>3. ASSUME NEW key
      PROVE  FreeUnder(key)' =
                 IF row.source = "FREE_PREMIUM_TRIAL" /\ Calendar[now].key = key
                 THEN FreeUnder(key) \union {r} ELSE FreeUnder(key)
  BY <1>1 DEF FreeUnder, Started
<1>4. \A key : r \notin FreeUnder(key) /\ FreeUnder(key) \subseteq Requests
  BY <1>1 DEF FreeUnder, Started
<1>5. ASSUME NEW key
      PROVE  VideosOf(FreeUnder(key))' =
                 IF row.source = "FREE_PREMIUM_TRIAL" /\ Calendar[now].key = key
                 THEN VideosOf(FreeUnder(key)) \union {row.video} ELSE VideosOf(FreeUnder(key))
  <2>1. PICK rows \in SUBSET Requests : rows = FreeUnder(key)
    BY <1>4
  <2>2. PICK after : after = FreeUnder(key)'
    OBVIOUS
  <2>3. after = IF row.source = "FREE_PREMIUM_TRIAL" /\ Calendar[now].key = key
                THEN rows \union {r} ELSE rows
    BY <1>3, <2>1, <2>2
  <2>4. \A q \in rows : starts'[q] = starts[q]
    BY <1>1, <1>4, <2>1
  <2>5. {starts'[q].video : q \in after} =
          IF row.source = "FREE_PREMIUM_TRIAL" /\ Calendar[now].key = key
          THEN {starts[q].video : q \in rows} \union {row.video} ELSE {starts[q].video : q \in rows}
    BY <1>1, <2>3, <2>4
  <2> QED
    BY <2>1, <2>2, <2>5, Zenon DEF VideosOf
<1> QED
  BY <1>2, <1>3, <1>5, Zenon

(* What has been paid for stays paid for.                                  *)
LEMMA PaidStays ==
    ASSUME EntitlementTypes, [NextEntitlement]_entitlementVars, NEW hour, PaidBy(hour)
    PROVE  PaidBy(hour)'
<1>1. PICK o \in Orders : orders[o].status \in {"PAID", "REFUNDED"} /\ orders[o].at <= hour
  BY DEF PaidBy
<1>2. SUFFICES orders'[o].status \in {"PAID", "REFUNDED"} /\ orders'[o].at = orders[o].at
  BY <1>1 DEF PaidBy
<1>3. CASE orders' = orders
  BY <1>1, <1>3
<1>4. ASSUME NEW p \in Orders, NEW plan \in DOMAIN PlanDays, OrderPlan(p, plan)
      PROVE  orders'[o] = orders[o]
  BY <1>1, <1>4 DEF OrderPlan, EntitlementTypes
<1>5. ASSUME NEW p \in Orders, GrantPlan(p) PROVE orders'[o] = orders[o]
  <2>1. PICK s : orders' = [orders EXCEPT ![p].status = "PAID", ![p].subscription = s,
                                          ![p].at = now]
    BY <1>5, Zenon DEF GrantPlan
  <2>2. orders[p].status = "PENDING"
    BY <1>5 DEF GrantPlan
  <2> QED
    BY <1>1, <2>1, <2>2 DEF EntitlementTypes
<1>6. ASSUME NEW p \in Orders, RefundPlan(p)
      PROVE  orders'[o].status \in {"PAID", "REFUNDED"} /\ orders'[o].at = orders[o].at
  <2>1. orders' = [orders EXCEPT ![p].status = "REFUNDED"]
    BY <1>6, RefundEffect
  <2> QED
    BY <1>1, <2>1 DEF EntitlementTypes, OrderRows
<1> QED
  BY <1>1, <1>3, <1>4, <1>5, <1>6, Zenon
     DEF NextEntitlement, Pass, SetUnlimited, StartJob, entitlementVars

(* One element more is at most one more to count.                          *)
LEMMA OneMore ==
    ASSUME NEW S, NEW x, IsFiniteSet(S)
    PROVE  \E n \in Nat, m \in Nat : /\ n = Cardinality(S) /\ m = Cardinality(S \union {x})
                                     /\ n <= m /\ m <= n + 1
<1>1. PICK n \in Nat : n = Cardinality(S)
  BY FS_CardinalityType
<1>2. Cardinality(S \union {x}) = IF x \in S THEN n ELSE n + 1
  BY <1>1, FS_AddElement
<1> QED
  BY <1>1, <1>2

(* A job that is started leaves the quota of every day and of every week.  *)
LEMMA QuotaOfStart ==
    ASSUME EntitlementTypes, QuotasKept, NEW r \in Requests, NEW video \in Videos \union {{}},
           NEW spendable \in BOOLEAN, StartJob(r, video, spendable), NEW hour \in Instants
    PROVE  DayKept(hour)' /\ WeekKept(hour)'
<1>1. PICK taken \in Taken(Calendar[now].key), row \in StartRows :
         /\ Starting(r, row) /\ row.at = now
         /\ row.source # "none"
         /\ row.source = "SUBSCRIPTION_INCLUDED" => ActivePro /\ DailyLeft
         /\ row.source = "FREE_PREMIUM_TRIAL" => row.video = video /\ TrialLeft(video, taken)
         /\ row.asked => ~TrialLeft(video, taken)
  BY StartEffect, Zenon
<1>2. PICK day, key : day = Calendar[hour].day /\ key = Calendar[hour].key
  OBVIOUS
<1>3. PICK included : included = IncludedOn(day)
  OBVIOUS
<1>4. PICK rows, videos : rows = FreeUnder(key) /\ videos = VideosOf(FreeUnder(key))
  OBVIOUS
<1>5. /\ IsFiniteSet(included) /\ Cardinality(included) \in Nat
      /\ IsFiniteSet(rows) /\ Cardinality(rows) \in Nat
      /\ IsFiniteSet(videos) /\ Cardinality(videos) \in Nat
  BY <1>3, <1>4, CountedAreFinite, FS_CardinalityType
<1>6. /\ DailyLimit \in Nat /\ WeeklyLimit \in Nat /\ TakeLimit \in Nat
  BY EntitlementAssumption
<1>7. DayKept(hour)'
  <2>1. IncludedOn(day)' = IF row.source = "SUBSCRIPTION_INCLUDED" /\ Calendar[now].day = day
                           THEN included \union {r} ELSE included
    BY <1>1, <1>3, CountedAfterStart, Zenon
  <2>2. Cardinality(included) <= DailyLimit
    BY <1>2, <1>3 DEF QuotasKept, DayKept
  <2>3. Cardinality(IncludedOn(day)') <= DailyLimit
    <3>1. CASE row.source = "SUBSCRIPTION_INCLUDED" /\ Calendar[now].day = day
      <4>1. Cardinality(included) < DailyLimit
        BY <1>1, <1>3, <3>1, Zenon DEF DailyLeft
      <4>2. PICK n \in Nat, m \in Nat : /\ n = Cardinality(included)
                                        /\ m = Cardinality(included \union {r}) /\ m <= n + 1
        BY <1>5, OneMore
      <4> QED
        BY <1>6, <2>1, <3>1, <4>1, <4>2
    <3>2. CASE ~(row.source = "SUBSCRIPTION_INCLUDED" /\ Calendar[now].day = day)
      BY <2>1, <2>2, <3>2
    <3> QED
      BY <3>1, <3>2
  <2> QED
    BY <1>2, <2>3, Zenon DEF DayKept
<1>8. WeekKept(hour)'
  <2>1. /\ FreeUnder(key)' = IF row.source = "FREE_PREMIUM_TRIAL" /\ Calendar[now].key = key
                             THEN rows \union {r} ELSE rows
        /\ VideosOf(FreeUnder(key))' =
              IF row.source = "FREE_PREMIUM_TRIAL" /\ Calendar[now].key = key
              THEN videos \union {row.video} ELSE videos
    BY <1>1, <1>4, CountedAfterStart, Zenon
  <2>2. Cardinality(videos) <= WeeklyLimit \/ Cardinality(rows) > TakeLimit
    BY <1>2, <1>4, Zenon DEF QuotasKept, WeekKept
  <2>3. \/ Cardinality(VideosOf(FreeUnder(key))') <= WeeklyLimit
        \/ Cardinality(FreeUnder(key)') > TakeLimit
    <3>1. CASE row.source = "FREE_PREMIUM_TRIAL" /\ Calendar[now].key = key
      <4>1. PICK n \in Nat, m \in Nat : /\ n = Cardinality(rows)
                                        /\ m = Cardinality(rows \union {r}) /\ n <= m
        BY <1>5, OneMore
      <4>2. CASE Cardinality(rows) > TakeLimit
        BY <1>6, <2>1, <3>1, <4>1, <4>2
      <4>3. CASE Cardinality(rows) <= TakeLimit
        <5>1. taken = rows
          BY <1>1, <1>4, <3>1, <4>3, Zenon DEF Taken
        <5>2. video \in videos \/ Cardinality(videos) < WeeklyLimit
          BY <1>1, <1>4, <3>1, <5>1, Zenon DEF TrialLeft
        <5>3. CASE video \in videos
          <6>1. videos \union {row.video} = videos
            BY <1>1, <3>1, <5>3
          <6> QED
            BY <1>5, <1>6, <2>1, <2>2, <3>1, <4>3, <6>1
        <5>4. CASE Cardinality(videos) < WeeklyLimit
          <6>1. PICK few \in Nat, more \in Nat :
                   /\ few = Cardinality(videos)
                   /\ more = Cardinality(videos \union {row.video}) /\ more <= few + 1
            BY <1>5, OneMore
          <6>2. VideosOf(FreeUnder(key))' = videos \union {row.video}
            BY <2>1, <3>1, Zenon
          <6>3. more <= WeeklyLimit
            BY <1>6, <5>4, <6>1
          <6> QED
            BY <6>1, <6>2, <6>3, Zenon
        <5> QED
          BY <5>2, <5>3, <5>4
      <4> QED
        BY <1>5, <1>6, <4>2, <4>3
    <3>2. CASE ~(row.source = "FREE_PREMIUM_TRIAL" /\ Calendar[now].key = key)
      BY <2>1, <2>2, <3>2
    <3> QED
      BY <3>1, <3>2
  <2> QED
    BY <1>2, <2>3, Zenon DEF WeekKept
<1> QED
  BY <1>7, <1>8

LEMMA QuotasStep ==
    ASSUME EntitlementTypes, QuotasKept, [NextEntitlement]_entitlementVars
    PROVE  QuotasKept'
<1>1. PICK before \in Nat, after \in Nat : before = now /\ after = now' /\ before <= after
  <2>1. now \in Nat /\ Instants \subseteq Nat
    BY EntitlementAssumption DEF EntitlementTypes
  <2>2. EntitlementTypes'
    BY EntitlementTypesKept
  <2>3. now' \in Nat
    BY <2>1, <2>2 DEF EntitlementTypes
  <2>4. CASE Pass
    BY <2>1, <2>3, <2>4 DEF Pass
  <2>5. CASE now' = now
    BY <2>1, <2>5
  <2> QED
    BY <2>1, <2>3, <2>4, <2>5, Zenon
       DEF NextEntitlement, SetUnlimited, GrantPlan, RefundPlan, OrderPlan, StartJob,
           entitlementVars
<1>2. \A hour : PaidBy(hour) => PaidBy(hour)'
  BY PaidStays
<1>3. PaidBy(before) => PaidBy(after)'
  <2>1. SUFFICES ASSUME PaidBy(before) PROVE PaidBy(after)'
    OBVIOUS
  <2>2. PICK o \in Orders : orders'[o].status \in {"PAID", "REFUNDED"} /\ orders'[o].at <= before
    BY <1>2, <2>1 DEF PaidBy
  <2>3. orders'[o].at \in Nat
    BY <2>2, EntitlementTypesKept DEF EntitlementTypes, OrderRows
  <2>4. orders'[o].at <= after
    BY <1>1, <2>2, <2>3
  <2> QED
    BY <2>2, <2>4 DEF PaidBy
<1>4. PaidBy(now) <=> PaidBy(before)
  BY <1>1
<1>5. PaidBy(after)' => PaidBy(now)'
  BY <1>1 DEF PaidBy
<1>6. Current' # {} => PaidBy(now)'
  <2>1. CASE Current # {}
    BY <1>3, <1>4, <1>5, <2>1, Zenon DEF QuotasKept
  <2>2. ASSUME NEW o \in Orders, GrantPlan(o) PROVE PaidBy(now)'
    <3>1. PICK s : orders' = [orders EXCEPT ![o].status = "PAID", ![o].subscription = s,
                                            ![o].at = now]
      BY <2>2, Zenon DEF GrantPlan
    <3>2. orders'[o].status = "PAID" /\ orders'[o].at = before
      BY <1>1, <3>1 DEF EntitlementTypes, OrderRows
    <3>3. orders'[o].at <= after
      BY <1>1, <3>2
    <3> QED
      BY <1>5, <3>2, <3>3 DEF PaidBy
  <2>3. ASSUME NEW o \in Orders, RefundPlan(o), Current = {} PROVE Current' = {}
    BY <2>3, RefundEffect DEF Current
  <2>4. ASSUME subscriptions' = subscriptions, Current = {} PROVE Current' = {}
    BY <2>4 DEF Current
  <2> QED
    BY <2>1, <2>2, <2>3, <2>4, Zenon
       DEF NextEntitlement, Pass, SetUnlimited, OrderPlan, StartJob, entitlementVars
<1>7. CASE starts' = starts
  <2>1. \A hour \in Instants : DayKept(hour)' /\ WeekKept(hour)'
    BY <1>7, Zenon DEF QuotasKept, DayKept, WeekKept, IncludedOn, FreeUnder, VideosOf, Started
  <2>2. \A r \in Requests : starts'[r].source = "SUBSCRIPTION_INCLUDED" =>
           \E o \in Orders : orders'[o].status \in {"PAID", "REFUNDED"}
                             /\ orders'[o].at <= starts'[r].at
    BY <1>2, <1>7, Zenon DEF QuotasKept, PaidBy
  <2> QED
    BY <1>6, <2>1, <2>2, Zenon DEF QuotasKept, PaidBy
<1>8. ASSUME NEW r \in Requests, NEW video \in Videos \union {{}}, NEW spendable \in BOOLEAN,
             StartJob(r, video, spendable)
      PROVE  QuotasKept'
  <2>1. \A hour \in Instants : DayKept(hour)' /\ WeekKept(hour)'
    BY <1>8, QuotaOfStart
  <2>2. PICK row \in StartRows : /\ Starting(r, row) /\ row.at = now
                                 /\ row.source = "SUBSCRIPTION_INCLUDED" => ActivePro
    BY <1>8, StartEffect, Zenon
  <2>3. orders' = orders
    BY <2>2 DEF Starting
  <2>4. \A q \in Requests : starts'[q] = IF q = r THEN row ELSE starts[q]
    BY <2>2 DEF Starting, EntitlementTypes
  <2>5. ActivePro => PaidBy(now)
    BY Zenon DEF ActivePro, QuotasKept
  <2>6. \A q \in Requests : starts'[q].source = "SUBSCRIPTION_INCLUDED" =>
           \E o \in Orders : orders'[o].status \in {"PAID", "REFUNDED"}
                             /\ orders'[o].at <= starts'[q].at
    <3>1. ASSUME NEW q \in Requests, q # r, starts[q].source = "SUBSCRIPTION_INCLUDED"
          PROVE  PaidBy(starts[q].at)
      BY <3>1, Zenon DEF QuotasKept
    <3> QED
      BY <2>2, <2>3, <2>4, <2>5, <3>1, Zenon DEF PaidBy
  <2> QED
    BY <1>6, <2>1, <2>6, Zenon DEF QuotasKept, PaidBy
<1> QED
  BY <1>7, <1>8, Zenon
     DEF NextEntitlement, Pass, SetUnlimited, OrderPlan, GrantPlan, RefundPlan, entitlementVars

LEMMA QuotasInitially ==
    ASSUME NEW earlier, NEW former, InitEntitlement(earlier, former)
    PROVE  QuotasKept
<1>1. \A r \in Requests : starts[r].source \in {"none", "NO_CHARGE_LOCAL"}
  BY DEF InitEntitlement, NoStart
<1>2. Current = {}
  BY DEF InitEntitlement, NoSubscription, Current
<1>3. \A day, key : IncludedOn(day) = {} /\ FreeUnder(key) = {}
  BY <1>1 DEF IncludedOn, FreeUnder, Started
<1>4. ASSUME NEW hour \in Instants PROVE DayKept(hour) /\ WeekKept(hour)
  <2>1. IncludedOn(Calendar[hour].day) = {} /\ FreeUnder(Calendar[hour].key) = {}
    BY <1>3
  <2>2. VideosOf(FreeUnder(Calendar[hour].key)) = {}
    BY <2>1 DEF VideosOf
  <2>3. Cardinality({}) <= DailyLimit /\ Cardinality({}) <= WeeklyLimit
    BY FS_EmptySet, EntitlementAssumption
  <2> QED
    BY <2>1, <2>2, <2>3, Zenon DEF DayKept, WeekKept
<1> QED
  BY <1>1, <1>2, <1>4 DEF QuotasKept

LEMMA QuotasHold == EntitlementTypes /\ QuotasKept => FreeJobsWithinQuota
<1> SUFFICES ASSUME EntitlementTypes, QuotasKept, NEW r \in Requests
             PROVE  /\ starts[r].source = "SUBSCRIPTION_INCLUDED" =>
                          /\ DayKept(starts[r].at)
                          /\ PaidBy(starts[r].at)
                    /\ starts[r].source = "FREE_PREMIUM_TRIAL" =>
                          \/ Cardinality(VideosOf(FreeIn(Calendar[starts[r].at].monday)))
                               <= WeeklyLimit
                          \/ Cardinality(FreeUnder(Calendar[starts[r].at].key)) > TakeLimit
  BY Zenon DEF FreeJobsWithinQuota, DayKept, PaidBy
<1>1. ASSUME starts[r].source = "SUBSCRIPTION_INCLUDED"
      PROVE  DayKept(starts[r].at) /\ PaidBy(starts[r].at)
  <2>1. starts[r].at \in Instants
    BY <1>1 DEF EntitlementTypes
  <2> QED
    BY <1>1, <2>1, Zenon DEF QuotasKept
<1>2. ASSUME starts[r].source = "FREE_PREMIUM_TRIAL",
             Cardinality(FreeUnder(Calendar[starts[r].at].key)) <= TakeLimit
      PROVE  Cardinality(VideosOf(FreeIn(Calendar[starts[r].at].monday))) <= WeeklyLimit
  <2>1. PICK hour \in Instants : hour = starts[r].at
    BY <1>2 DEF EntitlementTypes
  <2>2. PICK rows, counted : rows = FreeUnder(Calendar[hour].key)
                             /\ counted = FreeIn(Calendar[hour].monday)
    OBVIOUS
  <2>3. VideosOf(counted) \in SUBSET VideosOf(rows)
    BY <2>2, WeekUnderKey DEF VideosOf
  <2>4. IsFiniteSet(VideosOf(rows)) /\ IsFiniteSet(VideosOf(counted)) /\ IsFiniteSet(rows)
    BY <2>2, CountedAreFinite, Zenon
  <2>5. Cardinality(VideosOf(counted)) <= Cardinality(VideosOf(rows))
    BY <2>3, <2>4, FS_Subset
  <2>6. /\ Cardinality(VideosOf(counted)) \in Nat /\ Cardinality(VideosOf(rows)) \in Nat
        /\ Cardinality(rows) \in Nat /\ WeeklyLimit \in Nat /\ TakeLimit \in Nat
    BY <2>4, FS_CardinalityType, EntitlementAssumption
  <2>7. Cardinality(VideosOf(rows)) <= WeeklyLimit \/ Cardinality(rows) > TakeLimit
    BY <2>2, Zenon DEF QuotasKept, WeekKept
  <2>8. Cardinality(rows) <= TakeLimit
    BY <1>2, <2>1, <2>2
  <2>9. Cardinality(VideosOf(counted)) <= WeeklyLimit
    BY <2>5, <2>6, <2>7, <2>8
  <2> QED
    BY <2>1, <2>2, <2>9, Zenon
<1>3. PICK n \in Nat : n = Cardinality(FreeUnder(Calendar[starts[r].at].key))
  BY CountedAreFinite, FS_CardinalityType
<1>4. TakeLimit \in Nat
  BY EntitlementAssumption
<1>5. n <= TakeLimit \/ n > TakeLimit
  BY <1>4
<1> QED
  BY <1>1, <1>2, <1>3, <1>5, Zenon

(* However many jobs, videos, plans and refunds there are and whenever     *)
(* they come, nobody gets more included jobs on a day, or more free videos *)
(* in a week, than the limits, nor included jobs that were not paid for.   *)
(* What counts is that the limits are counted in the transaction that adds *)
(* the job: for every day and every key of a week the count is kept.       *)
THEOREM QuotasAreKept ==
    ASSUME NEW CONSTANT earlier, NEW CONSTANT former
    PROVE  InitEntitlement(earlier, former) /\ [][NextEntitlement]_entitlementVars
             => []FreeJobsWithinQuota
<1>1. InitEntitlement(earlier, former) => EntitlementTypes /\ QuotasKept
  BY EntitlementTypesInitially, QuotasInitially
<1>2. EntitlementTypes /\ QuotasKept /\ [NextEntitlement]_entitlementVars
        => (EntitlementTypes /\ QuotasKept)'
  BY EntitlementTypesKept, QuotasStep
<1>3. EntitlementTypes /\ QuotasKept => FreeJobsWithinQuota
  BY QuotasHold
<1> QED
  BY <1>1, <1>2, <1>3, PTL

-----------------------------------------------------------------------------
(* The dues *)

ProKept ==
    \/ promised.disturbed
    \/ Current = {} /\ promised.end = 0
    \/ \E s \in Orders : /\ Current = {s}
                         /\ subscriptions[s].plan = "PRO"
                         /\ subscriptions[s].end >= promised.end

WeekServed(hour) ==
    \/ Cardinality(VideosOf(FreeIn(Calendar[hour].monday))) >= WeeklyLimit
    \/ SharesKey[hour]

(* As long as nothing came in between, the one subscription there is runs  *)
(* for all the time paid for; and whoever was asked to pay was served.     *)
DuesKept ==
    /\ ProKept
    /\ \A r \in Requests : starts[r].asked => WeekServed(starts[r].at)

(* Each payment adds its days to the later of two ends, one in the row and *)
(* one in the promise; the row's is never the earlier one.                 *)
LEMMA ProOfGrant ==
    ASSUME EntitlementTypes, ProKept, NEW o \in Orders, GrantPlan(o)
    PROVE  ProKept'
<1>1. PICK s \in Orders, hours \in Nat : Granting(o, s, hours)
  BY GrantEffect
<1>2. CASE promised.disturbed \/ orders[o].plan # "PRO"
  BY <1>1, <1>2 DEF Granting, ProKept
<1>3. CASE ~promised.disturbed /\ orders[o].plan = "PRO"
  <2>1. now \in Nat /\ promised.end \in Nat
    BY EntitlementAssumption DEF EntitlementTypes
  <2>2. promised'.end = Later(promised.end, now) + hours
    BY <1>1, <1>3 DEF Granting
  <2>3. subscriptions'[s].plan = "PRO"
    BY <1>1, <1>3 DEF Granting
  <2>4. Current \subseteq {s}
    BY <1>1, <1>3 DEF ProKept, Granting
  <2>5. Current' = {s}
    BY <1>1, <2>4 DEF Granting, Current
  <2>6. subscriptions'[s].end >= promised'.end
    <3>1. CASE Current = {}
      <4>1. subscriptions'[s].end = now + hours
        BY <1>1, <3>1 DEF Granting
      <4>2. promised.end = 0
        BY <1>3, <3>1 DEF ProKept
      <4> QED
        BY <2>1, <2>2, <4>1, <4>2 DEF Later
    <3>2. CASE Current # {}
      <4>1. subscriptions'[s].end = PeriodBase(s) + hours
        BY <1>1, <3>2 DEF Granting
      <4>2. subscriptions[s].end >= promised.end
        BY <1>3, <2>4, <3>2 DEF ProKept
      <4>3. subscriptions[s].end \in Nat
        BY DEF EntitlementTypes, SubscriptionRows
      <4> QED
        BY <2>1, <2>2, <4>1, <4>2, <4>3 DEF Later, PeriodBase
    <3> QED
      BY <3>1, <3>2
  <2> QED
    BY <2>3, <2>5, <2>6 DEF ProKept
<1> QED
  BY <1>2, <1>3

(* Free videos of a week are not taken back.                               *)
LEMMA WeekStaysServed ==
    ASSUME EntitlementTypes, [NextEntitlement]_entitlementVars, NEW hour, WeekServed(hour)
    PROVE  WeekServed(hour)'
<1>1. PICK counted, after : /\ counted = FreeIn(Calendar[hour].monday)
                            /\ after = FreeIn(Calendar[hour].monday)'
  OBVIOUS
<1>2. \A q \in Requests : starts[q].source # "none" => starts'[q] = starts[q]
  <2>1. CASE starts' = starts
    BY <2>1
  <2>2. ASSUME NEW r \in Requests, NEW video \in Videos \union {{}}, NEW spendable \in BOOLEAN,
               StartJob(r, video, spendable)
        PROVE  \A q \in Requests : starts[q].source # "none" => starts'[q] = starts[q]
    <3>1. PICK row : Starting(r, row)
      BY <2>2, StartEffect, Zenon
    <3> QED
      BY <3>1 DEF Starting, EntitlementTypes
  <2> QED
    BY <2>1, <2>2, Zenon
       DEF NextEntitlement, Pass, SetUnlimited, OrderPlan, GrantPlan, RefundPlan, entitlementVars
<1>3. \A q \in counted : q \in after /\ starts'[q] = starts[q]
  BY <1>1, <1>2 DEF FreeIn, Started
<1>4. VideosOf(counted) \in SUBSET {starts'[q].video : q \in after}
  BY <1>3 DEF VideosOf
<1>5. IsFiniteSet({starts'[q].video : q \in after})
  <2>1. after \in SUBSET Requests
    BY <1>1 DEF FreeIn, Started
  <2>2. IsFiniteSet(after)
    BY <2>1, EntitlementAssumption, FS_Subset
  <2> QED
    BY <2>2, VideosAreFinite, Zenon
<1>6. PICK n \in Nat, m \in Nat : /\ n = Cardinality(VideosOf(counted))
                                  /\ m = Cardinality({starts'[q].video : q \in after})
                                  /\ n <= m
  BY <1>4, <1>5, FS_Subset, FS_CardinalityType
<1>7. {starts'[q].video : q \in after} = VideosOf(FreeIn(Calendar[hour].monday))'
  BY <1>1, Zenon DEF VideosOf
<1>8. WeeklyLimit \in Nat
  BY EntitlementAssumption
<1>9. CASE SharesKey[hour]
  BY <1>9, Zenon DEF WeekServed
<1>10. CASE n >= WeeklyLimit
  <2>1. m >= WeeklyLimit
    BY <1>6, <1>8, <1>10
  <2> QED
    BY <1>6, <1>7, <2>1, Zenon DEF WeekServed
<1> QED
  BY <1>1, <1>6, <1>9, <1>10, Zenon DEF WeekServed

(* Who is asked to pay for a video that could be free has had the week's.  *)
LEMMA AskedIsServed ==
    ASSUME EntitlementTypes, NEW video, NEW taken \in Taken(Calendar[now].key),
           ~TrialLeft(video, taken)
    PROVE  WeekServed(now)
<1>1. PICK hour \in Instants : hour = now
  BY DEF EntitlementTypes
<1>2. PICK rows : rows = FreeUnder(Calendar[hour].key)
  OBVIOUS
<1>3. taken \subseteq rows
  BY <1>1, <1>2 DEF Taken
<1>4. VideosOf(taken) \in SUBSET VideosOf(rows)
  BY <1>3 DEF VideosOf
<1>5. IsFiniteSet(VideosOf(rows))
  BY <1>2, CountedAreFinite, Zenon
<1>6. PICK n \in Nat, m \in Nat : n = Cardinality(VideosOf(taken))
                                  /\ m = Cardinality(VideosOf(rows)) /\ n <= m
  BY <1>4, <1>5, FS_Subset, FS_CardinalityType
<1>7. WeeklyLimit \in Nat
  BY EntitlementAssumption
<1>8. m >= WeeklyLimit
  BY <1>6, <1>7 DEF TrialLeft
<1>9. ~SharesKey[hour] => rows = FreeIn(Calendar[hour].monday)
  BY <1>2, WeekUnderKey, Zenon
<1> QED
  BY <1>1, <1>6, <1>8, <1>9, Zenon DEF WeekServed

LEMMA DuesStep ==
    ASSUME EntitlementTypes, DuesKept, [NextEntitlement]_entitlementVars
    PROVE  DuesKept'
<1>1. ProKept'
  <2>1. ASSUME UNCHANGED <<subscriptions, promised>> PROVE ProKept'
    BY <2>1, Zenon DEF DuesKept, ProKept, Current
  <2>2. ASSUME NEW o \in Orders, RefundPlan(o) PROVE ProKept'
    BY <2>2, RefundEffect DEF ProKept
  <2> QED
    BY <2>1, <2>2, ProOfGrant, Zenon
       DEF NextEntitlement, Pass, SetUnlimited, OrderPlan, StartJob, entitlementVars, DuesKept
<1>2. \A hour : WeekServed(hour) => WeekServed(hour)'
  BY WeekStaysServed
<1>3. ASSUME NEW r \in Requests, starts'[r].asked PROVE WeekServed(starts[r].at)'
  <2>1. PICK hour : hour = starts'[r].at
    OBVIOUS
  <2>2. WeekServed(hour)'
    <3>1. CASE starts' = starts
      BY <1>2, <1>3, <2>1, <3>1, Zenon DEF DuesKept
    <3>2. ASSUME NEW q \in Requests, NEW video \in Videos \union {{}}, NEW spendable \in BOOLEAN,
                 StartJob(q, video, spendable)
          PROVE  WeekServed(hour)'
      <4>1. PICK taken \in Taken(Calendar[now].key), row \in StartRows :
               /\ Starting(q, row) /\ row.at = now
               /\ row.source # "none"
               /\ row.source = "SUBSCRIPTION_INCLUDED" => ActivePro /\ DailyLeft
               /\ row.source = "FREE_PREMIUM_TRIAL" => row.video = video /\ TrialLeft(video, taken)
               /\ row.asked => ~TrialLeft(video, taken)
        BY <3>2, StartEffect, Zenon
      <4>2. starts'[r] = IF r = q THEN row ELSE starts[r]
        BY <4>1 DEF Starting, EntitlementTypes
      <4>3. CASE r = q
        <5>1. WeekServed(now) /\ hour = now
          BY <1>3, <2>1, <4>1, <4>2, <4>3, AskedIsServed, Zenon
        <5>2. WeekServed(hour)
          BY <5>1, Zenon
        <5> QED
          BY <1>2, <5>2, Zenon
      <4>4. CASE r # q
        BY <1>2, <1>3, <2>1, <4>2, <4>4, Zenon DEF DuesKept
      <4> QED
        BY <4>3, <4>4
    <3> QED
      BY <3>1, <3>2, Zenon
         DEF NextEntitlement, Pass, SetUnlimited, OrderPlan, GrantPlan, RefundPlan,
             entitlementVars
  <2> QED
    BY <2>1, <2>2, Zenon DEF WeekServed, VideosOf, FreeIn, Started
<1> QED
  BY <1>1, <1>3, Zenon DEF DuesKept

LEMMA DuesHold == EntitlementTypes /\ DuesKept => DuesAreServed
<1> SUFFICES ASSUME EntitlementTypes, DuesKept PROVE DuesAreServed
  OBVIOUS
<1>1. ASSUME ~promised.disturbed, now < promised.end PROVE ActivePro
  <2>1. now \in Nat /\ promised.end \in Nat
    BY EntitlementAssumption DEF EntitlementTypes
  <2>2. PICK s \in Orders : /\ Current = {s} /\ subscriptions[s].plan = "PRO"
                            /\ subscriptions[s].end >= promised.end
    BY <1>1, <2>1 DEF DuesKept, ProKept
  <2>3. subscriptions[s].end \in Nat
    BY DEF EntitlementTypes, SubscriptionRows
  <2>4. subscriptions[s].end > now
    BY <1>1, <2>1, <2>2, <2>3
  <2> QED
    BY <2>2, <2>4 DEF ActivePro
<1> QED
  BY <1>1, Zenon DEF DuesAreServed, DuesKept, WeekServed

(* Nobody gets less than is due, either: PRO lasts for the days of all     *)
(* payments together, because the row is extended from its own end, and    *)
(* nobody pays for a video while the week's free ones are not used up.     *)
THEOREM DuesAlwaysServed ==
    ASSUME NEW CONSTANT earlier, NEW CONSTANT former
    PROVE  InitEntitlement(earlier, former) /\ [][NextEntitlement]_entitlementVars
             => []DuesAreServed
<1>1. InitEntitlement(earlier, former) => EntitlementTypes /\ DuesKept
  <2>1. SUFFICES ASSUME InitEntitlement(earlier, former) PROVE DuesKept
    BY EntitlementTypesInitially
  <2>2. Current = {} /\ promised.end = 0
    BY <2>1 DEF InitEntitlement, NoSubscription, Current
  <2>3. \A r \in Requests : ~starts[r].asked
    BY <2>1 DEF InitEntitlement, NoStart
  <2> QED
    BY <2>2, <2>3 DEF DuesKept, ProKept
<1>2. EntitlementTypes /\ DuesKept /\ [NextEntitlement]_entitlementVars
        => (EntitlementTypes /\ DuesKept)'
  BY EntitlementTypesKept, DuesStep
<1>3. EntitlementTypes /\ DuesKept => DuesAreServed
  BY DuesHold
<1> QED
  BY <1>1, <1>2, <1>3, PTL

-----------------------------------------------------------------------------
(* Prices of chats and of clips *)

(* Basis points and a minimum: the larger of two amounts is one, is no     *)
(* less than either, and grows with them.                                  *)
LEMMA LargerFacts ==
    \A a, b, c \in Nat : /\ Larger(a, b) \in Nat
                         /\ Larger(a, b) >= a /\ Larger(a, b) >= b
                         /\ a <= c => Larger(a, b) <= Larger(c, b)
BY DEF Larger

(* What may be sold as a chat: any rates, and a policy that quotes one.    *)
ChatPolicies ==
    [computeCost : Nat, paymentFeeBps : Nat, reserveBps : Nat, minimumCharge : Nat,
     minimumClipCharge : Nat, minimumMarginBps : {bps \in Nat : bps < 10000}]

Providers == [priority : Nat, input : Nat, cached : Nat, output : Nat, reasoning : Nat]

Modules == ClipModules \union {"publishing", "title", "test", "default"}

Words == {"highlight", "review", "ranking", "story", "title", "publishing", "segment"}

ChatRequests ==
    [module : Modules \union {"none"}, hint : SUBSET Words, characters : Nat, maxTokens : Nat]

Answers == [told : {TRUE}, input : Nat, cached : Nat, output : Nat, reasoning : Nat]
           \union [told : {FALSE}, output : Nat]

(* Every module has a budget of tokens the router falls back to.           *)
LEMMA BuiltInTypes == BuiltInTokens \in [Modules -> Nat]
BY DEF BuiltInTokens, Modules, ClipModules

(* A service pays a natural that grows with the cost of the provider.      *)
LEMMA ServiceCostFacts ==
    ASSUME NEW p \in ChatPolicies, NEW low \in Nat, NEW high \in Nat, low <= high
    PROVE  /\ ServiceCost(p, low) \in Nat
           /\ ServiceCost(p, low) <= ServiceCost(p, high)
<1>1. PICK compute \in Nat, bps \in Nat :
         compute = p.computeCost /\ bps = p.paymentFeeBps + p.reserveBps
  BY DEF ChatPolicies
<1>2. PICK x \in Nat, y \in Nat : x = low + compute /\ y = high + compute /\ x <= y
  OBVIOUS
<1>3. BpsCharge(x, bps) \in Nat /\ BpsCharge(x, bps) <= BpsCharge(y, bps)
  BY <1>2, BpsChargeFacts
<1>4. y <= y
  OBVIOUS
<1>5. BpsCharge(y, bps) \in Nat
  BY <1>4, BpsChargeFacts
<1>6. ServiceCost(p, low) = x + BpsCharge(x, bps)
  BY <1>1, <1>2 DEF ServiceCost
<1>7. ServiceCost(p, high) = y + BpsCharge(y, bps)
  BY <1>1, <1>2 DEF ServiceCost
<1> QED
  BY <1>2, <1>3, <1>5, <1>6, <1>7

(* So does the charge, and it leaves the margin.                           *)
LEMMA ChatChargeFacts ==
    ASSUME NEW p \in ChatPolicies, NEW module, NEW low \in Nat, NEW high \in Nat, low <= high
    PROVE  /\ QuoteProviderCost(p, low, module) \in Nat
           /\ QuoteProviderCost(p, low, module) <= QuoteProviderCost(p, high, module)
           /\ KeepsMargin(QuoteProviderCost(p, low, module), ServiceCost(p, low),
                          p.minimumMarginBps)
<1>1. PICK margin \in Nat : margin = p.minimumMarginBps /\ margin < 10000
  BY DEF ChatPolicies
<1>2. PICK least \in Nat :
         least = IF module \in ClipModules THEN Larger(p.minimumCharge, p.minimumClipCharge)
                                           ELSE p.minimumCharge
  <2>1. p.minimumCharge \in Nat /\ p.minimumClipCharge \in Nat
    BY DEF ChatPolicies
  <2> QED
    BY <2>1 DEF Larger
<1>3. PICK x \in Nat, y \in Nat : x = ServiceCost(p, low) /\ y = ServiceCost(p, high) /\ x <= y
  <2>1. high <= high
    OBVIOUS
  <2>2. ServiceCost(p, high) \in Nat
    BY <2>1, ServiceCostFacts
  <2> QED
    BY <2>2, ServiceCostFacts
<1>4. margin < 10000
  BY <1>1
<1>5. /\ ProtectedCharge(x, margin) \in Nat
      /\ ProtectedCharge(x, margin) <= ProtectedCharge(y, margin)
  BY <1>3, <1>4, ProtectedChargeFacts
<1>6. y <= y
  OBVIOUS
<1>7. ProtectedCharge(y, margin) \in Nat
  BY <1>4, <1>6, ProtectedChargeFacts
<1>8. QuoteProviderCost(p, low, module) = Larger(ProtectedCharge(x, margin), least)
  BY <1>1, <1>2, <1>3 DEF QuoteProviderCost
<1>9. QuoteProviderCost(p, high, module) = Larger(ProtectedCharge(y, margin), least)
  BY <1>1, <1>2, <1>3 DEF QuoteProviderCost
<1>10. PICK charge \in Nat : /\ charge = QuoteProviderCost(p, low, module)
                             /\ charge >= ProtectedCharge(x, margin)
                             /\ charge <= QuoteProviderCost(p, high, module)
  <2>1. PICK c \in Nat, d \in Nat :
           c = ProtectedCharge(x, margin) /\ d = ProtectedCharge(y, margin) /\ c <= d
    BY <1>5, <1>7
  <2>2. Larger(c, least) \in Nat /\ Larger(c, least) >= c /\ Larger(c, least) <= Larger(d, least)
    BY <2>1, LargerFacts
  <2> QED
    BY <1>8, <1>9, <2>1, <2>2
<1>11. charge >= ProtectedCharge(x, margin)
  BY <1>10
<1>12. KeepsMargin(charge, x, margin)
  BY <1>4, <1>11, MarginLeft
<1> QED
  BY <1>1, <1>3, <1>10, <1>12

(* What an answer is said to have used are numbers, however it is told.    *)
LEMMA UsageTypes ==
    ASSUME NEW r \in ChatRequests, NEW answer \in Answers
    PROVE  /\ NormalizedUsage(r, answer)
                \in [input : Nat, cached : Nat, output : Nat, reasoning : Nat]
           /\ NormalizedUsage(r, answer).cached <= NormalizedUsage(r, answer).input
<1>1. CASE answer \in [told : {TRUE}, input : Nat, cached : Nat, output : Nat, reasoning : Nat]
  <2>1. PICK i \in Nat, c \in Nat, o \in Nat, n \in Nat :
           i = answer.input /\ c = answer.cached /\ o = answer.output /\ n = answer.reasoning
    BY <1>1
  <2>2. answer.told = TRUE
    BY <1>1
  <2>3. PICK known \in Nat : known = Smaller(i, c) /\ known <= i
    BY DEF Smaller
  <2>4. NormalizedUsage(r, answer)
          = [input |-> i, cached |-> known, output |-> o, reasoning |-> n]
    BY <2>1, <2>2, <2>3 DEF NormalizedUsage
  <2> QED
    BY <2>3, <2>4
<1>2. CASE answer \in [told : {FALSE}, output : Nat]
  <2>1. r.characters \in Nat
    BY DEF ChatRequests
  <2>2. CeilDivide(r.characters, 4) \in Nat
    BY <2>1, CeilDivideCovers
  <2>3. PICK estimated \in Nat : estimated = Larger(1, CeilDivide(r.characters, 4))
    BY <2>2 DEF Larger
  <2>4. answer.told = FALSE
    BY <1>2
  <2>5. PICK o \in Nat : o = answer.output
    BY <1>2
  <2>6. NormalizedUsage(r, answer)
          = [input |-> estimated, cached |-> 0, output |-> o, reasoning |-> 0]
    BY <2>3, <2>4, <2>5 DEF NormalizedUsage
  <2> QED
    BY <2>6
<1> QED
  BY <1>1, <1>2 DEF Answers

(* What a provider costs is a natural.                                     *)
LEMMA ProviderCostType ==
    ASSUME NEW p \in Providers,
           NEW u \in [input : Nat, cached : Nat, output : Nat, reasoning : Nat],
           u.cached <= u.input
    PROVE  ProviderCost(p, u) \in Nat
<1>1. PICK i \in Nat, c \in Nat, o \in Nat, n \in Nat :
         i = u.input /\ c = u.cached /\ o = u.output /\ n = u.reasoning /\ c <= i
  OBVIOUS
<1>2. PICK pi \in Nat, po \in Nat : pi = p.input /\ po = p.output
  BY DEF Providers
<1>3. PICK pc \in Nat : pc = IF p.cached > 0 THEN p.cached ELSE p.input
  BY DEF Providers
<1>4. PICK pr \in Nat : pr = IF p.reasoning > 0 THEN p.reasoning ELSE p.output
  BY DEF Providers
<1>5. PICK t \in Nat : t = (i - c) * pi + c * pc + o * po + n * pr
  <2>1. i - c \in Nat
    BY <1>1
  <2>2. (i - c) * pi \in Nat /\ c * pc \in Nat /\ o * po \in Nat /\ n * pr \in Nat
    BY <2>1
  <2> QED
    BY <2>2
<1>6. (t + 5) \div 10 \in Nat
  OBVIOUS
<1>7. CeilDivide((t + 5) \div 10, 100) \in Nat
  BY <1>6, CeilDivideCovers
<1>8. ProviderCost(p, u) = CeilDivide((t + 5) \div 10, 100)
  BY <1>1, <1>2, <1>3, <1>4, <1>5, Zenon DEF ProviderCost
<1> QED
  BY <1>7, <1>8

(* Finitely many numbers have a largest among them: the numbers above it,  *)
(* ordered by inclusion, have a smallest set.                              *)
LEMMA LargestNumber ==
    ASSUME NEW S \in SUBSET Int, IsFiniteSet(S), S # {}
    PROVE  \E a \in S : \A b \in S : a >= b
<1> DEFINE Above(a) == {b \in S : b > a}
           uppers == {Above(a) : a \in S}
<1>1. IsWellFoundedOn(StrictSubsetOrdering(S), FiniteSubsetsOf(S))
  BY FS_StrictSubsetOrderingWellFounded
<1>2. uppers \subseteq FiniteSubsetsOf(S) /\ uppers # {}
  <2>1. \A a \in S : IsFiniteSet(Above(a)) /\ Above(a) \subseteq S
    BY FS_Subset
  <2> QED
    BY <2>1 DEF FiniteSubsetsOf
<1>3. PICK top \in uppers : \A up \in uppers : <<up, top>> \notin StrictSubsetOrdering(S)
  BY <1>1, <1>2, WFMin
<1>4. PICK a \in S : top = Above(a)
  OBVIOUS
<1>5. \A b \in S : a >= b
  <2>1. SUFFICES ASSUME NEW b \in S, b > a PROVE FALSE
    OBVIOUS
  <2>2. \A c \in S : c > b => c > a
    BY <2>1
  <2>3. ~(b > b)
    OBVIOUS
  <2>4. Above(b) \subseteq Above(a) /\ b \in Above(a) /\ b \notin Above(b)
    BY <2>1, <2>2, <2>3
  <2>5. <<Above(b), top>> \in StrictSubsetOrdering(S)
    BY <1>4, <2>4 DEF StrictSubsetOrdering
  <2> QED
    BY <1>3, <2>5
<1> QED
  BY <1>5

(* So is the largest of finitely many rates, and none is above it.         *)
LEMMA LargestFacts ==
    ASSUME NEW S \in SUBSET Nat, IsFiniteSet(S), S # {}
    PROVE  Largest(S) \in Nat /\ \A b \in S : Largest(S) >= b
<1>1. S \in SUBSET Int
  OBVIOUS
<1>2. \E a \in S : \A b \in S : a >= b
  BY <1>1, LargestNumber
<1>3. Largest(S) \in S /\ \A b \in S : Largest(S) >= b
  BY <1>2 DEF Largest
<1> QED
  BY <1>3

(* Whatever the order, the words of a hint name a module.                  *)
LEMMA HintTypes ==
    ASSUME NEW n \in Nat, NEW order \in [1..n -> Modules], NEW words
    PROVE  FirstHint(order, words) \in Modules
<1> DEFINE hits == {i \in 1..n : order[i] \in words}
           mirror == {n - i : i \in hits}
<1>1. CASE hits = {}
  <2>1. FirstHint(order, words) = "default"
    BY <1>1 DEF FirstHint
  <2> QED
    BY <2>1 DEF Modules
<1>2. CASE hits # {}
  <2>1. mirror \in SUBSET Int /\ mirror # {} /\ mirror \in SUBSET (0..n)
    BY <1>2
  <2>2. IsFiniteSet(0..n)
    BY FS_Interval
  <2>3. IsFiniteSet(mirror)
    BY <2>1, <2>2, FS_Subset
  <2>4. PICK a \in mirror : \A b \in mirror : a >= b
    BY <2>1, <2>3, LargestNumber
  <2>5. PICK first \in hits : a = n - first
    OBVIOUS
  <2>6. \A j \in hits : first <= j
    <3>1. TAKE j \in hits
    <3>2. n - j \in mirror
      OBVIOUS
    <3>3. a >= n - j
      BY <2>4, <3>2
    <3>4. first \in Int /\ j \in Int
      OBVIOUS
    <3> QED
      BY <2>5, <3>3, <3>4
  <2>7. \E i \in hits : \A j \in hits : i <= j
    BY <2>6
  <2>8. (CHOOSE i \in hits : \A j \in hits : i <= j) \in hits
    BY <2>7
  <2>9. FirstHint(order, words) = order[CHOOSE i \in hits : \A j \in hits : i <= j]
    BY <1>2 DEF FirstHint
  <2> QED
    BY <2>8, <2>9
<1> QED
  BY <1>1, <1>2

LEMMA RequestModules ==
    ASSUME NEW r \in ChatRequests
    PROVE  ModuleFromRequest(r) \in Modules /\ ModuleForRequest(r) \in Modules
<1>1. PricingOrder \in [1..6 -> Modules] /\ RouterOrder \in [1..6 -> Modules]
  BY DEF PricingOrder, RouterOrder, Modules, ClipModules
<1>2. \A words : /\ FirstHint(PricingOrder, words) \in Modules
                 /\ FirstHint(RouterOrder, words) \in Modules
  BY <1>1, HintTypes
<1>3. r.module # "none" => r.module \in Modules
  BY DEF ChatRequests
<1> QED
  BY <1>2, <1>3 DEF ModuleFromRequest, ModuleForRequest

(* The budgets of the routes that are enabled.                             *)
Budgets == UNION {[S -> Nat] : S \in SUBSET Modules}

(* No more tokens are asked of a provider than were estimated.             *)
LEMMA OutputIsEstimated ==
    ASSUME NEW r \in ChatRequests, NEW budgets \in Budgets,
           ModuleForRequest(r) = ModuleFromRequest(r),
           ModuleForRequest(r) \in DOMAIN budgets \/ r.maxTokens > 0
    PROVE  /\ RouterTokens(r, budgets) \in Nat /\ EstimatedOutput(r, budgets) \in Nat
           /\ RouterTokens(r, budgets) <= EstimatedOutput(r, budgets)
<1>1. PICK module \in Modules : module = ModuleFromRequest(r) /\ module = ModuleForRequest(r)
  BY RequestModules
<1>2. PICK most \in Nat : most = IF module \in DOMAIN budgets THEN budgets[module]
                                                            ELSE BuiltInTokens[module]
  BY BuiltInTypes DEF Budgets
<1>3. PICK asked \in Nat : asked = r.maxTokens
  BY DEF ChatRequests
<1>4. RouterTokens(r, budgets) = Larger(32, IF asked > 0 THEN Smaller(most, asked) ELSE most)
  BY <1>1, <1>2, <1>3 DEF RouterTokens
<1>5. CASE asked > 0
  <2>1. EstimatedOutput(r, budgets) = Larger(32, asked)
    BY <1>3, <1>5 DEF EstimatedOutput
  <2> QED
    BY <1>4, <1>5, <2>1 DEF Larger, Smaller
<1>6. CASE asked = 0
  <2>1. module \in DOMAIN budgets
    BY <1>1, <1>3, <1>6
  <2>2. EstimatedOutput(r, budgets) = Larger(32, most)
    BY <1>1, <1>2, <1>3, <1>6, <2>1 DEF EstimatedOutput
  <2> QED
    BY <1>4, <1>6, <2>2 DEF Larger
<1> QED
  BY <1>5, <1>6

(* The rounding of a cost in two steps is not above that in one.           *)
LEMMA RoundedOnce ==
    ASSUME NEW t \in Nat, NEW most \in Nat, t <= most
    PROVE  CeilDivide((t + 5) \div 10, 100) <= CeilDivide(most, 1000)
BY DEF CeilDivide

(* What may come of an answer costs no more than what was estimated.       *)
LEMMA EstimateCoversCost ==
    ASSUME NEW r \in ChatRequests, NEW budgets \in Budgets,
           NEW providers \in SUBSET Providers, IsFiniteSet(providers),
           NEW p \in providers, p.cached <= p.input,
           NEW u \in [input : Nat, cached : Nat, output : Nat, reasoning : Nat],
           u.cached <= u.input, u.reasoning = 0,
           u.input <= EstimatedInput(r), u.output <= EstimatedOutput(r, budgets),
           EstimatedOutput(r, budgets) \in Nat
    PROVE  /\ EstimatedChatCost(r, budgets, providers) \in Nat
           /\ ProviderCost(p, u) <= EstimatedChatCost(r, budgets, providers)
<1> DEFINE inputs == {q.input : q \in providers} \union {0}
           outputs == {q.output : q \in providers} \union {0}
<1>1. inputs \in SUBSET Nat /\ outputs \in SUBSET Nat
  BY DEF Providers
<1>2. IsFiniteSet(inputs) /\ IsFiniteSet(outputs)
  <2>1. [q \in providers |-> q.input] \in Surjection(providers, {q.input : q \in providers})
    BY DEF Surjection
  <2>2. [q \in providers |-> q.output] \in Surjection(providers, {q.output : q \in providers})
    BY DEF Surjection
  <2>3. /\ IsFiniteSet({q.input : q \in providers})
        /\ IsFiniteSet({q.output : q \in providers})
    BY <2>1, <2>2, FS_Surjection, Zenon
  <2> QED
    BY <2>3, FS_AddElement
<1>3. PICK top \in Nat : top = Largest(inputs) /\ \A b \in inputs : top >= b
  BY <1>1, <1>2, LargestFacts
<1>4. PICK dear \in Nat : dear = Largest(outputs) /\ \A b \in outputs : dear >= b
  BY <1>1, <1>2, LargestFacts
<1>5. PICK pi \in Nat, po \in Nat : /\ pi = p.input /\ po = p.output
                                    /\ pi <= top /\ po <= dear
  <2>1. p.input \in inputs /\ p.output \in outputs
    OBVIOUS
  <2> QED
    BY <1>1, <1>3, <1>4, <2>1
<1>6. PICK pc \in Nat : pc = (IF p.cached > 0 THEN p.cached ELSE p.input) /\ pc <= pi
  BY <1>5 DEF Providers
<1>7. PICK pr \in Nat : pr = IF p.reasoning > 0 THEN p.reasoning ELSE p.output
  BY DEF Providers
<1>8. PICK ei \in Nat, eo \in Nat : ei = EstimatedInput(r) /\ eo = EstimatedOutput(r, budgets)
  <2>1. r.characters \in Nat
    BY DEF ChatRequests
  <2>2. r.characters * 5 \in Nat
    BY <2>1
  <2>3. CeilDivide(r.characters * 5, 16) \in Nat
    BY <2>2, CeilDivideCovers
  <2>4. EstimatedInput(r) \in Nat
    BY <2>3 DEF EstimatedInput, Larger
  <2> QED
    BY <2>4
<1>9. PICK i \in Nat, c \in Nat, o \in Nat :
         i = u.input /\ c = u.cached /\ o = u.output /\ c <= i /\ i <= ei /\ o <= eo
  BY <1>8
<1> HIDE DEF inputs, outputs
<1>10. PICK most \in Nat : most = ei * top + eo * dear
  OBVIOUS
<1>11. PICK t \in Nat : t = (i - c) * pi + c * pc + o * po + 0 * pr /\ t <= most
  <2>1. \A a, b, x, y \in Nat : a <= b /\ x <= y => a * x \in Nat /\ a * x <= b * y
    <3>1. \A a, b, x \in Nat : a <= b => a * x \in Nat /\ b * x \in Nat /\ a * x <= b * x
      OBVIOUS
    <3>2. \A b, x, y \in Nat : x <= y => b * y \in Nat /\ b * x <= b * y
      OBVIOUS
    <3>3. \A k, m, n \in Nat : k <= m /\ m <= n => k <= n
      OBVIOUS
    <3> QED
      BY <3>1, <3>2, <3>3
  <2>2. PICK fresh \in Nat : fresh = i - c /\ fresh + c = i
    BY <1>9
  <2>3. c * pc \in Nat /\ c * pc <= c * pi /\ c * pi \in Nat
    BY <2>1, <1>6
  <2>4. fresh * pi + c * pi = i * pi
    BY <2>2
  <2>5. i * pi \in Nat /\ i * pi <= ei * top /\ ei * top \in Nat
    BY <2>1, <1>5, <1>9
  <2>6. o * po \in Nat /\ o * po <= eo * dear /\ eo * dear \in Nat
    BY <2>1, <1>5, <1>9
  <2>7. fresh * pi \in Nat /\ 0 * pr = 0
    BY <2>2
  <2> QED
    BY <1>10, <2>2, <2>3, <2>4, <2>5, <2>6, <2>7
<1>12. ProviderCost(p, u) = CeilDivide((t + 5) \div 10, 100)
  BY <1>5, <1>6, <1>7, <1>9, <1>11 DEF ProviderCost
<1>13. EstimatedChatCost(r, budgets, providers) = CeilDivide(most, 1000)
  BY <1>3, <1>4, <1>8, <1>10 DEF EstimatedChatCost, inputs, outputs
<1>14. t <= most
  BY <1>11
<1>15. CeilDivide((t + 5) \div 10, 100) <= CeilDivide(most, 1000)
  BY <1>14, RoundedOnce
<1>16. CeilDivide(most, 1000) \in Nat
  BY CeilDivideCovers
<1> QED
  BY <1>12, <1>13, <1>15, <1>16

(* What may be sold as clips: any number of clips at any scores.           *)
ClipPolicies ==
    [creditValue : Nat \ {0}, infrastructureFee : Nat, paymentFeeBps : Nat,
     safetyBufferBps : Nat, retryAllowanceBps : Nat, minimumMarginBps : Nat,
     targetMarginBps : {bps \in Nat : bps < 10000}, minimumJobCredits : Nat,
     maximumJobCredits : Nat, baseCredits : Nat, tierCredits : [Tiers -> Nat],
     optionalScoreMin : Nat, goodScoreMin : Nat, premiumScoreMin : Nat,
     hardProviderCost : Nat]

(* Each clip of a priced tier adds its credits to the base.                *)
LEMMA QualityType ==
    ASSUME NEW p \in ClipPolicies, NEW S, IsFiniteSet(S), NEW scores \in [S -> Nat]
    PROVE  QualityCredits(p, scores) \in Nat
<1> DEFINE paid == [s \in DOMAIN scores |->
                       LET tier == ClassifyClipScore(p, s)
                       IN  IF tier \in Tiers THEN scores[s] * p.tierCredits[tier] ELSE 0]
<1>1. \A s \in S, tier \in Tiers : scores[s] * p.tierCredits[tier] \in Nat
  <2>1. TAKE s \in S, tier \in Tiers
  <2>2. PICK clips \in Nat, credits \in Nat :
           clips = scores[s] /\ credits = p.tierCredits[tier]
    BY DEF ClipPolicies
  <2> QED
    BY <2>2
<1>2. paid \in [S -> Nat]
  BY <1>1
<1>3. SumOf(paid) \in Nat
  BY <1>2, SumType
<1>4. QualityCredits(p, scores) = p.baseCredits + SumOf(paid)
  BY DEF QualityCredits
<1>5. p.baseCredits \in Nat
  BY DEF ClipPolicies
<1> HIDE DEF paid
<1> QED
  BY <1>3, <1>4, <1>5

(* The cost of a job grows with that of its provider, and a job without a  *)
(* result costs no more than one with it.                                  *)
LEMMA ClipCostFacts ==
    ASSUME NEW p \in ClipPolicies, NEW low \in Nat, NEW high \in Nat, low <= high,
           NEW result \in BOOLEAN
    PROVE  /\ ClipInternalCost(p, low, result) \in Nat
           /\ ClipInternalCost(p, low, result) <= ClipInternalCost(p, high, TRUE)
<1>1. PICK fee \in Nat, bps \in Nat : fee = p.infrastructureFee /\ bps = OverheadBps(p)
  BY DEF ClipPolicies, OverheadBps
<1>2. PICK x \in Nat : x = low + (IF result THEN fee ELSE 0) /\ x <= low + fee
  OBVIOUS
<1>3. PICK y \in Nat : y = high + fee
  OBVIOUS
<1>4. x <= y
  <2>1. x <= low + fee
    BY <1>2, Zenon
  <2> QED
    BY <1>3, <2>1
<1>5. BpsCharge(x, bps) \in Nat /\ BpsCharge(x, bps) <= BpsCharge(y, bps)
  BY <1>4, BpsChargeFacts
<1>6. y <= y
  OBVIOUS
<1>7. BpsCharge(y, bps) \in Nat
  BY <1>6, BpsChargeFacts
<1>8. ClipInternalCost(p, low, result) = x + BpsCharge(x, bps)
  BY <1>1, <1>2 DEF ClipInternalCost
<1>9. ClipInternalCost(p, high, TRUE) = y + BpsCharge(y, bps)
  BY <1>1, <1>3 DEF ClipInternalCost
<1>10. /\ x + BpsCharge(x, bps) \in Nat
      /\ x + BpsCharge(x, bps) <= y + BpsCharge(y, bps)
  BY <1>4, <1>5, <1>7
<1> QED
  BY <1>8, <1>9, <1>10, Zenon

(* In credits, too; and these credits are worth a price with the margin.   *)
LEMMA ProtectedCreditsFacts ==
    ASSUME NEW p \in ClipPolicies, NEW low \in Nat, NEW high \in Nat, low <= high,
           NEW result \in BOOLEAN
    PROVE  /\ ProtectedCredits(p, low, result) \in Nat
           /\ ProtectedCredits(p, high, TRUE) \in Nat
           /\ ProtectedCredits(p, low, result) <= ProtectedCredits(p, high, TRUE)
           /\ p.creditValue * ProtectedCredits(p, low, result)
                >= ProtectedCharge(ClipInternalCost(p, low, result), p.targetMarginBps)
<1>1. PICK margin \in Nat, credit \in Nat \ {0} :
         margin = p.targetMarginBps /\ credit = p.creditValue
  BY DEF ClipPolicies
<1>2. PICK x \in Nat, y \in Nat : /\ x = ClipInternalCost(p, low, result)
                                  /\ y = ClipInternalCost(p, high, TRUE)
                                  /\ x <= y
  <2>1. high <= high
    OBVIOUS
  <2>2. ClipInternalCost(p, high, TRUE) \in Nat
    BY <2>1, ClipCostFacts
  <2> QED
    BY <2>2, ClipCostFacts
<1>3. margin < 10000 /\ y <= y
  BY <1>1 DEF ClipPolicies
<1>4. PICK c \in Nat, d \in Nat :
         c = ProtectedCharge(x, margin) /\ d = ProtectedCharge(y, margin) /\ c <= d
  <2>1. x <= y
    BY <1>2, Zenon
  <2>2. /\ ProtectedCharge(x, margin) \in Nat
        /\ ProtectedCharge(x, margin) <= ProtectedCharge(y, margin)
    BY <2>1, <1>3, ProtectedChargeFacts
  <2>3. ProtectedCharge(y, margin) \in Nat
    BY <1>3, ProtectedChargeFacts
  <2> QED
    BY <2>2, <2>3
<1>5. CeilDivide(c, credit) \in Nat /\ credit * CeilDivide(c, credit) >= c
  BY CeilDivideCovers
<1>6. CeilDivide(d, credit) \in Nat
  BY CeilDivideCovers
<1>7. CeilDivide(c, credit) <= CeilDivide(d, credit)
  BY <1>4, CeilDivideMonotone
<1>8. ProtectedCredits(p, low, result) = CeilDivide(c, credit)
  BY <1>1, <1>2, <1>4 DEF ProtectedCredits
<1>9. ProtectedCredits(p, high, TRUE) = CeilDivide(d, credit)
  BY <1>1, <1>2, <1>4 DEF ProtectedCredits
<1>10. ProtectedCharge(ClipInternalCost(p, low, result), p.targetMarginBps) = c
  BY <1>1, <1>2, <1>4, Zenon
<1>11. p.creditValue = credit
  BY <1>1
<1> QED
  BY <1>5, <1>6, <1>7, <1>8, <1>9, <1>10, <1>11, Zenon

(* The charge for clips pays for them with the margin, whether the maximum *)
(* is kept or not; within the hard limit it is kept.                       *)
LEMMA ClipChargeFacts ==
    ASSUME NEW p \in ClipPolicies, NEW money \in Nat, NEW S, IsFiniteSet(S),
           NEW scores \in [S -> Nat]
    PROVE  LET quote == QuoteClipJob(p, money, scores, TRUE)
           IN  /\ quote.charge \in Nat
               /\ quote.charge >= ProtectedCredits(p, money, TRUE)
<1>1. PICK quality \in Nat : quality = QualityCredits(p, scores)
  BY QualityType
<1>2. money <= money
  OBVIOUS
<1>3. PICK protected \in Nat : protected = ProtectedCredits(p, money, TRUE)
  BY <1>2, ProtectedCreditsFacts
<1>4. PICK least \in Nat, limit \in Nat :
         least = p.minimumJobCredits /\ limit = p.maximumJobCredits
  BY DEF ClipPolicies
<1>5. PICK price \in Nat : /\ price = Larger(Larger(quality, least), protected)
                           /\ price >= protected
  BY DEF Larger
<1>6. QuoteClipJob(p, money, scores, TRUE).charge
        = IF protected <= limit THEN Smaller(price, limit) ELSE price
  BY <1>1, <1>3, <1>4, <1>5 DEF QuoteClipJob
<1> QED
  BY <1>5, <1>6, <1>3 DEF Smaller

LEMMA ClipReservationFacts ==
    ASSUME NEW p \in ClipPolicies, ValidClipPolicy(p),
           NEW money \in Nat, money <= p.hardProviderCost, NEW S, IsFiniteSet(S),
           NEW scores \in [S -> Nat], NEW result \in BOOLEAN
    PROVE  LET quote == QuoteClipJob(p, money, scores, result)
           IN  quote.capSafe /\ quote.charge <= quote.reservation
<1>1. PICK quality \in Nat : quality = QualityCredits(p, scores)
  BY QualityType
<1>2. PICK hard \in Nat : hard = p.hardProviderCost /\ money <= hard
  BY DEF ClipPolicies
<1>3. money <= hard
  BY <1>2
<1>4. PICK most \in Nat : most = ProtectedCredits(p, hard, TRUE)
  BY <1>3, ProtectedCreditsFacts
<1>5. PICK protected \in Nat : protected = ProtectedCredits(p, money, result)
  BY <1>3, ProtectedCreditsFacts
<1>6. protected <= most
  <2>1. ProtectedCredits(p, money, result) <= ProtectedCredits(p, hard, TRUE)
    BY <1>3, ProtectedCreditsFacts
  <2> QED
    BY <1>4, <1>5, <2>1, Zenon
<1>7. PICK least \in Nat, limit \in Nat :
         least = p.minimumJobCredits /\ limit = p.maximumJobCredits
  BY DEF ClipPolicies
<1>8. most <= limit
  <2>1. ProtectedCredits(p, p.hardProviderCost, TRUE) <= p.maximumJobCredits
    BY PTL DEF ValidClipPolicy
  <2>2. p.hardProviderCost = hard
    BY <1>2, Zenon
  <2> QED
    BY <1>4, <1>7, <2>1, <2>2, Zenon
<1>9. protected <= limit
  BY <1>6, <1>8
<1>10. PICK price \in Nat : price = IF result THEN Larger(Larger(quality, least), protected) ELSE 0
  BY DEF Larger
<1>11. /\ QuoteClipJob(p, money, scores, result).charge
           = IF protected <= limit THEN Smaller(price, limit) ELSE price
      /\ QuoteClipJob(p, money, scores, result).reservation = limit
      /\ QuoteClipJob(p, money, scores, result).capSafe = (protected <= limit)
  BY <1>1, <1>5, <1>7, <1>10 DEF QuoteClipJob
<1>12. Smaller(price, limit) <= limit
  BY DEF Smaller
<1> QED
  BY <1>9, <1>11, <1>12, Zenon

-----------------------------------------------------------------------------
(* Any environment an API may start in *)

TopUpRows ==
    [rate : Int, min : Int, max : Int, serviceFee : Int, codeMin : Int, codeMax : Int,
     uniqueCode : BOOLEAN]

Texts == [plain : BOOLEAN, value : Int]

(* Of the environment the two amounts are texts. *)
TopUpTexts ==
    [rate : Int, min : Texts, max : Texts, serviceFee : Int, codeMin : Int, codeMax : Int,
     uniqueCode : BOOLEAN]

AnyEnvironment ==
    /\ input.displayRate \in Nat /\ input.platformRate \in Nat
    /\ input.topUps \in TopUpTexts

LEMMA BoundTypes ==
    LeastRate \in Nat /\ MostRate \in Nat /\ MostFee \in Nat /\ MostCode \in Nat
BY DEF LeastRate, MostRate, MostFee, MostCode

(* Every amount that valid settings allow can be paid, whatever the code,  *)
(* and costs at least its worth at the exchange rate.                      *)
LEMMA ValidIsQuotable ==
    ASSUME NEW s \in TopUpRows, ValidTopUps(s), s.min \in Nat,
           NEW purchase \in s.min..s.max, NEW code \in UniqueCodes(s)
    PROVE  /\ Quotable(s, purchase, code)
           /\ Total(s, purchase, code) * MicroPerUsd >= purchase * s.rate
<1>1. PICK rate \in Nat, min \in Nat, max \in Nat, fee \in Nat :
         rate = s.rate /\ min = s.min /\ max = s.max /\ fee = s.serviceFee
  <2>1. s.rate \in LeastRate..MostRate /\ s.serviceFee \in 0..MostFee /\ s.min <= s.max
    BY PTL DEF ValidTopUps
  <2>2. s.max \in Int
    BY DEF TopUpRows
  <2>3. s.rate \in Nat
    BY <2>1, BoundTypes
  <2>4. s.serviceFee \in Nat
    BY <2>1
  <2>5. s.max \in Nat
    <3>1. s.min <= s.max
      BY <2>1, PTL
    <3> QED
      BY <2>2, <3>1
  <2> QED
    BY <2>3, <2>4, <2>5
<1>2. PICK top \in Nat : top = (IF s.uniqueCode THEN s.codeMax ELSE 0)
  <2>1. s.codeMax \in 0..MostCode
    BY PTL DEF ValidTopUps
  <2>2. s.codeMax \in Nat
    BY <2>1
  <2> QED
    BY <2>2
<1>3. Total(s, max, top) <= QrisLimit
  <2>1. Total(s, s.max, IF s.uniqueCode THEN s.codeMax ELSE 0) <= QrisLimit
    BY PTL DEF ValidTopUps
  <2> QED
    BY <1>1, <1>2, <2>1, Zenon
<1>4. code \in Nat /\ code <= top
  <2>1. s.codeMin \in 0..MostCode
    BY PTL DEF ValidTopUps
  <2>2. s.codeMin \in Nat
    BY <2>1
  <2>3. CASE s.uniqueCode = TRUE
    <3>1. code \in s.codeMin..s.codeMax
      BY <2>3 DEF UniqueCodes
    <3>2. s.codeMax = top
      BY <1>2, <2>3
    <3> QED
      BY <2>2, <3>1, <3>2
  <2>4. CASE s.uniqueCode = FALSE
    BY <2>4 DEF UniqueCodes
  <2> QED
    BY <2>3, <2>4 DEF TopUpRows
<1>5. PICK amount \in Nat : amount = purchase /\ amount <= max
  BY <1>1
<1>6. PICK x \in Nat, y \in Nat :
         x = Subtotal(amount, rate) /\ y = Subtotal(max, rate)
         /\ x <= y /\ MicroPerUsd * x >= amount * rate
  <2>1. amount * rate \in Nat /\ max * rate \in Nat /\ amount * rate <= max * rate
    BY <1>5
  <2>2. MicroPerUsd \in Nat \ {0}
    BY StartUpAssumption
  <2>3. CeilDivide(amount * rate, MicroPerUsd) <= CeilDivide(max * rate, MicroPerUsd)
    BY <2>1, <2>2, CeilDivideMonotone
  <2>4. /\ CeilDivide(amount * rate, MicroPerUsd) \in Nat
        /\ MicroPerUsd * CeilDivide(amount * rate, MicroPerUsd) >= amount * rate
    BY <2>1, <2>2, CeilDivideCovers
  <2>5. CeilDivide(max * rate, MicroPerUsd) \in Nat
    BY <2>1, <2>2, CeilDivideCovers
  <2> QED
    BY <2>3, <2>4, <2>5 DEF Subtotal
<1>7. Total(s, purchase, code) = x + fee + code
  BY <1>1, <1>5, <1>6 DEF Total
<1>8. Total(s, max, top) = y + fee + top
  BY <1>1, <1>6 DEF Total
<1>9. QrisLimit \in Nat /\ MicroPerUsd \in Nat
  BY StartUpAssumption
<1>10. Total(s, purchase, code) <= QrisLimit
  BY <1>3, <1>4, <1>6, <1>7, <1>8, <1>9
<1>11. (x + fee + code) * MicroPerUsd >= amount * rate
  <2>1. PICK rest \in Nat : rest = fee + code
    BY <1>4
  <2>2. (x + rest) * MicroPerUsd = MicroPerUsd * x + rest * MicroPerUsd
    BY <1>9
  <2>3. rest * MicroPerUsd \in Nat /\ MicroPerUsd * x \in Nat /\ amount * rate \in Nat
    BY <1>9
  <2>4. x + fee + code = x + rest
    BY <1>4, <2>1
  <2> QED
    BY <1>6, <2>2, <2>3, <2>4
<1> QED
  BY <1>1, <1>5, <1>7, <1>10, <1>11, Zenon DEF Quotable

(* Where the environment is read alike, what the start accepts the         *)
(* services read as valid settings.                                        *)
LEMMA StartedSettings ==
    ASSUME NEW env, env.displayRate \in Nat, env.platformRate \in Nat,
           env.topUps \in TopUpTexts, Starts(env), ReadAlike(env)
    PROVE  /\ EnvironmentTopUps(env) \in TopUpRows
           /\ ValidTopUps(EnvironmentTopUps(env))
           /\ EnvironmentTopUps(env).min \in Nat
<1>1. PICK s \in TopUpTexts : s = env.topUps
  OBVIOUS
<1>2. PICK rate \in Nat : /\ rate = env.displayRate /\ rate > 0
                          /\ rate \in LeastRate..MostRate
  <2>1. env.displayRate \in LeastRate..MostRate
    BY Zenon DEF ReadAlike
  <2>2. LeastRate > 0
    BY DEF LeastRate
  <2> QED
    BY <2>1, <2>2, BoundTypes
<1>3. StartRate(env) = rate
  BY <1>2 DEF StartRate
<1>4. PICK t : t = EnvironmentTopUps(env)
  OBVIOUS
<1>5. PICK least \in Int, most \in Int, fee \in Int, low \in Int, high \in Int :
         /\ least = s.min.value /\ most = s.max.value /\ fee = s.serviceFee
         /\ low = s.codeMin /\ high = s.codeMax
  BY DEF TopUpTexts, Texts
<1>6. /\ least > 0 /\ most >= least /\ fee >= 0 /\ low >= 0 /\ high >= low
      /\ Subtotal(most, rate) + fee + high <= QrisLimit
  <2>1. /\ env.topUps.min.value > 0 /\ env.topUps.max.value >= env.topUps.min.value
        /\ env.topUps.serviceFee >= 0
        /\ env.topUps.codeMin >= 0 /\ env.topUps.codeMax >= env.topUps.codeMin
        /\ Subtotal(env.topUps.max.value, StartRate(env)) + env.topUps.serviceFee
             + env.topUps.codeMax <= QrisLimit
    BY Zenon DEF Starts, ValidTopUpsAtStart
  <2> QED
    BY <1>1, <1>3, <1>5, <2>1
<1>7. /\ EnvironmentUsd(s.min, LeastTopUp) = least
      /\ EnvironmentUsd(s.max, MostTopUp) = most
  <2>1. s.min.plain /\ s.max.plain
    BY <1>1, Zenon DEF ReadAlike
  <2>2. s.min.value > 0 /\ s.max.value > 0
    BY <1>5, <1>6
  <2> QED
    BY <1>5, <2>1, <2>2 DEF EnvironmentUsd
<1>8. /\ t \in TopUpRows /\ t.rate = rate /\ t.min = least /\ t.max = most
      /\ t.serviceFee = s.serviceFee /\ t.codeMin = s.codeMin /\ t.codeMax = s.codeMax
      /\ t.uniqueCode = s.uniqueCode
  <2>1. DisplayRate(env) = rate
    BY <1>2 DEF DisplayRate
  <2>2. EnvironmentUsd(env.topUps.min, LeastTopUp) = least
    BY <1>1, <1>7, Zenon
  <2>3. EnvironmentUsd(env.topUps.max, MostTopUp) = most
    BY <1>1, <1>7, Zenon
  <2>4. t = [s EXCEPT !.rate = rate, !.min = least, !.max = most]
    BY <1>1, <1>4, <2>1, <2>2, <2>3, Zenon DEF EnvironmentTopUps
  <2>5. s \in [rate : Int, min : Texts, max : Texts, serviceFee : Int, codeMin : Int,
               codeMax : Int, uniqueCode : BOOLEAN]
    BY DEF TopUpTexts
  <2>6. t = [rate |-> rate, min |-> least, max |-> most, serviceFee |-> s.serviceFee,
             codeMin |-> s.codeMin, codeMax |-> s.codeMax, uniqueCode |-> s.uniqueCode]
    BY <2>5, <2>4
  <2>7. /\ s.serviceFee \in Int /\ s.codeMin \in Int /\ s.codeMax \in Int
        /\ s.uniqueCode \in BOOLEAN
    BY <2>5
  <2> QED
    BY <2>6, <2>7 DEF TopUpRows
<1>9. fee <= MostFee /\ high <= MostCode
  BY <1>1, <1>5 DEF ReadAlike
<1>10. /\ fee \in 0..MostFee /\ low \in 0..MostCode /\ high \in 0..MostCode
       /\ least \in Nat /\ most \in Nat
  BY <1>6, <1>9, BoundTypes
<1>11. Total(t, most, IF t.uniqueCode THEN t.codeMax ELSE 0) <= QrisLimit
  <2>1. PICK code \in Nat : code = (IF t.uniqueCode THEN t.codeMax ELSE 0) /\ code <= high
    BY <1>8, <1>5, <1>10
  <2>2. most * rate \in Nat /\ MicroPerUsd \in Nat \ {0} /\ QrisLimit \in Nat
    BY <1>10, StartUpAssumption
  <2>3. CeilDivide(most * rate, MicroPerUsd) \in Nat
    BY <2>2, CeilDivideCovers
  <2>4. Subtotal(most, rate) \in Nat
    BY <2>3 DEF Subtotal
  <2>5. Total(t, most, code) = Subtotal(most, rate) + fee + code
    BY <1>8, <1>5 DEF Total
  <2>6. Subtotal(most, rate) + fee + code <= QrisLimit
    BY <1>6, <2>1, <2>2, <2>4
  <2> QED
    BY <2>1, <2>5, <2>6, Zenon
<1>12. ValidTopUps(t)
  BY <1>2, <1>8, <1>5, <1>6, <1>10, <1>11, Zenon DEF ValidTopUps
<1> QED
  BY <1>4, <1>8, <1>5, <1>10, <1>12

(* Settings an administrator may have stored are rows, too.                *)
LEMMA StoredRows == \A s \in TopUpGrid : s \in TopUpRows /\ s.min \in Nat
BY DEF TopUpGrid, TopUpRows

LEMMA StartSells == ASSUME AnyEnvironment PROVE StartedCanSell
<1>1. SUFFICES ASSUME Starts(input), ReadAlike(input)
               PROVE  /\ HasActiveProvider(input)
                      /\ \A stored \in {{}} \union {{s} : s \in {t \in TopUpGrid : ValidTopUps(t)}} :
                            /\ ReadTopUps(input, stored) # {}
                            /\ \A s \in ReadTopUps(input, stored) :
                                  \A purchase \in {s.min, (s.min + s.max) \div 2, s.max},
                                     code \in UniqueCodes(s) :
                                      /\ Quotable(s, purchase, code)
                                      /\ Total(s, purchase, code) * MicroPerUsd >= purchase * s.rate
  BY Zenon DEF StartedCanSell
<1>2. HasActiveProvider(input)
  <2>1. /\ input.provider \in {"sandbox", "midtrans", "xendit"}
        /\ input.provider # "sandbox" => input.keys
    BY <1>1, Zenon DEF Starts, ValidProvider
  <2>2. SwitchedOn(input.enabled) /\ (input.provider = "sandbox" => input.sandboxAllowed)
    BY <1>1, Zenon DEF ReadAlike
  <2> QED
    BY <2>1, <2>2 DEF HasActiveProvider
<1>3. PICK own \in TopUpRows : /\ own = EnvironmentTopUps(input)
                               /\ ValidTopUps(own) /\ own.min \in Nat
  BY <1>1, StartedSettings, Zenon DEF AnyEnvironment
<1>4. SUFFICES ASSUME NEW stored \in {{}} \union {{s} : s \in {t \in TopUpGrid : ValidTopUps(t)}}
               PROVE  /\ ReadTopUps(input, stored) # {}
                      /\ \A s \in ReadTopUps(input, stored) :
                            \A purchase \in {s.min, (s.min + s.max) \div 2, s.max},
                               code \in UniqueCodes(s) :
                                /\ Quotable(s, purchase, code)
                                /\ Total(s, purchase, code) * MicroPerUsd >= purchase * s.rate
  BY <1>2, Zenon
<1>5. PICK s \in TopUpRows : /\ ReadTopUps(input, stored) = {s}
                             /\ ValidTopUps(s) /\ s.min \in Nat
  <2>1. CASE stored = {}
    BY <1>3, <2>1, Zenon DEF ReadTopUps
  <2>2. CASE stored # {}
    <3>1. PICK s \in TopUpGrid : stored = {s} /\ ValidTopUps(s)
      BY <2>2
    <3>2. (CHOOSE x \in stored : TRUE) = s
      BY <3>1
    <3>3. ReadTopUps(input, stored) = {s}
      BY <1>3, <2>2, <3>2, Zenon DEF ReadTopUps
    <3> QED
      BY <3>1, <3>3, StoredRows, Zenon
  <2> QED
    BY <2>1, <2>2
<1>6. \A purchase \in s.min..s.max, code \in UniqueCodes(s) :
         /\ Quotable(s, purchase, code)
         /\ Total(s, purchase, code) * MicroPerUsd >= purchase * s.rate
  BY <1>5, ValidIsQuotable
<1>7. {s.min, (s.min + s.max) \div 2, s.max} \subseteq s.min..s.max
  <2>1. s.min \in Int /\ s.max \in Int
    BY DEF TopUpRows
  <2>2. s.min <= s.max
    BY <1>5, PTL DEF ValidTopUps
  <2> QED
    BY <2>1, <2>2
<1> QED
  BY <1>5, <1>6, <1>7, Zenon

-----------------------------------------------------------------------------
(* Any question *)

AnyJob ==
    /\ ValidPolicy(policy) /\ cost \in Nat /\ usable \in BOOLEAN
    /\ input \in [seconds : Nat, clips : Nat]

AnyChat ==
    /\ policy \in ChatPolicies
    /\ input.request \in ChatRequests /\ input.budgets \in Budgets
    /\ input.providers \in SUBSET Providers /\ IsFiniteSet(input.providers)
    /\ input.provider \in input.providers /\ input.answer \in Answers

AnyClips ==
    /\ policy \in ClipPolicies /\ ValidClipPolicy(policy)
    /\ cost \in Nat /\ usable \in BOOLEAN
    /\ \E scores \in SUBSET Nat : IsFiniteSet(scores) /\ input \in [scores -> Nat]

(* What the grids of the run are a part of.                                *)
Asked == /\ question = "jobs" => AnyJob
         /\ question = "chats" => AnyChat
         /\ question = "clips" => AnyClips
         /\ question = "start" => AnyEnvironment

LEMMA AskedStays == Asked /\ [Next]_<<question, quoteVars, entitlementVars>> => Asked'
<1>1. SUFFICES ASSUME Asked, [Next]_<<question, quoteVars, entitlementVars>> PROVE Asked'
  OBVIOUS
<1>2. UNCHANGED <<question, policy, cost, input>> /\ (usable' = usable \/ usable' = FALSE)
  BY <1>1 DEF Next, Reject, quoteVars
<1>3. (AnyJob => AnyJob') /\ (AnyChat => AnyChat') /\ (AnyClips => AnyClips')
      /\ (AnyEnvironment => AnyEnvironment')
  <2>1. usable \in BOOLEAN => usable' \in BOOLEAN
    BY <1>2
  <2> QED
    BY <1>2, <2>1 DEF AnyJob, AnyChat, AnyClips, AnyEnvironment
<1> QED
  BY <1>1, <1>2, <1>3 DEF Asked

LEMMA JobMargin ==
    ASSUME AnyJob, TheQuote.userCharge > 0
    PROVE  KeepsMargin(TheQuote.userCharge, InternalCost(policy, cost), policy.targetMarginBps)
<1>1. ValidPolicy(policy) /\ cost \in Nat /\ usable \in BOOLEAN
  BY DEF AnyJob
<1>2. usable = TRUE
  <2>1. SUFFICES ASSUME usable = FALSE PROVE FALSE
    BY <1>1
  <2>2. TheQuote.userCharge = 0
    BY <2>1 DEF TheQuote, QuoteJobCost
  <2> QED
    BY <2>2
<1>3. TheQuote = QuoteJobCost(policy, cost, TRUE)
  BY <1>2 DEF TheQuote
<1>4. KeepsMargin(QuoteJobCost(policy, cost, TRUE).userCharge,
                  InternalCost(policy, cost), policy.targetMarginBps)
  BY <1>1, ChargeKeepsMargin
<1> QED
  BY <1>3, <1>4, Zenon

LEMMA ChatMargin ==
    ASSUME AnyChat
    PROVE  KeepsMargin(ThePrice, ThePricedCost, policy.minimumMarginBps)
<1>1. PICK p \in ChatPolicies, provider \in Providers, r \in ChatRequests, answer \in Answers :
         /\ p = policy /\ provider = input.provider
         /\ r = input.request /\ answer = input.answer
  BY DEF AnyChat
<1>2. PICK money \in Nat : money = ProviderCost(provider, NormalizedUsage(r, answer))
  BY UsageTypes, ProviderCostType
<1>3. money <= money
  OBVIOUS
<1>4. \A module : KeepsMargin(QuoteProviderCost(p, money, module), ServiceCost(p, money),
                               p.minimumMarginBps)
  BY <1>3, ChatChargeFacts
<1>5. ThePrice = QuoteProviderCost(p, money, ModuleForRequest(r))
  BY <1>1, <1>2, Zenon DEF ThePrice, PriceResponse
<1>6. ThePricedCost = ServiceCost(p, money)
  BY <1>1, <1>2, Zenon DEF ThePricedCost
<1>7. p.minimumMarginBps = policy.minimumMarginBps
  BY <1>1
<1> QED
  BY <1>4, <1>5, <1>6, <1>7, Zenon

LEMMA ClipMargin ==
    ASSUME AnyClips, usable
    PROVE  KeepsMargin(TheClipQuote.charge * policy.creditValue,
                       ClipInternalCost(policy, cost, TRUE), policy.targetMarginBps)
<1>1. PICK p \in ClipPolicies, money \in Nat, S \in SUBSET Nat :
         /\ p = policy /\ money = cost
         /\ IsFiniteSet(S) /\ input \in [S -> Nat]
  BY DEF AnyClips
<1>2. usable = TRUE
  BY DEF AnyClips
<1>3. PICK charge \in Nat : /\ charge = TheClipQuote.charge
                            /\ charge >= ProtectedCredits(p, money, TRUE)
  <2>1. IsFiniteSet(S) /\ input \in [S -> Nat]
    BY <1>1
  <2> QED
    BY <1>1, <1>2, <2>1, ClipChargeFacts DEF TheClipQuote
<1>4. PICK credit \in Nat, margin \in Nat :
         credit = p.creditValue /\ margin = p.targetMarginBps
  BY DEF ClipPolicies
<1>5. money <= money /\ TRUE \in BOOLEAN
  OBVIOUS
<1>6. margin < 10000
  BY <1>4 DEF ClipPolicies
<1>7. PICK x \in Nat : x = ClipInternalCost(p, money, TRUE)
  BY <1>5, ClipCostFacts
<1>8. PICK least \in Nat : least = ProtectedCredits(p, money, TRUE)
  BY <1>5, ProtectedCreditsFacts
<1>9. charge >= least /\ credit * least >= ProtectedCharge(x, margin)
  <2>1. p.creditValue * ProtectedCredits(p, money, TRUE)
          >= ProtectedCharge(ClipInternalCost(p, money, TRUE), p.targetMarginBps)
    BY <1>5, ProtectedCreditsFacts
  <2> QED
    BY <1>3, <1>4, <1>7, <1>8, <2>1, Zenon
<1>10. ProtectedCharge(x, margin) \in Nat
  <2>1. margin < 10000 /\ x <= x
    BY <1>6
  <2> QED
    BY <2>1, ProtectedChargeFacts
<1>11. PICK paid \in Nat : paid = charge * credit /\ paid >= ProtectedCharge(x, margin)
  <2>1. \A a, b, c \in Nat : a >= b => a * c \in Nat /\ c * b \in Nat /\ a * c >= c * b
    OBVIOUS
  <2>2. charge * credit \in Nat /\ charge * credit >= credit * least /\ credit * least \in Nat
    BY <1>9, <2>1
  <2> QED
    BY <1>10, <1>9, <2>2
<1>12. KeepsMargin(paid, x, margin)
  <2>1. margin < 10000 /\ paid >= ProtectedCharge(x, margin)
    BY <1>6, <1>11
  <2> QED
    BY <2>1, MarginLeft
<1>13. TheClipQuote.charge * policy.creditValue = paid
  BY <1>1, <1>3, <1>4, <1>11, Zenon
<1>14. ClipInternalCost(policy, cost, TRUE) = x /\ policy.targetMarginBps = margin
  BY <1>1, <1>4, <1>7, Zenon
<1> QED
  BY <1>12, <1>13, <1>14, Zenon

AskedSpec == Asked /\ [][Next]_<<question, quoteVars, entitlementVars>>

(* The grids of the run ask such questions.                                *)
LEMMA InputGridType == InputGrid \subseteq [seconds : Nat, clips : Nat]
BY DEF InputGrid

LEMMA ChatPolicyGridType == ChatPolicyGrid \subseteq ChatPolicies
BY DEF ChatPolicyGrid, ChatPolicies

LEMMA RequestGridType == RequestGrid \subseteq ChatRequests
<1>1. SUFFICES ASSUME NEW r \in RequestGrid PROVE r \in ChatRequests
  OBVIOUS
<1>2. r = [module |-> r.module, hint |-> r.hint,
           characters |-> r.characters, maxTokens |-> r.maxTokens]
  BY DEF RequestGrid
<1>3. r.module \in Modules \union {"none"}
  BY DEF RequestGrid, Modules, ClipModules
<1>4. r.hint \in SUBSET Words
  BY DEF RequestGrid, Words
<1>5. r.characters \in Nat /\ r.maxTokens \in Nat
  BY DEF RequestGrid
<1> QED
  BY <1>2, <1>3, <1>4, <1>5 DEF ChatRequests

LEMMA ToldGridType == ToldGrid \subseteq Answers
<1>1. \A I, C, O, R \in SUBSET Nat :
         [told : {TRUE}, input : I, cached : C, output : O, reasoning : R] \subseteq Answers
  BY DEF Answers
<1> DEFINE I == {0, 5, 1251}
           C == {0, 100}
           O == {0, 32, 1000}
           R == {0, 7}
<1>2. I \in SUBSET Nat /\ C \in SUBSET Nat /\ O \in SUBSET Nat /\ R \in SUBSET Nat
  OBVIOUS
<1>3. ToldGrid = [told : {TRUE}, input : I, cached : C, output : O, reasoning : R]
  BY DEF ToldGrid
<1> HIDE DEF I, C, O, R
<1> QED
  BY <1>1, <1>2, <1>3

LEMMA ChatGridType ==
    ASSUME NEW chat \in ChatGrid
    PROVE  /\ chat.request \in ChatRequests /\ chat.budgets \in Budgets
           /\ chat.providers \in SUBSET Providers /\ IsFiniteSet(chat.providers)
           /\ chat.provider \in chat.providers /\ chat.answer \in Answers
<1>1. chat.request \in ChatRequests
  BY RequestGridType DEF ChatGrid
<1>2. chat.budgets \in Budgets
  <2>1. CASE chat.budgets = [default |-> 900]
    <3>1. chat.budgets \in [{"default"} -> Nat] /\ {"default"} \in SUBSET Modules
      BY <2>1 DEF Modules
    <3> QED
      BY <3>1, Zenon DEF Budgets
  <2>2. CASE chat.budgets = [review |-> 20, story |-> 2400]
    <3>1. chat.budgets \in [{"review", "story"} -> Nat] /\ {"review", "story"} \in SUBSET Modules
      BY <2>2 DEF Modules, ClipModules
    <3> QED
      BY <3>1, Zenon DEF Budgets
  <2> QED
    BY <2>1, <2>2 DEF ChatGrid
<1>3. chat.providers = {Cheap, Dear} /\ chat.provider \in {Cheap, Dear}
  BY DEF ChatGrid
<1>4. {Cheap, Dear} \in SUBSET Providers
  BY DEF Cheap, Dear, Providers
<1>5. IsFiniteSet({Cheap, Dear})
  <2>1. IsFiniteSet({Cheap})
    BY FS_Singleton
  <2>2. {Cheap, Dear} = {Cheap} \union {Dear}
    OBVIOUS
  <2> QED
    BY <2>1, <2>2, FS_AddElement
<1>6. chat.answer \in Answers
  <2>1. Untold \in Answers
    BY DEF Untold, Answers
  <2>2. chat.answer \in ToldGrid \union {Untold}
    BY DEF ChatGrid
  <2> QED
    BY <2>1, <2>2, ToldGridType
<1> QED
  BY <1>1, <1>2, <1>3, <1>4, <1>5, <1>6, Zenon

LEMMA ClipPolicyGridType == ClipPolicyGrid \subseteq ClipPolicies
BY DEF ClipPolicyGrid, ClipPolicies, Tiers

LEMMA ScoreGridType ==
    ASSUME NEW found \in ScoreGrid
    PROVE  \E scores \in SUBSET Nat : IsFiniteSet(scores) /\ found \in [scores -> Nat]
<1>1. {59, 60, 75, 90} \in SUBSET Nat /\ \A s \in {59, 60, 75, 90} : s <= 90
  OBVIOUS
<1>2. IsFiniteSet({59, 60, 75, 90})
  <2>1. 90 \in Nat
    OBVIOUS
  <2> QED
    BY <1>1, <2>1, FS_BoundedSetOfNaturals
<1>3. found \in [{59, 60, 75, 90} -> Nat]
  BY DEF ScoreGrid
<1> QED
  BY <1>1, <1>2, <1>3

LEMMA EnvironmentGridType ==
    ASSUME NEW e \in EnvironmentGrid
    PROVE  e.displayRate \in Nat /\ e.platformRate \in Nat /\ e.topUps \in TopUpTexts
<1>1. /\ e.displayRate \in DisplayRates /\ e.platformRate \in PlatformRates
      /\ e.topUps \in EnvironmentTopUpGrid
  BY DEF EnvironmentGrid
<1>2. DisplayRates \subseteq Nat /\ PlatformRates \subseteq Nat
  BY DEF DisplayRates, PlatformRates
<1>3. ASSUME NEW texts \in EnvironmentTopUpGrid
      PROVE  texts \in TopUpTexts
  <2>1. \A amount \in Int : Plain(amount) \in Texts /\ Scientific(amount) \in Texts
    BY DEF Texts, Plain, Scientific
  <2>2. Plain(50) \in Texts /\ {Plain(49), Plain(100), Scientific(100)} \subseteq Texts
    BY <2>1
  <2>3. PICK most \in {Plain(49), Plain(100), Scientific(100)},
             fee \in {0, 1000}, low \in {99}, high \in {299, 10000}, coded \in BOOLEAN :
           texts = [rate |-> 16000, min |-> Plain(50), max |-> most, serviceFee |-> fee,
                    codeMin |-> low, codeMax |-> high, uniqueCode |-> coded]
    BY <1>3 DEF EnvironmentTopUpGrid
  <2> QED
    BY <2>2, <2>3 DEF TopUpTexts
<1> QED
  BY <1>1, <1>2, <1>3

LEMMA SpoiledKeeps ==
    ASSUME NEW e \in EnvironmentGrid, NEW other \in Spoiled(e)
    PROVE  /\ other.displayRate = e.displayRate /\ other.platformRate = e.platformRate
           /\ other.topUps = e.topUps
<1> DEFINE worse == [e.policy EXCEPT !.targetMarginBps = 4000]
<1>1. \/ other = e
      \/ other = [e EXCEPT !.secrets = FALSE]
      \/ other = [e EXCEPT !.database = FALSE]
      \/ other = [e EXCEPT !.jobStorage = "memory"]
      \/ other = [e EXCEPT !.sessionStorage = "memory"]
      \/ other = [e EXCEPT !.policy = worse]
  BY DEF Spoiled
<1> HIDE DEF worse
<1>2. CASE other = e
  BY <1>2
<1>3. CASE other = [e EXCEPT !.secrets = FALSE]
  BY <1>3 DEF EnvironmentGrid
<1>4. CASE other = [e EXCEPT !.database = FALSE]
  BY <1>4 DEF EnvironmentGrid
<1>5. CASE other = [e EXCEPT !.jobStorage = "memory"]
  BY <1>5 DEF EnvironmentGrid
<1>6. CASE other = [e EXCEPT !.sessionStorage = "memory"]
  BY <1>6 DEF EnvironmentGrid
<1>7. CASE other = [e EXCEPT !.policy = worse]
  BY <1>7 DEF EnvironmentGrid
<1> QED
  BY <1>1, <1>2, <1>3, <1>4, <1>5, <1>6, <1>7, Zenon

LEMMA EnvironmentsType ==
    ASSUME NEW env \in Environments
    PROVE  env.displayRate \in Nat /\ env.platformRate \in Nat /\ env.topUps \in TopUpTexts
<1>1. PICK e \in EnvironmentGrid : env = e \/ env \in Spoiled(e)
  BY DEF Environments
<1> QED
  BY <1>1, EnvironmentGridType, SpoiledKeeps

LEMMA InitAsked == Init => Asked
<1>1. InitJobs => AnyJob
  BY InputGridType, PricingAssumption DEF InitJobs, AnyJob
<1>2. InitChats => AnyChat
  BY ChatPolicyGridType, ChatGridType DEF InitChats, AnyChat
<1>3. InitClips => AnyClips
  BY ClipPolicyGridType, ScoreGridType, PricingAssumption DEF InitClips, AnyClips
<1>4. InitStart => AnyEnvironment
  BY EnvironmentsType DEF InitStart, AnyEnvironment
<1>5. /\ InitJobs => question = "jobs"
      /\ InitChats => question = "chats"
      /\ InitClips => question = "clips"
      /\ InitStart => question = "start"
      /\ InitPlans => question = "plans"
      /\ InitVideos => question = "videos"
  BY DEF InitJobs, InitChats, InitClips, InitStart, InitPlans, InitVideos
<1> QED
  BY <1>1, <1>2, <1>3, <1>4, <1>5 DEF Init, Asked

LEMMA GridsAreAsked == Spec => AskedSpec
BY InitAsked, PTL DEF Spec, AskedSpec

(* MarginIsKept, whatever the policy, the provider cost, the usage told    *)
(* and the clips found: rounding, minima and caps leave the service its    *)
(* margin.                                                                 *)
THEOREM MarginsAreKept ==
    AskedSpec => []MarginIsKept
<1>1. Asked => MarginIsKept
  BY JobMargin, ChatMargin, ClipMargin DEF Asked, MarginIsKept
<1> QED
  BY <1>1, AskedStays, PTL DEF AskedSpec

LEMMA JobReservation == ASSUME AnyJob PROVE JobIsReserved
<1>1. PICK p \in JobPolicies, money \in Nat, job \in [seconds : Nat, clips : Nat] :
         p = policy /\ money = cost /\ job = input /\ ValidPolicy(p) /\ usable \in BOOLEAN
  <2>1. policy \in JobPolicies
    BY DEF AnyJob, ValidPolicy
  <2> QED
    BY <2>1 DEF AnyJob
<1>2. PICK expected \in Nat : /\ expected = EstimatedProviderCost(p, job.seconds, job.clips)
                              /\ expected \in p.targetProviderCost..p.hardProviderCost
  <2>1. job.seconds \in Nat /\ job.clips \in Nat
    OBVIOUS
  <2>2. p.targetProviderCost \in Nat /\ p.hardProviderCost \in Nat
    BY <1>1, PolicyFields
  <2>3. /\ EstimatedProviderCost(p, job.seconds, job.clips) \in Nat
        /\ p.targetProviderCost <= EstimatedProviderCost(p, job.seconds, job.clips)
        /\ EstimatedProviderCost(p, job.seconds, job.clips) <= p.hardProviderCost
    BY <1>1, <2>1, EstimateIsBounded
  <2> QED
    BY <2>2, <2>3
<1>3. PICK hard \in Nat : hard = p.hardProviderCost
  BY <1>1, PolicyFields
<1>4. \A c \in Nat : c <= hard => QuoteJobCost(p, c, TRUE).capSafe
  BY <1>1, <1>3, HardLimitIsSettled
<1>5. money <= hard => TheQuote.capSafe
  <2>1. TheQuote.capSafe = QuoteJobCost(p, money, TRUE).capSafe
    BY <1>1 DEF TheQuote, QuoteJobCost
  <2> QED
    BY <1>4, <2>1, Zenon
<1>6. EstimateAnalysisJob(p, job).capSafe
  <2>1. expected <= hard
    BY <1>2, <1>3
  <2>2. QuoteJobCost(p, expected, TRUE).capSafe
    BY <1>4, <2>1
  <2> QED
    BY <1>2, <2>2, Zenon DEF EstimateAnalysisJob
<1>7. money <= expected => TheQuote.userCharge <= EstimateAnalysisJob(p, job).reservation
  <2>1. SUFFICES ASSUME money <= expected
                 PROVE  TheQuote.userCharge <= EstimateAnalysisJob(p, job).reservation
    OBVIOUS
  <2>2. /\ EstimateAnalysisJob(p, job).reservation \in 0..p.maximumJobCharge
        /\ QuoteJobCost(p, money, TRUE).userCharge <= EstimateAnalysisJob(p, job).reservation
    BY <1>1, <1>2, <2>1, EstimateCoversJob, Zenon
  <2>3. CASE usable = TRUE
    BY <1>1, <2>2, <2>3, Zenon DEF TheQuote
  <2>4. CASE usable = FALSE
    <3>1. TheQuote.userCharge = 0
      BY <2>4 DEF TheQuote, QuoteJobCost
    <3>2. EstimateAnalysisJob(p, job).reservation >= 0
      BY <2>2
    <3> QED
      BY <3>1, <3>2
  <2> QED
    BY <1>1, <2>3, <2>4
<1> QED
  BY <1>1, <1>2, <1>3, <1>5, <1>6, <1>7, Zenon DEF JobIsReserved

LEMMA ClipReservation == ASSUME AnyClips PROVE ClipsAreReserved
<1>1. PICK p \in ClipPolicies, money \in Nat, S \in SUBSET Nat :
         /\ p = policy /\ money = cost
         /\ IsFiniteSet(S) /\ input \in [S -> Nat]
         /\ ValidClipPolicy(p) /\ usable \in BOOLEAN
  BY DEF AnyClips
<1>2. SUFFICES ASSUME money <= p.hardProviderCost
               PROVE  TheClipQuote.capSafe /\ TheClipQuote.charge <= TheClipQuote.reservation
  BY <1>1 DEF ClipsAreReserved
<1>3. TheClipQuote = QuoteClipJob(p, money, input, usable)
  BY <1>1 DEF TheClipQuote
<1> QED
  BY <1>1, <1>2, <1>3, ClipReservationFacts, Zenon

LEMMA ChatReservation ==
    ASSUME AnyChat, Foreseen
    PROVE  ThePrice <= EstimateRequest(policy, input.request, input.budgets, input.providers)
<1>1. PICK p \in ChatPolicies, r \in ChatRequests, budgets \in Budgets,
           providers \in SUBSET Providers, answer \in Answers :
         /\ p = policy /\ r = input.request /\ budgets = input.budgets
         /\ providers = input.providers /\ answer = input.answer
         /\ IsFiniteSet(providers) /\ input.provider \in providers
  BY DEF AnyChat
<1>2. PICK provider \in providers : provider = input.provider
  BY <1>1
<1>3. PICK u \in [input : Nat, cached : Nat, output : Nat, reasoning : Nat] :
         u = NormalizedUsage(r, answer) /\ u.cached <= u.input
  BY UsageTypes
<1>4. /\ u.input <= EstimatedInput(r) /\ u.output <= RouterTokens(r, budgets)
      /\ u.reasoning = 0 /\ provider.cached <= provider.input
      /\ ModuleForRequest(r) = ModuleFromRequest(r)
      /\ ModuleForRequest(r) \in DOMAIN budgets \/ r.maxTokens > 0
  BY <1>1, <1>2, <1>3 DEF Foreseen
<1>5. /\ RouterTokens(r, budgets) \in Nat /\ EstimatedOutput(r, budgets) \in Nat
      /\ RouterTokens(r, budgets) <= EstimatedOutput(r, budgets)
  BY <1>4, OutputIsEstimated
<1>6. /\ u.output <= EstimatedOutput(r, budgets) /\ IsFiniteSet(providers)
      /\ u.cached <= u.input
  BY <1>1, <1>3, <1>4, <1>5
<1>7. PICK low \in Nat, high \in Nat : /\ low = ProviderCost(provider, u)
                                       /\ high = EstimatedChatCost(r, budgets, providers)
                                       /\ low <= high
  <2>1. ProviderCost(provider, u) \in Nat
    BY <1>6, ProviderCostType
  <2> QED
    BY <1>4, <1>5, <1>6, <2>1, EstimateCoversCost
<1>8. \A module : QuoteProviderCost(p, low, module) <= QuoteProviderCost(p, high, module)
  <2>1. low <= high
    BY <1>7
  <2> QED
    BY <2>1, ChatChargeFacts
<1>9. ThePrice = QuoteProviderCost(p, low, ModuleForRequest(r))
  BY <1>1, <1>2, <1>3, <1>7, Zenon DEF ThePrice, PriceResponse
<1>10. EstimateRequest(policy, input.request, input.budgets, input.providers)
         = QuoteProviderCost(p, high, ModuleForRequest(r))
  BY <1>1, <1>7, Zenon DEF EstimateRequest
<1> QED
  BY <1>8, <1>9, <1>10, Zenon

(* EstimateIsReserved, whatever the policy and the job, the chat and its   *)
(* answer: what was reserved pays for what was foreseen.                   *)
THEOREM EstimatesAreReserved ==
    AskedSpec => []EstimateIsReserved
<1>1. Asked => EstimateIsReserved
  BY JobReservation, ClipReservation, ChatReservation DEF Asked, EstimateIsReserved
<1> QED
  BY <1>1, AskedStays, PTL DEF AskedSpec

(* StartedCanSell, whatever the environment: an API that has started has a *)
(* provider to pay with and settings by which every amount can be paid.    *)
THEOREM StartedSells ==
    AskedSpec => []StartedCanSell
<1>1. Asked => StartedCanSell
  BY StartSells DEF Asked, StartedCanSell
<1> QED
  BY <1>1, AskedStays, PTL DEF AskedSpec
=============================================================================

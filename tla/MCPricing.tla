----------------------------- MODULE MCPricing ------------------------------
(* What is sold at what price, and what pays for it.  The pricing          *)
(* functions and the checks at the start over grids of policies and        *)
(* inputs, an initial state for each; and Entitlement, once for the plans  *)
(* and once for the free videos.                                           *)
EXTENDS ChatPricing, ClipPricing, StartUp, Entitlement, FiniteSetsExt, TLC

CONSTANTS
    MaxProviderCost,    \* the largest provider cost quoted
    PlanRequests        \* how many jobs are started where plans are bought

ASSUME PricingAssumption == MaxProviderCost \in Nat

VARIABLES question, policy, cost, usable, input

quoteVars == <<policy, cost, usable, input>>

MCPlanDays == [STARTER |-> 30, PRO |-> 365]

(* In Jakarta: the last hour of Sunday, 7 January 2024 and the first of    *)
(* Monday; 30 December 2024, whose week has the key of that Sunday's; and  *)
(* 6 January 2025, an hour before and at the end of a year from the start. *)
MCInstants == {473512, 473513, 482093, 482271, 482272}

Symmetry == Permutations(Requests) \union Permutations(Videos) \union Permutations(Orders)

-----------------------------------------------------------------------------
(* The grids *)

PolicyGrid ==
    [minimumMarginBps : {4000, 5000}, targetMarginBps : {5000, 6667},
     infrastructureCost : {0, 3}, paymentFeeBps : {0, 700},
     safetyBufferBps : {500}, retryAllowanceBps : {0},
     minimumJobCharge : {1, 9}, maximumJobCharge : {8, 30, 70},
     reservationHeadroomBps : {0, 2500}, targetProviderCost : {2, 5},
     warningProviderCost : {6}, hardProviderCost : {9}]

InputGrid == {[seconds |-> s, clips |-> n] : s \in {0, 601, 20000}, n \in {0, 4, 30}}

ChatPolicyGrid ==
    [computeCost : {0, 40}, paymentFeeBps : {700}, reserveBps : {500},
     minimumCharge : {0, 900}, minimumClipCharge : {700}, minimumMarginBps : {6667}]

Cheap == [priority |-> 1, input |-> 100, cached |-> 25, output |-> 400, reasoning |-> 0]
Dear == [priority |-> 2, input |-> 150, cached |-> 0, output |-> 301, reasoning |-> 600]

RequestGrid ==
    [module : {"none", "review"}, hint : {{}, {"title"}, {"segment", "ranking"}},
     characters : {0, 13, 4001}, maxTokens : {0, 1000}]

ToldGrid ==
    [told : {TRUE}, input : {0, 5, 1251}, cached : {0, 100},
     output : {0, 32, 1000}, reasoning : {0, 7}]
Untold == [told |-> FALSE, output |-> 1200]

(* A request, the routes and providers there are, and what one answers.    *)
ChatGrid ==
    [request : RequestGrid, budgets : {[default |-> 900], [review |-> 20, story |-> 2400]},
     providers : {{Cheap, Dear}}, provider : {Cheap, Dear},
     answer : ToldGrid \union {Untold}]

ClipPolicyGrid ==
    [creditValue : {1, 7}, infrastructureFee : {0, 3}, paymentFeeBps : {0, 700},
     safetyBufferBps : {500}, retryAllowanceBps : {0},
     minimumMarginBps : {5000}, targetMarginBps : {5000, 6667},
     minimumJobCredits : {1, 5}, maximumJobCredits : {4, 9, 50}, baseCredits : {0, 2},
     tierCredits : {[optional |-> 1, good |-> 2, premium |-> 4]},
     optionalScoreMin : {60}, goodScoreMin : {60, 75}, premiumScoreMin : {90},
     hardProviderCost : {9}]

ScoreGrid == [{59, 60, 75, 90} -> {0, 2}]

TopUpGrid ==
    [rate : {16000, 17000}, min : {50}, max : {49, 100}, serviceFee : {0, 1000},
     codeMin : {99}, codeMax : {299, 10000}, uniqueCode : BOOLEAN]

Plain(amount) == [plain |-> TRUE, value |-> amount]
Scientific(amount) == [plain |-> FALSE, value |-> amount]       \* as in 1e2

EnvironmentTopUpGrid ==
    [rate : {16000}, min : {Plain(50)},
     max : {Plain(49), Plain(100), Scientific(100)},
     serviceFee : {0, 1000}, codeMin : {99}, codeMax : {299, 10000}, uniqueCode : BOOLEAN]

GoodPolicy ==
    [minimumMarginBps |-> 5000, targetMarginBps |-> 6000, infrastructureCost |-> 3,
     paymentFeeBps |-> 0, safetyBufferBps |-> 500, retryAllowanceBps |-> 0,
     minimumJobCharge |-> 9, maximumJobCharge |-> 70, reservationHeadroomBps |-> 2500,
     targetProviderCost |-> 5, warningProviderCost |-> 6, hardProviderCost |-> 9]

DisplayRates == {0, 999, 5000, 17000}
PlatformRates == {0, 16000}

EnvironmentGrid ==
    [secrets : {TRUE}, database : {TRUE}, jobStorage : {""}, sessionStorage : {"postgres"},
     provider : {"sandbox", "midtrans", "xendit"}, enabled : {"", "true", "false", "no"},
     keys : BOOLEAN, sandboxAllowed : BOOLEAN, sandboxSecret : BOOLEAN,
     displayRate : DisplayRates, platformRate : PlatformRates,
     topUps : EnvironmentTopUpGrid, policy : {GoodPolicy}]

(* One thing more may be wrong with the environment. *)
Spoiled(env) ==
    {env, [env EXCEPT !.secrets = FALSE], [env EXCEPT !.database = FALSE],
     [env EXCEPT !.jobStorage = "memory"], [env EXCEPT !.sessionStorage = "memory"],
     [env EXCEPT !.policy.targetMarginBps = 4000]}

Environments ==
    EnvironmentGrid \union
    UNION {Spoiled(env) : env \in {e \in EnvironmentGrid : Starts(e) /\ e.enabled = "true"}}

-----------------------------------------------------------------------------
(* The questions *)

InitJobs ==
    /\ question = "jobs"
    /\ policy \in {p \in PolicyGrid : ValidPolicy(p)}
    /\ cost \in 0..MaxProviderCost
    /\ usable = TRUE
    /\ input \in InputGrid

InitChats ==
    /\ question = "chats"
    /\ policy \in ChatPolicyGrid
    /\ cost = 0 /\ usable = FALSE
    /\ input \in ChatGrid

InitClips ==
    /\ question = "clips"
    /\ policy \in {p \in ClipPolicyGrid : ValidClipPolicy(p)}
    /\ cost \in 0..MaxProviderCost
    /\ usable = TRUE
    /\ input \in ScoreGrid

InitStart ==
    /\ question = "start"
    /\ policy = {} /\ cost = 0 /\ usable = FALSE
    /\ input \in Environments

Nothing == policy = {} /\ cost = 0 /\ usable = FALSE /\ input = {}

(* Plans are bought and all but PlanRequests jobs have been started. *)
InitPlans ==
    /\ question = "plans" /\ Nothing
    /\ \E later \in kSubset(PlanRequests, Requests) :
          InitEntitlement(Requests \ later, {})

(* Free videos are asked for and no plan is left to buy. *)
InitVideos == question = "videos" /\ Nothing /\ InitEntitlement({}, Orders)

Init == \/ /\ InitJobs \/ InitChats \/ InitClips \/ InitStart
           /\ InitEntitlement(Requests, Orders)
        \/ InitPlans
        \/ InitVideos

(* A second look at the same job, its result found to be useless. *)
Reject == /\ usable
          /\ usable' = FALSE
          /\ UNCHANGED <<policy, cost, input>>

Grids == {"jobs", "chats", "clips", "start"}

Next == \/ /\ question \in Grids
           /\ Reject \/ (~usable /\ UNCHANGED quoteVars)
           /\ UNCHANGED <<question, entitlementVars>>
        \/ /\ question \notin Grids
           /\ NextEntitlement
           /\ UNCHANGED <<question, quoteVars>>

Spec == Init /\ [][Next]_<<question, quoteVars, entitlementVars>>

-----------------------------------------------------------------------------
(* Properties *)

TheQuote == QuoteJobCost(policy, cost, usable)
TheClipQuote == QuoteClipJob(policy, cost, input, usable)

ThePrice == PriceResponse(policy, input.request, input.provider, input.answer)
ThePricedCost ==
    ServiceCost(policy,
                ProviderCost(input.provider, NormalizedUsage(input.request, input.answer)))

(* Rounding, minima and caps never cost the service its margin: of what is *)
(* charged for a job, for one chat or for the clips of a job at least the  *)
(* target share is left above the internal cost.                           *)
MarginIsKept ==
    CASE question = "jobs" ->
            TheQuote.userCharge > 0 =>
                KeepsMargin(TheQuote.userCharge, InternalCost(policy, cost), policy.targetMarginBps)
      [] question = "chats" -> KeepsMargin(ThePrice, ThePricedCost, policy.minimumMarginBps)
      [] question = "clips" ->
            usable => KeepsMargin(TheClipQuote.charge * policy.creditValue,
                                  ClipInternalCost(policy, cost, TRUE), policy.targetMarginBps)
      [] OTHER -> TRUE

(* Nobody within the budget is refused.  A policy that passes validation   *)
(* settles every job whose provider cost is within the hard limit: the cap *)
(* never bites below it.  And what is reserved for an estimate pays the    *)
(* quote of a job that costs what was expected.                            *)
JobIsReserved ==
    LET expected == EstimatedProviderCost(policy, input.seconds, input.clips)
        estimate == EstimateAnalysisJob(policy, input)
    IN  /\ cost <= policy.hardProviderCost => TheQuote.capSafe
        /\ expected \in policy.targetProviderCost..policy.hardProviderCost
        /\ estimate.capSafe
        /\ cost <= expected => TheQuote.userCharge <= estimate.reservation

ClipsAreReserved ==
    cost <= policy.hardProviderCost =>
        TheClipQuote.capSafe /\ TheClipQuote.charge <= TheClipQuote.reservation

(* An answer the estimate can speak of: no longer than the router asks for *)
(* and of no more input than was estimated, without reasoning and without  *)
(* a rate for cached tokens above that of the others.  And both parts of   *)
(* the program must see the same module, and the same budget for it.       *)
Foreseen ==
    LET r == input.request
        usage == NormalizedUsage(r, input.answer)
    IN  /\ usage.input <= EstimatedInput(r)
        /\ usage.output <= RouterTokens(r, input.budgets)
        /\ usage.reasoning = 0
        /\ input.provider.cached <= input.provider.input
        /\ ModuleForRequest(r) = ModuleFromRequest(r)
        /\ ModuleForRequest(r) \in DOMAIN input.budgets \/ r.maxTokens > 0

(* What was reserved pays for what was foreseen: for a job, whose policy   *)
(* settles every cost within the hard limit; for the clips of one; and for *)
(* a chat, whichever provider answers it.                                  *)
EstimateIsReserved ==
    CASE question = "jobs" -> JobIsReserved
      [] question = "clips" -> ClipsAreReserved
      [] question = "chats" ->
            Foreseen => ThePrice <= EstimateRequest(policy, input.request, input.budgets,
                                                    input.providers)
      [] OTHER -> TRUE

(* Where the switch of a provider is off in a word other than "false", or  *)
(* for Midtrans in any, where the sandbox is not allowed, where the rate   *)
(* of a top-up is left to another variable or too low, where rate, fee or  *)
(* code is above what the service takes, or where an amount of USD is not  *)
(* written in plain digits (1e2, a seventh decimal), the checks at the     *)
(* start and the services read the environment differently.                *)
ReadAlike(env) ==
    /\ SwitchedOn(env.enabled)
    /\ env.provider = "sandbox" => env.sandboxAllowed
    /\ env.displayRate \in LeastRate..MostRate
    /\ env.topUps.serviceFee <= MostFee /\ env.topUps.codeMax <= MostCode
    /\ env.topUps.min.plain /\ env.topUps.max.plain

(* An API that has started can sell: with such an environment there is a   *)
(* provider to pay with, the settings of a top-up are read, whether they   *)
(* are those of the environment or an administrator has stored others, and *)
(* every amount they allow has a total that QRIS takes, whatever unique    *)
(* code is drawn, and that is not below the exchange rate.                 *)
StartedCanSell ==
    question = "start" /\ Starts(input) /\ ReadAlike(input) =>
        /\ HasActiveProvider(input)
        /\ \A stored \in {{}} \union {{s} : s \in {t \in TopUpGrid : ValidTopUps(t)}} :
              /\ ReadTopUps(input, stored) # {}
              /\ \A s \in ReadTopUps(input, stored) :
                    \A purchase \in {s.min, (s.min + s.max) \div 2, s.max}, code \in UniqueCodes(s) :
                        /\ Quotable(s, purchase, code)
                        /\ Total(s, purchase, code) * MicroPerUsd >= purchase * s.rate
=============================================================================

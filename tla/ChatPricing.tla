---------------------------- MODULE ChatPricing ----------------------------
(***************************************************************************)
(* The price of one chat: what PricingService reserves for a request       *)
(* before anybody is called (estimateRequest), what the router makes of    *)
(* the usage a provider reports (normalizedUsage and the cost after it)    *)
(* and what the answer is charged (priceResponse over quoteUsageCost).     *)
(* A rate is in thousandths of a micro-USD per token.                      *)
(***************************************************************************)
EXTENDS JobPricing, Sequences

ClipModules == {"story", "ranking", "highlight", "review"}

(* Two parts of the program tell the module of a request that names none   *)
(* from the words of a hint, each in an order of its own; only the router  *)
(* takes a segment for a story.                                            *)
PricingOrder == <<"highlight", "review", "ranking", "story", "title", "publishing">>
RouterOrder == <<"highlight", "review", "publishing", "ranking", "story", "title">>

FirstHint(order, words) ==
    LET hits == {i \in DOMAIN order : order[i] \in words}
    IN  IF hits = {} THEN "default" ELSE order[CHOOSE i \in hits : \A j \in hits : i <= j]

ModuleForRequest(r) ==
    IF r.module # "none" THEN r.module ELSE FirstHint(PricingOrder, r.hint)

ModuleFromRequest(r) ==
    IF r.module # "none" THEN r.module
    ELSE FirstHint(RouterOrder,
                   r.hint \union {module \in {"story"} : "segment" \in r.hint})

(* What the router falls back to where no route is enabled. *)
BuiltInTokens ==
    [module \in ClipModules \union {"publishing", "title", "test", "default"} |->
        CASE module \in {"story", "highlight"} -> 1800
          [] module \in {"ranking", "publishing"} -> 1400
          [] module = "review" -> 1200
          [] module = "title" -> 500
          [] module = "test" -> 320
          [] module = "default" -> 1000]

(* budgets: the modules that have an enabled route, with its tokens.       *)
RouterTokens(r, budgets) ==
    LET module == ModuleFromRequest(r)
        most == IF module \in DOMAIN budgets THEN budgets[module] ELSE BuiltInTokens[module]
    IN  Larger(32, IF r.maxTokens > 0 THEN Smaller(most, r.maxTokens) ELSE most)

EstimatedOutput(r, budgets) ==
    LET module == ModuleForRequest(r)
        most == CASE module \in DOMAIN budgets -> budgets[module]
                  [] module \notin DOMAIN budgets /\ "default" \in DOMAIN budgets -> budgets["default"]
                  [] OTHER -> 1000
    IN  Larger(32, IF r.maxTokens > 0 THEN r.maxTokens ELSE most)

(* Four characters make a token, and a quarter of them is added. *)
EstimatedInput(r) == Larger(1, CeilDivide(r.characters * 5, 16))

Largest(S) == CHOOSE a \in S : \A b \in S : a >= b

(* Mutant: the estimate is made with the rates of the first provider. *)
EstimateByFirst(r, budgets, providers) ==
    LET first == CHOOSE p \in providers : \A q \in providers : p.priority <= q.priority
    IN  CeilDivide(EstimatedInput(r) * first.input + EstimatedOutput(r, budgets) * first.output, 1000)

(* The dearest rates of the providers that are enabled and have keys. *)
EstimatedChatCost(r, budgets, providers) ==
    CeilDivide(EstimatedInput(r) * Largest({p.input : p \in providers} \union {0})
               + EstimatedOutput(r, budgets) * Largest({p.output : p \in providers} \union {0}),
               1000)

-----------------------------------------------------------------------------
(* The answer *)

(* normalizedUsage: what a provider does not tell is estimated.            *)
NormalizedUsage(r, answer) ==
    IF answer.told
    THEN [input |-> answer.input, cached |-> Smaller(answer.input, answer.cached),
          output |-> answer.output, reasoning |-> answer.reasoning]
    ELSE [input |-> Larger(1, CeilDivide(r.characters, 4)), cached |-> 0,
          output |-> answer.output, reasoning |-> 0]

(* A rate that is not configured is that of the other tokens; reasoning is *)
(* charged on top of the output.  The cost is rounded to hundredths.       *)
ProviderCost(p, usage) ==
    LET cachedRate == IF p.cached > 0 THEN p.cached ELSE p.input
        reasoningRate == IF p.reasoning > 0 THEN p.reasoning ELSE p.output
        thousandths == (usage.input - usage.cached) * p.input + usage.cached * cachedRate
                       + usage.output * p.output + usage.reasoning * reasoningRate
    IN  CeilDivide((thousandths + 5) \div 10, 100)

(* quoteUsageCost, as quoteProviderCost calls it.                          *)
ServiceCost(p, providerCost) ==
    LET base == providerCost + p.computeCost
    IN  base + BpsCharge(base, p.paymentFeeBps + p.reserveBps)

QuoteProviderCost(p, providerCost, module) ==
    Larger(ProtectedCharge(ServiceCost(p, providerCost), p.minimumMarginBps),
           IF module \in ClipModules THEN Larger(p.minimumCharge, p.minimumClipCharge)
                                     ELSE p.minimumCharge)

EstimateRequest(p, r, budgets, providers) ==
    QuoteProviderCost(p, EstimatedChatCost(r, budgets, providers), ModuleForRequest(r))

PriceResponse(p, r, provider, answer) ==
    QuoteProviderCost(p, ProviderCost(provider, NormalizedUsage(r, answer)), ModuleForRequest(r))
=============================================================================

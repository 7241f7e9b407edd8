---------------------------- MODULE ClipPricing ----------------------------
(***************************************************************************)
(* The price of a job by the quality of its clips (quoteClipJob): the      *)
(* pricing packages/billing keeps beside the one the API uses.  Clips are  *)
(* paid in credits worth creditValue each, costs are in rupiah; of the     *)
(* scores of the clips only the tier they fall into matters.  The rows and *)
(* the status of the budget are for display and left out.                  *)
(***************************************************************************)
EXTENDS JobPricing, Sums

Tiers == {"optional", "good", "premium"}

(* classifyClipScore: "rejected" is a tier without a price. *)
ClassifyClipScore(p, score) ==
    CASE score >= p.premiumScoreMin -> "premium"
      [] score >= p.goodScoreMin /\ score < p.premiumScoreMin -> "good"
      [] score >= p.optionalScoreMin /\ score < p.goodScoreMin -> "optional"
      [] OTHER -> "rejected"

ClipInternalCost(p, providerCost, usableResult) ==
    LET base == providerCost + (IF usableResult THEN p.infrastructureFee ELSE 0)
    IN  base + BpsCharge(base, OverheadBps(p))

ProtectedCredits(p, providerCost, usableResult) ==
    CeilDivide(ProtectedCharge(ClipInternalCost(p, providerCost, usableResult), p.targetMarginBps),
               p.creditValue)

(* validateClipJobPricingPolicy *)
ValidClipPolicy(p) ==
    /\ p.minimumMarginBps >= 5000
    /\ p.targetMarginBps >= p.minimumMarginBps
    /\ p.minimumJobCredits <= p.maximumJobCredits
    /\ p.baseCredits <= p.maximumJobCredits
    /\ p.optionalScoreMin < p.goodScoreMin /\ p.goodScoreMin < p.premiumScoreMin
    /\ OverheadBps(p) <= 30000
    /\ ProtectedCredits(p, p.hardProviderCost, TRUE) <= p.maximumJobCredits

(* scores[s]: how many clips have the score s. *)
QualityCredits(p, scores) ==
    LET paid == [s \in DOMAIN scores |->
                    LET tier == ClassifyClipScore(p, s)
                    IN  IF tier \in Tiers THEN scores[s] * p.tierCredits[tier] ELSE 0]
    IN  p.baseCredits + SumOf(paid)

(* Mutant: the maximum holds whatever it costs. *)
QuoteCapped(p, providerCost, scores, usableResult) ==
    [charge |-> Smaller(IF usableResult THEN QualityCredits(p, scores) ELSE 0, p.maximumJobCredits),
     reservation |-> p.maximumJobCredits,
     capSafe |-> TRUE]

(* The maximum holds only where it leaves the margin.                      *)
QuoteClipJob(p, providerCost, scores, usableResult) ==
    LET protected == ProtectedCredits(p, providerCost, usableResult)
        quality == QualityCredits(p, scores)
        price == IF usableResult
                 THEN Larger(Larger(quality, p.minimumJobCredits), protected) ELSE 0
        capSafe == protected <= p.maximumJobCredits
    IN  [charge |-> IF capSafe THEN Smaller(price, p.maximumJobCredits) ELSE price,
         reservation |-> p.maximumJobCredits,
         capSafe |-> capSafe]
=============================================================================

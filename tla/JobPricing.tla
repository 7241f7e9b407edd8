----------------------------- MODULE JobPricing -----------------------------
(***************************************************************************)
(* The price of one analysis job: packages/billing (quoteJobCost and the   *)
(* helpers under it) and the estimate that PricingService derives from the *)
(* length of the video and the number of clips asked for.  Amounts are     *)
(* whole micro-USD and every division rounds up, as the bigint arithmetic  *)
(* of the source does.  A policy is a record with the fields of            *)
(* JobPricingPolicy, the ones only shown to people left out.               *)
(***************************************************************************)
EXTENDS Integers

Larger(a, b) == IF a >= b THEN a ELSE b
Smaller(a, b) == IF a <= b THEN a ELSE b

(* Mutant: bigint division without rounding up. *)
FloorDivide(value, divisor) == value \div divisor

CeilDivide(value, divisor) == (value + divisor - 1) \div divisor

BpsCharge(value, bps) == CeilDivide(value * bps, 10000)

(* The price at which cost is the part that the target margin leaves. *)
ProtectedCharge(cost, marginBps) ==
    IF cost <= 0 THEN 0 ELSE CeilDivide(cost * 10000, 10000 - marginBps)

OverheadBps(p) == p.paymentFeeBps + p.safetyBufferBps + p.retryAllowanceBps

Bps == 0..10000
MarginBps == 0..9500

JobPolicies ==
    [minimumMarginBps : MarginBps, targetMarginBps : MarginBps,
     infrastructureCost : Nat, paymentFeeBps : Bps,
     safetyBufferBps : Bps, retryAllowanceBps : Bps,
     minimumJobCharge : Nat, maximumJobCharge : Nat \ {0},
     reservationHeadroomBps : Bps, targetProviderCost : Nat,
     warningProviderCost : Nat, hardProviderCost : Nat \ {0}]

(* What the service pays for a job whose providers cost providerCost. *)
InternalCost(p, providerCost) ==
    LET base == providerCost + p.infrastructureCost
    IN  base + BpsCharge(base, OverheadBps(p))

ProtectedPrice(p, providerCost) ==
    Larger(ProtectedCharge(InternalCost(p, providerCost), p.targetMarginBps),
           p.minimumJobCharge)

(* Mutant: the price at the hard limit is not compared with the cap. *)
ValidUncapped(p) ==
    /\ p \in JobPolicies
    /\ p.minimumMarginBps >= 5000
    /\ p.targetMarginBps >= p.minimumMarginBps

(* validateJobPricingPolicy: a policy that fails it quotes nothing. *)
ValidPolicy(p) ==
    /\ p \in JobPolicies
    /\ p.minimumMarginBps >= 5000
    /\ p.targetMarginBps >= p.minimumMarginBps
    /\ p.minimumJobCharge <= p.maximumJobCharge
    /\ p.targetProviderCost <= p.warningProviderCost
    /\ p.warningProviderCost <= p.hardProviderCost
    /\ OverheadBps(p) <= 30000
    /\ ProtectedPrice(p, p.hardProviderCost) <= p.maximumJobCharge

QuoteJobCost(p, providerCost, usableResult) ==
    LET price  == ProtectedPrice(p, providerCost)
        charge == IF usableResult THEN price ELSE 0
    IN  [userCharge  |-> charge,
         reservation |->
            Smaller(p.maximumJobCharge,
                    IF usableResult
                    THEN BpsCharge(charge, 10000 + p.reservationHeadroomBps)
                    ELSE 0),
         capSafe     |-> /\ price <= p.maximumJobCharge
                         /\ providerCost <= p.hardProviderCost]

(* A long video and many clips (0: the server chooses) cost more than the  *)
(* target, in basis points of it.                                          *)
VideoBlocks(durationSeconds) == Larger(1, CeilDivide(durationSeconds, 600))

ExpectedClips(requestedClips) ==
    IF requestedClips > 0 THEN Smaller(requestedClips, 25) ELSE 4

ComplexityBps(durationSeconds, requestedClips) ==
    10000 + Smaller(5000, (VideoBlocks(durationSeconds) - 1) * 250)
          + Smaller(2500, Larger(0, ExpectedClips(requestedClips) - 3) * 500)

EstimatedProviderCost(p, durationSeconds, requestedClips) ==
    Smaller(p.hardProviderCost,
            Larger(p.targetProviderCost,
                   BpsCharge(p.targetProviderCost,
                             ComplexityBps(durationSeconds, requestedClips))))

(* Mutant: the estimate is quoted as if no clip were usable. *)
EstimateUnusable(p, input) ==
    QuoteJobCost(p, EstimatedProviderCost(p, input.seconds, input.clips), FALSE)

EstimateAnalysisJob(p, input) ==
    QuoteJobCost(p, EstimatedProviderCost(p, input.seconds, input.clips), TRUE)

(* What a margin promises: that share of a charge is left above the cost.  *)
KeepsMargin(charge, internalCost, marginBps) ==
    (charge - internalCost) * 10000 >= marginBps * charge
=============================================================================

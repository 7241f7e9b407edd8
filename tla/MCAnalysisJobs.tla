--------------------------- MODULE MCAnalysisJobs ---------------------------
(* Small instances of AnalysisJobs: prices of a few micro-USD. *)
EXTENDS AnalysisJobs, TLC

(* Half of a price is margin, the other half provider cost: a job charges  *)
(* twice its provider cost, at least 1, and reserves a quarter more than   *)
(* the charge it expects.                                                  *)
MCPolicy ==
    [minimumMarginBps |-> 5000, targetMarginBps |-> 5000,
     infrastructureCost |-> 0, paymentFeeBps |-> 0,
     safetyBufferBps |-> 0, retryAllowanceBps |-> 0,
     minimumJobCharge |-> 1, maximumJobCharge |-> 6,
     reservationHeadroomBps |-> 2500, targetProviderCost |-> 1,
     warningProviderCost |-> 2, hardProviderCost |-> 3]

MCSources == {"WALLET_STANDARD", "SUBSCRIPTION_INCLUDED"}

(* A short video with few clips, estimated at the target cost and reserving *)
(* 3, and a long one with many clips, estimated at 2 and reserving 5.       *)
MCStartInputs == {[seconds |-> 300, clips |-> 3], [seconds |-> 6000, clips |-> 20]}

ShortStartInputs == {[seconds |-> 300, clips |-> 3]}

(* Estimates of 1; HonestCosts stay within it, AnyCosts may run over. *)
HonestCosts == [e \in {1} |-> 0..1]
AnyCosts == [e \in {1} |-> {0, 2}]

MCSymmetry == Permutations(Requests) \union Permutations(Handlers)
              \union Permutations(Calls) \union Permutations(ResponseIds)
=============================================================================

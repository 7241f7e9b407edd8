--------------------------- MODULE MCMemberWallet ---------------------------
(* Small instances of MemberWallet, priced like those of AnalysisJobs. *)
EXTENDS MemberWallet, TLC

MCPolicy ==
    [minimumMarginBps |-> 5000, targetMarginBps |-> 5000,
     infrastructureCost |-> 0, paymentFeeBps |-> 0,
     safetyBufferBps |-> 0, retryAllowanceBps |-> 0,
     minimumJobCharge |-> 1, maximumJobCharge |-> 6,
     reservationHeadroomBps |-> 2500, targetProviderCost |-> 1,
     warningProviderCost |-> 2, hardProviderCost |-> 3]

MCStartInputs == {[seconds |-> 300, clips |-> 3]}

MCWalletSymmetry == Permutations(Requests) \union Permutations(Chats)
                    \union Permutations(RequestIds) \union Permutations(Admins)
=============================================================================

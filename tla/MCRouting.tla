----------------------------- MODULE MCRouting ------------------------------
(* The two kinds of limits, each on its own: the leases on the way of two  *)
(* requests through the router, where the provider the plan prefers has    *)
(* room for a single call and the other for two; and the windows that      *)
(* count the requests of one identity.                                     *)
EXTENDS Routing, RateWindows

CONSTANTS p1, p2

VARIABLE question

MCRank == [p \in {p1, p2} |-> IF p = p1 THEN 1 ELSE 2]

MCProviderLimit == [p \in {p1, p2} |-> IF p = p1 THEN 1 ELSE 2]

Init == \/ question = "leases" /\ InitRouting /\ InitWindows({TRUE})
        \/ question = "windows" /\ InitRouting /\ InitWindows({TRUE, FALSE})

NextLeases == question = "leases" /\ NextRouting /\ UNCHANGED <<question, windowVars>>

NextCounts == /\ question = "windows"
              /\ NextWindows \/ (tick = LastTick /\ UNCHANGED windowVars)
              /\ UNCHANGED <<question, routingVars>>

Fairness == /\ WF_routingVars(question = "leases" /\ Tick)
            /\ \A r \in Requests : WF_routingVars(question = "leases" /\ Proceed(r))

Spec == Init /\ [][NextLeases \/ NextCounts]_<<question, routingVars, windowVars>> /\ Fairness
=============================================================================

---------------------------- MODULE RateWindows ----------------------------
(***************************************************************************)
(* The rate limits of RateLimitService (assertScope over consume) for one  *)
(* identity: a counter in Redis that starts with the first request and     *)
(* expires a window later, whoever else knocks in between.  Where Redis    *)
(* does not answer, production refuses and other modes count in the memory *)
(* of the one replica they run.  Time is counted in ticks.                 *)
(***************************************************************************)
EXTENDS Integers, Sums

CONSTANTS
    WindowTicks,    \* windowMs
    RateLimit,      \* requests a window allows
    LastTick,       \* bound: when the clock stops
    MaxHits,        \* bound: requests in one tick
    MaxLosses       \* bound: how often Redis loses the counter

ASSUME WindowsAssumption ==
    /\ WindowTicks \in Nat \ {0} /\ RateLimit \in Nat \ {0}
    /\ LastTick \in Nat /\ MaxHits \in Nat /\ MaxLosses \in Nat

VARIABLES
    tick,           \* the time
    production,     \* NODE_ENV
    counter,        \* the key in Redis; a count of 0: there is none
    knocks,         \* knocks[t]: timestamps t kept in memory
    hits,           \* hits[t]: requests made at t
    allowed,        \* allowed[t]: requests let in at t
    losses          \* how often Redis lost the key

windowVars == <<tick, production, counter, knocks, hits, allowed, losses>>

Times == 0..LastTick
NoCounter == [count |-> 0, ttl |-> 0]
Never == [t \in Times |-> 0]

InitWindows(modes) ==
    /\ tick = 0
    /\ production \in modes
    /\ counter = NoCounter
    /\ knocks = Never /\ hits = Never /\ allowed = Never
    /\ losses = 0

(* Mutant: every request starts the window anew. *)
CountedFromLast(c) == [count |-> c.count + 1, ttl |-> WindowTicks]

(* CONSUME_WINDOW *)
Counted(c) == [count |-> c.count + 1, ttl |-> IF c.count = 0 THEN WindowTicks ELSE c.ttl]

(* The timestamps a window before are dropped, those of refused requests   *)
(* are not.                                                                *)
Recent(log) == [t \in Times |-> IF t > tick - WindowTicks THEN log[t] ELSE 0]

SumOver(f, S) == SumOf([t \in S |-> f[t]])

Knock == /\ hits[tick] < MaxHits
         /\ hits' = [hits EXCEPT ![tick] = @ + 1]
         /\ UNCHANGED <<tick, production, losses>>

Answer(in) == allowed' = [allowed EXCEPT ![tick] = @ + (IF in THEN 1 ELSE 0)]

(* Mutant: the limit is held against the count without this request. *)
ConsumeSharedLate ==
    /\ Knock
    /\ counter' = Counted(counter)
    /\ Answer(counter.count <= RateLimit)
    /\ UNCHANGED knocks

(* Redis answers. *)
ConsumeShared ==
    /\ Knock
    /\ counter' = Counted(counter)
    /\ Answer(counter'.count <= RateLimit)
    /\ UNCHANGED knocks

(* It does not, after the script has run or before. *)
ConsumeUnheard ==
    /\ Knock
    /\ counter' \in {counter, Counted(counter)}
    /\ IF production
       THEN Answer(FALSE) /\ UNCHANGED knocks
       ELSE /\ knocks' = [Recent(knocks) EXCEPT ![tick] = @ + 1]
            /\ Answer(SumOver(knocks', Times) <= RateLimit)

(* The clock, which ends the key of a window. *)
Tock ==
    /\ tick < LastTick
    /\ tick' = tick + 1
    /\ counter' = IF counter.ttl <= 1 THEN NoCounter ELSE [counter EXCEPT !.ttl = @ - 1]
    /\ UNCHANGED <<production, knocks, hits, allowed, losses>>

LoseCounter ==
    /\ losses < MaxLosses
    /\ counter.count > 0
    /\ counter' = NoCounter
    /\ losses' = losses + 1
    /\ UNCHANGED <<tick, production, knocks, hits, allowed>>

NextWindows == ConsumeShared \/ ConsumeUnheard \/ Tock \/ LoseCounter

SpecWindows == InitWindows({TRUE, FALSE}) /\ [][NextWindows]_windowVars

-----------------------------------------------------------------------------
Last(t) == {u \in Times : u > t - WindowTicks /\ u <= t}

(* The windows are fixed ones: a stretch of time as long as one may meet   *)
(* two of them, and one more with every key that Redis has lost; counting  *)
(* in memory, where it is allowed, adds another.  No more requests than    *)
(* that are let in.  And whoever makes no more than the limit in any       *)
(* stretch as long as a window is never turned away by the count, however  *)
(* the requests lie to the windows.                                        *)
BurstsAreBounded ==
    /\ \A t \in Times :
          SumOver(allowed, Last(t))
              <= RateLimit * (2 + losses + (IF production THEN 0 ELSE 1))
    /\ counter.count > RateLimit => SumOver(hits, Last(tick)) > RateLimit
=============================================================================

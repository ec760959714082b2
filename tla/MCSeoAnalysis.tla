---------------------------- MODULE MCSeoAnalysis ----------------------------
(***************************************************************************)
(* SeoAnalysis for TLC: small sets of runs and stores, and the claims of   *)
(* the repository that the code does not keep.                             *)
(***************************************************************************)
EXTENDS SeoAnalysis, FiniteSetsExt, TLC

CONSTANTS r1  \* one of the runs

OneStore == [r \in Run |-> "s1"]
TwoStores == [r \in Run |-> IF r = r1 THEN "s1" ELSE "s2"]

Total(f) == MapThenSumSet(LAMBDA r : f[r], Run)

-----------------------------------------------------------------------------
\* "Credits are reserved atomically in Redis while an AI run is in flight
\* (preventing concurrent overdraft)": what is held is covered by the balance,
\* when nobody is in the middle of a settlement.
NoOverdraft ==
    (\A p \in Proc : pc[p] \notin RedisStep \cup {"commit"})
    => Total(hold) <= balance

\* "SEO analysis already running for this store": one live run per store.
OneLiveRunPerStore ==
    \A q, r \in Run :
        /\ StoreOf[q] = StoreOf[r] /\ q # r
        /\ status[q] = "pending" /\ status[r] = "pending"
        => ~Fresh(q) \/ ~Fresh(r)

\* "held at start, settled on completion": a completed run has been charged.
CompletedRunIsCharged ==
    \A r \in Run : status[r] = "completed" => charged[r] > 0

\* "a runaway agent loop can never burn more than the tier's daily allowance,
\* regardless of balance" (checked within one day).
DailyAllowance == Total(charged) <= DailyCap

\* "Free a reservation without charging (failed/cancelled runs)".
FailedRunIsNotCharged ==
    \A r \in Run : status[r] = "failed" => charged[r] = 0

\* "settled against users.credits_balance on completion": the balance has paid
\* for every settlement it could afford.
BalancePays ==
    Total(charged) <= InitialBalance => balance = InitialBalance - Total(charged)

\* "Reservations expire automatically so a crashed worker never locks credits":
\* when no run holds credits, and none is about to give them back, none are
\* counted as held.
NothingHeldNothingReserved ==
    /\ \A r \in Run : hold[r] = 0
    /\ \A p \in Proc : pc[p] \notin RedisStep
    => reserved <= 0
=============================================================================

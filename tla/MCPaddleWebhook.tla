--------------------------- MODULE MCPaddleWebhook ---------------------------
(***************************************************************************)
(* PaddleWebhook for TLC: a subscription from its creation to its          *)
(* cancellation, a top-up, and what concurrency breaks.                    *)
(***************************************************************************)
EXTENDS PaddleWebhook, FiniteSetsExt, TLC

CONSTANTS starter, growth

Notice(type, plan, byUser, credits) ==
    [type |-> type, plan |-> plan, byUser |-> byUser, credits |-> credits]

\* A user subscribes, changes the plan and buys credits.
FirstPurchases ==
    { Notice("created", starter, TRUE, 0), Notice("updated", growth, FALSE, 0),
      Notice("topup", NoPlan, TRUE, 2) }

\* And pays again.
Purchases == FirstPurchases \cup { Notice("renewal", NoPlan, FALSE, 0) }

\* The other things that happen to a subscription.
Changes ==
    { Notice("created", NoPlan, TRUE, 0), Notice("cancelled", NoPlan, TRUE, 0),
      Notice("paused", NoPlan, FALSE, 0), Notice("resumed", NoPlan, TRUE, 0),
      Notice("payment_failed", NoPlan, FALSE, 0) }

MonthlyCredits == (Trial :> 1) @@ (starter :> 2) @@ (growth :> 4)

-----------------------------------------------------------------------------
LedgerTotal == MapThenSumSet(LAMBDA e : ledger[e], Event)

\* "keep users' subscription state and credit balances in sync with billing
\* events": when nothing is in flight, the balance is what was granted less
\* what was charged.
BalanceInSync ==
    /\ \A d \in Delivery : pc[d] \in Ended \cup {"idle"}
    /\ \A c \in Charge : task[c] # "read"
    => user.balance = InitialBalance + LedgerTotal - charged

\* "A successfully processed event is never re-applied".
NeverReapplied == \A e \in Event : applied[e] <= 1

\* GET /health answers: the event loop is never taken for good.
HealthAnswers == \A s \in Server : []<>(loop[s] = Nobody)
=============================================================================

----------------------------- MODULE MCFinance -----------------------------
(* TLC instance of Finance and of Billing, the two places that keep invoices.  They share no *)
(* state: a behaviour is one of the ledger or one of the subscription.  Requests and row ids *)
(* are interchangeable.                                                                      *)
EXTENDS Books, FiniteSetsExt, TLC

CONSTANT MaxBusy  \* bound on the ledger's requests once two have overlapped

VARIABLE part

ledgerSide ==
  <<today, locked, invoice, payments, refunds, credits, bank, expense, entry, requests, overlapped>>
subscriptionSide ==
  <<sub, contract, when, invoices, checkouts, recorded, verified, clerk, begun, renewed, unspent, asked,
    crossed>>

MCInit == /\ Ledger!Init /\ Subscription!Init
          /\ part \in {"ledger", "subscription"}
          /\ (part = "ledger" => contract.credit = Max(Credits))

MCNext ==
  /\ part' = part
  /\ \/ part = "ledger" /\ Ledger!Next /\ (overlapped' => requests' <= MaxBusy) /\ UNCHANGED subscriptionSide
     \/ part = "subscription" /\ Subscription!Next /\ UNCHANGED ledgerSide

MCSpec == MCInit /\ [][MCNext]_<<ledgerSide, subscriptionSide, part>>

FinanceSymmetry == Permutations(Clerks) \cup Permutations(PayIds)
MCMonths == 1..2

\* The webhooks that the provider may send, each of them any number of times.
MCNotices ==
  {[type |-> "invoice.paid", invoice |-> 1], [type |-> "invoice.payment_failed", invoice |-> 1],
   [type |-> "subscription.canceled", invoice |-> 0]}
=============================================================================

-------------------------------- MODULE Books --------------------------------
(* The two places that keep invoices beside other components: the finance ledger of one     *)
(* invoice and the subscription of one tenant.  Names that others use as well are told      *)
(* apart, what is assumed of the constants is said, and the properties are stated.          *)
EXTENDS Integers, FiniteSets

CONSTANTS Clerks,  \* requests that may be under way at the same time in each of the two
          Months, Totals, PayIds, RefundIds, CreditIds, MaxRequests,
          Notices, MaxPeriods, MaxInvoices, MaxCheckouts, Credits, Charges, MaxAsked

ASSUME LedgerAssumption ==
  /\ IsFiniteSet(Clerks) /\ MaxRequests \in Nat
  /\ IsFiniteSet(Months) /\ Months # {} /\ Months = 1..Cardinality(Months)
  /\ Totals \subseteq Nat /\ IsFiniteSet(Totals)
  /\ IsFiniteSet(PayIds) /\ IsFiniteSet(RefundIds) /\ IsFiniteSet(CreditIds)

\* No balance that the owner sets and no charge is negative.
ASSUME AmountsAssumption == Credits \subseteq Nat /\ Charges \subseteq Nat

VARIABLES today, locked, invoice, payments, refunds, credits, bank, expense, entry, requests, overlapped,
          sub, contract, when, invoices, checkouts, recorded, verified, clerk, begun, renewed, unspent,
          asked, crossed

Ledger == INSTANCE Finance WITH Threads <- Clerks, thread <- entry
Subscription == INSTANCE Billing

\* Under requests that come one at a time the books of an invoice balance.
SerialLedgerSound == Ledger!SerialLedgerSound

\* What is dated in a locked period stays as it is.
LockedPeriodKept == Ledger!LockedPeriodKept

\* Periods are renewed when paid, and billed once by requests that come one at a time.
BillsSound == Subscription!BillsSound
=============================================================================

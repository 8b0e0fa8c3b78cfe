------------------------------ MODULE Finance ------------------------------
(***************************************************************************)
(* The finance ledger of one invoice: payments, bank reconciliation,       *)
(* refunds, credit notes, sending, editing, cancelling and deleting it,    *)
(* expenses, and the accounting periods whose lock makes records           *)
(* read-only.                                                              *)
(*                                                                         *)
(* A request loads the invoice with its rows and checks them, flushes (the *)
(* period guard runs and the status is computed from fresh sums) and       *)
(* commits.  Nothing is locked: other requests commit in between.  Dates   *)
(* are months; amounts are small numbers of minor units.                   *)
(***************************************************************************)
EXTENDS Naturals, FiniteSets, FiniteSetsExt

CONSTANTS
  Threads,      \* requests that may be under way at the same time
  Months,       \* 1..n, the accounting periods
  Totals,       \* invoice totals that may be entered
  PayIds, RefundIds, CreditIds,  \* rows that may be made of each kind
  MaxRequests   \* bound on the number of requests

VARIABLES
  today,     \* the current month
  locked,    \* months whose FinanceAccountingPeriod is locked
  invoice,   \* the FinanceInvoice row, or None
  payments, refunds, credits,  \* id -> row or None
  bank,      \* one FinanceBankTransaction row, or None
  expense,   \* one FinanceExpense row, or None
  thread,    \* per request: what it loaded and found
  requests,  \* number of requests so far
  overlapped \* history: two requests on the invoice were under way at once

ledger == <<invoice, payments, refunds, credits, bank>>
vars == <<today, locked, invoice, payments, refunds, credits, bank, expense, thread, requests, overlapped>>

None == [kind |-> "none"]
Idle == [op |-> "idle"]

Amounts == 1..Max(Totals)

Init ==
  /\ today = 1 /\ locked = {} /\ invoice = None
  /\ payments = [i \in PayIds |-> None]
  /\ refunds = [i \in RefundIds |-> None]
  /\ credits = [i \in CreditIds |-> None]
  /\ bank = None /\ expense = None
  /\ thread = [t \in Threads |-> Idle]
  /\ requests = 0 /\ overlapped = FALSE

-----------------------------------------------------------------------------
(* Sums over the rows of the invoice. *)

Rows(f) == {i \in DOMAIN f : f[i] # None}
Free(f) == {i \in DOMAIN f : f[i] = None}
SumOver(f) == MapThenSumSet(LAMBDA i : f[i].amount, Rows(f))
Less(a, b) == IF a > b THEN a - b ELSE 0

Refunded(rs, i) == MapThenSumSet(LAMBDA r : rs[r].amount, {r \in Rows(rs) : rs[r].pay = i})
Paid(ps, rs) == Less(SumOver(ps), SumOver(rs))
Adjusted(total, cs) == Less(total, SumOver(cs))

\* Payments taken by hand are held against the gross payments, bank credits against the net.
OutstandingGross == Less(Adjusted(invoice.total, credits), SumOver(payments))
OutstandingNet == Less(Adjusted(invoice.total, credits), Paid(payments, refunds))

\* Mutant of Synced: a refunded invoice keeps its status.
SyncedUnlessRefund(inv, ps, rs, cs) ==
  LET adjusted == Adjusted(inv.total, cs) IN
  IF inv.status = "cancelled" THEN "cancelled"
  ELSE IF adjusted = 0 /\ SumOver(cs) > 0 THEN "credited"
  ELSE IF SumOver(ps) >= adjusted /\ adjusted > 0 THEN "paid"
  ELSE IF SumOver(ps) > 0 THEN "partial"
  ELSE IF inv.sent THEN "sent" ELSE "draft"

\* sync_invoice_payment_status on the loaded invoice inv and the sums of the rows.
Synced(inv, ps, rs, cs) ==
  LET adjusted == Adjusted(inv.total, cs)
      paid == Paid(ps, rs)
  IN IF inv.status = "cancelled" THEN "cancelled"
     ELSE IF adjusted = 0 /\ SumOver(cs) > 0 THEN "credited"
     ELSE IF paid >= adjusted /\ adjusted > 0 THEN "paid"
     ELSE IF paid > 0 THEN "partial"
     ELSE IF inv.sent THEN "sent"
     ELSE IF inv.status \in {"paid", "partial", "credited"} THEN "draft"
     ELSE inv.status

\* Assigning the status, even the same one, makes the invoice part of the flush.
Assigned(inv, new) == inv.status # "cancelled" /\ (new # inv.status \/ new \notin {"draft", "failed"})

-----------------------------------------------------------------------------
(* A request: loaded, then flushed, then committed.                          *)

Counted == requests < MaxRequests /\ requests' = requests + 1

\* row is the row to add, id the one to change or delete.
Load(t, op, row, id) ==
  /\ Counted /\ invoice # None /\ thread[t] = Idle
  /\ thread' = [thread EXCEPT ![t] = [op |-> op, row |-> row, id |-> id, inv |-> invoice,
                                      flushed |-> FALSE, new |-> invoice, open |-> {}]]
  /\ overlapped' = (overlapped \/ \E u \in Threads : thread[u] # Idle)
  /\ UNCHANGED <<today, locked, expense>> /\ UNCHANGED ledger

\* record_invoice_payment
PayBegin(t, amount, month) ==
  /\ invoice # None /\ invoice.status # "cancelled" /\ amount <= OutstandingGross
  /\ \E i \in Free(payments) :
       Load(t, "pay", [kind |-> "payment", amount |-> amount, month |-> month], i)

\* reconcile_bank_row: also for a cancelled invoice; what exceeds the balance is dropped.
ReconcileBegin(t) ==
  /\ bank # None /\ bank.status # "matched"
  /\ invoice # None /\ OutstandingNet > 0
  /\ \E i \in Free(payments) :
       Load(t, "reconcile", [kind |-> "payment", month |-> bank.month,
                             amount |-> IF bank.amount < OutstandingNet THEN bank.amount
                                                                        ELSE OutstandingNet], i)

\* create_refund
RefundBegin(t, p, amount, month) ==
  /\ payments[p] # None /\ month \notin locked
  /\ amount <= Less(payments[p].amount, Refunded(refunds, p))
  /\ \E i \in Free(refunds) :
       Load(t, "refund", [kind |-> "refund", pay |-> p, amount |-> amount, month |-> month], i)

\* create_credit_note
CreditBegin(t, amount) ==
  /\ invoice # None /\ invoice.status # "cancelled"
  /\ amount <= Adjusted(invoice.total, credits)
  /\ \E i \in Free(credits) : Load(t, "credit", [kind |-> "credit", amount |-> amount, month |-> today], i)

DeletePaymentBegin(t, p) == payments[p] # None /\ Load(t, "delete_payment", payments[p], p)

CancelBegin(t) ==
  /\ invoice # None /\ invoice.status \notin {"paid", "credited"}
  /\ Load(t, "cancel", None, None)

\* send_finance_invoice, bulk_send_invoices: a sent invoice only on request.
SendBegin(t) ==
  /\ invoice # None /\ invoice.status \notin {"paid", "cancelled", "credited"}
  /\ Load(t, "send", None, None)

EditBegin(t, total) ==
  /\ invoice # None /\ ~invoice.sent /\ invoice.status \in {"draft", "failed"}
  /\ Rows(payments) = {} /\ Rows(credits) = {}
  /\ Load(t, "edit", [invoice EXCEPT !.total = total, !.status = "draft"], None)

DeleteInvoiceBegin(t) == invoice # None /\ Load(t, "delete_invoice", None, None)

\* The rows of the ledger once request r has written its own.
PaymentsAfter(r) ==
  CASE r.op \in {"pay", "reconcile"} -> [payments EXCEPT ![r.id] = r.row]
    [] r.op = "delete_payment" -> [payments EXCEPT ![r.id] = None]
    [] OTHER -> payments
RefundsAfter(r) ==
  CASE r.op = "refund" -> [refunds EXCEPT ![r.id] = r.row]
    [] r.op = "delete_payment" -> [i \in RefundIds |-> IF refunds[i] # None /\ refunds[i].pay = r.id
                                                       THEN None ELSE refunds[i]]
    [] OTHER -> refunds
CreditsAfter(r) == IF r.op = "credit" THEN [credits EXCEPT ![r.id] = r.row] ELSE credits

\* The invoice as the request means to write it.
InvoiceAfter(r) ==
  CASE r.op = "edit" -> r.row
    [] r.op = "cancel" -> [r.inv EXCEPT !.status = "cancelled"]
    [] OTHER -> [r.inv EXCEPT !.status = Synced(r.inv, PaymentsAfter(r), RefundsAfter(r), CreditsAfter(r))]

\* Mutant of Touched: only the date of the row itself is looked at.
TouchedRow(r) ==
  IF r.row # None /\ r.op # "edit" THEN {r.row.month} ELSE {r.inv.month}

\* The months of everything the flush adds, changes or deletes; rows that the database
\* deletes by itself (the refunds of a payment) are not among them.
Touched(r) ==
  (IF r.op \in {"cancel", "edit", "send", "delete_invoice"} \/ Assigned(r.inv, InvoiceAfter(r).status)
     THEN {r.inv.month} ELSE {})
  \cup (IF r.op \in {"pay", "reconcile", "refund", "credit", "delete_payment"} THEN {r.row.month} ELSE {})
  \cup (IF r.op = "delete_invoice" THEN {payments[i].month : i \in Rows(payments)}
                                        \cup {credits[i].month : i \in Rows(credits)} ELSE {})

\* create_refund and delete_finance_payment load the invoice only after their first flush.
Reloaded(r) == IF r.op \in {"refund", "delete_payment"} THEN [r EXCEPT !.inv = invoice] ELSE r

\* _guard_locked_finance_periods lets the flush pass, and the status is computed.
Flush(t) ==
  /\ thread[t] # Idle /\ ~thread[t].flushed /\ invoice # None
  /\ LET r == Reloaded(thread[t]) IN
     /\ Touched(r) \cap locked = {}
     /\ \E new \in IF r.op # "send" THEN {InvoiceAfter(r)}
                   ELSE {[r.inv EXCEPT !.status = "sent", !.sent = TRUE],    \* the SMTP server accepts
                         [r.inv EXCEPT !.status = "failed"]} :
          thread' = [thread EXCEPT ![t] = [r EXCEPT !.flushed = TRUE, !.open = Months \ locked, !.new = new]]
  /\ UNCHANGED <<today, locked, expense, requests, overlapped>> /\ UNCHANGED ledger

\* 404, 409, 422, a guarded period, a client that left: nothing is written.
Abandon(t) ==
  /\ thread[t] # Idle
  /\ thread' = [thread EXCEPT ![t] = Idle]
  /\ UNCHANGED <<today, locked, expense, requests, overlapped>> /\ UNCHANGED ledger

\* Only columns that differ from what was loaded are written.
Written(t) ==
  LET r == thread[t] IN
  [c \in DOMAIN invoice |-> IF r.new[c] = r.inv[c] THEN invoice[c] ELSE r.new[c]]

\* Rows that went away meanwhile make the commit fail.
StillThere(r) ==
  /\ invoice # None
  /\ r.op = "refund" => payments[r.row.pay] # None
  /\ r.op = "delete_payment" => payments[r.id] = r.row
  /\ r.op \in {"pay", "reconcile"} => payments[r.id] = None
  /\ r.op = "refund" => refunds[r.id] = None
  /\ r.op = "credit" => credits[r.id] = None

Commit(t) ==
  LET r == thread[t] IN
  /\ r # Idle /\ r.flushed /\ StillThere(r)
  /\ IF r.op = "delete_invoice"
       THEN /\ invoice' = None
            /\ payments' = [i \in PayIds |-> None] /\ refunds' = [i \in RefundIds |-> None]
            /\ credits' = [i \in CreditIds |-> None]
       ELSE /\ invoice' = Written(t)
            /\ payments' = PaymentsAfter(r) /\ refunds' = RefundsAfter(r) /\ credits' = CreditsAfter(r)
  /\ bank' = IF r.op = "reconcile" THEN [bank EXCEPT !.status = "matched"] ELSE bank
  /\ thread' = [thread EXCEPT ![t] = Idle]
  /\ UNCHANGED <<today, locked, expense, requests, overlapped>>

-----------------------------------------------------------------------------
(* Requests that read and write one row. *)

Alone == UNCHANGED <<thread, overlapped>> /\ Counted

CreateInvoice(total) ==
  /\ invoice = None /\ today \notin locked
  /\ \A t \in Threads : thread[t] = Idle   \* the next invoice is another row
  /\ invoice' = [kind |-> "invoice", total |-> total, status |-> "draft", sent |-> FALSE, month |-> today]
  /\ Alone /\ UNCHANGED <<today, locked, payments, refunds, credits, bank, expense>>

\* A row that was imported before is a duplicate and is left out.
ImportBankRow(amount, month) ==
  /\ bank = None /\ month \notin locked
  /\ bank' = [kind |-> "bank", amount |-> amount, month |-> month, status |-> "unmatched"]
  /\ Alone /\ UNCHANGED <<today, locked, invoice, payments, refunds, credits, expense>>

IgnoreBankRow ==
  /\ bank # None /\ bank.status = "unmatched" /\ bank.month \notin locked
  /\ bank' = [bank EXCEPT !.status = "ignored"]
  /\ Alone /\ UNCHANGED <<today, locked, invoice, payments, refunds, credits, expense>>

CreateExpense(month) ==
  /\ expense = None /\ month \notin locked
  /\ expense' = [kind |-> "expense", month |-> month, status |-> "posted"]
  /\ Alone /\ UNCHANGED <<today, locked>> /\ UNCHANGED ledger

VoidExpense ==
  /\ expense # None /\ expense.month \notin locked
  /\ expense' = [expense EXCEPT !.status = "void"]
  /\ Alone /\ UNCHANGED <<today, locked>> /\ UNCHANGED ledger

ClosePeriod(month) ==
  /\ locked' = locked \cup {month}
  /\ Alone /\ UNCHANGED <<today, expense>> /\ UNCHANGED ledger

OpenPeriod(month) ==
  /\ month \in locked /\ locked' = locked \ {month}
  /\ Alone /\ UNCHANGED <<today, expense>> /\ UNCHANGED ledger

NextMonth ==
  /\ today + 1 \in Months /\ today' = today + 1
  /\ UNCHANGED <<locked, expense, thread, requests, overlapped>> /\ UNCHANGED ledger

-----------------------------------------------------------------------------
Next ==
  \/ \E t \in Threads :
       \/ \E a \in Amounts, m \in Months : PayBegin(t, a, m)
       \/ \E p \in PayIds : \/ \E a \in Amounts, m \in Months : RefundBegin(t, p, a, m)
                            \/ DeletePaymentBegin(t, p)
       \/ \E a \in Amounts : CreditBegin(t, a)
       \/ \E a \in Totals : EditBegin(t, a)
       \/ ReconcileBegin(t) \/ CancelBegin(t) \/ SendBegin(t) \/ DeleteInvoiceBegin(t)
       \/ Flush(t) \/ Commit(t) \/ Abandon(t)
  \/ \E a \in Totals : CreateInvoice(a)
  \/ \E m \in Months : \/ \E a \in Amounts : ImportBankRow(a, m)
                       \/ CreateExpense(m) \/ ClosePeriod(m) \/ OpenPeriod(m)
  \/ IgnoreBankRow \/ VoidExpense \/ NextMonth

Spec == Init /\ [][Next]_vars

-----------------------------------------------------------------------------
(* Properties. *)

Settled ==
  /\ invoice.total > 0
  /\ Adjusted(invoice.total, credits) <= Paid(payments, refunds) \/ Adjusted(invoice.total, credits) = 0

\* One request at a time, the books balance: no payment is refunded beyond its amount, the
\* invoice is never paid or credited beyond its total, and its status says settled (paid or
\* credited) exactly when the money does; an invoice for nothing never does, although
\* nothing of it is due (record_invoice_payment, create_refund, create_credit_note,
\* sync_invoice_payment_status).  Requests that overlap can break it.
SerialLedgerSound ==
  ~overlapped /\ invoice # None =>
    /\ \A p \in Rows(payments) : Refunded(refunds, p) <= payments[p].amount
    /\ Paid(payments, refunds) <= invoice.total /\ SumOver(credits) <= invoice.total
    /\ invoice.status # "cancelled" => (invoice.status \in {"paid", "credited"} <=> Settled)

\* What is dated in month m and guarded: the status of the invoice and of the rows, apart
\* from refunds whose payment goes.
DatedIn(m, inv, ps, rs, cs, b, e, kept) ==
  << inv # None /\ inv.month = m, IF inv # None /\ inv.month = m THEN inv ELSE None,
     {<<i, ps[i]>> : i \in {j \in Rows(ps) : ps[j].month = m}},
     {<<i, rs[i]>> : i \in {j \in Rows(rs) : rs[j].month = m /\ rs[j].pay \in kept}},
     {<<i, cs[i]>> : i \in {j \in Rows(cs) : cs[j].month = m}},
     IF b # None /\ b.month = m THEN b ELSE None, IF e # None /\ e.month = m THEN e ELSE None >>

\* A locked period is read-only: while it stays locked nothing dated in it appears, changes
\* or goes, unless by a request whose flush had found it open (the before_flush guard).  The
\* rows that the database deletes by itself are the exception: the refunds of a payment, and
\* what another request adds to an invoice after its deletion was flushed.
LockedPeriodKept ==
  [][\A m \in locked \cap locked' :
       LET kept == Rows(payments) \cap Rows(payments') IN
       DatedIn(m, invoice, payments, refunds, credits, bank, expense, kept)
         # DatedIn(m, invoice', payments', refunds', credits', bank', expense', kept)
       => \E t \in Threads :
            /\ Commit(t)
            /\ m \in thread[t].open \/ (thread[t].op = "delete_invoice" /\ overlapped)]_vars
=============================================================================

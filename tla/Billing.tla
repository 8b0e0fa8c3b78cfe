------------------------------- MODULE Billing -------------------------------
(***************************************************************************)
(* The subscription of one tenant: its invoices, the provider's webhooks,  *)
(* DPO checkouts and their callbacks, payments marked by hand, and the     *)
(* billing cycle that bills, renews and cancels.                           *)
(*                                                                         *)
(* A request loads rows and commits later; only columns that differ from   *)
(* what was loaded are written, and nothing is locked.  capture_usage      *)
(* commits in the middle of billing, after which the rows are read again.  *)
(* Periods are numbered as they begin; the cycle is run at least once in   *)
(* each.  Plans, add-ons, overage and the contract's interval and discount *)
(* are in what a period may cost, any amount of Charges, nothing included; *)
(* its lead and grace days in when time passes.  A trialing subscription   *)
(* is handled as an active one throughout.                                 *)
(***************************************************************************)
EXTENDS Integers, Sequences, FiniteSets, FiniteSetsExt

CONSTANTS
  Clerks,       \* requests that may be under way at the same time
  Notices,      \* webhook events: their type and invoice
  MaxPeriods,   \* bound on the periods begun
  MaxInvoices,  \* bound on the invoices
  MaxCheckouts, \* bound on the checkouts
  Credits,      \* the credit balances the owner sets
  Charges,      \* what a period may cost after the discount, before credit
  MaxAsked      \* bound on the requests

VARIABLES
  sub,         \* the TenantSubscription row, or NoSub
  contract,    \* the BillingContract row: auto_renew and the credit left
  when,        \* the time in the current period: early, lead (an invoice is due), ended
  invoices,    \* BillingInvoice rows
  checkouts,   \* DPO transactions: their invoice, and whether the customer has paid
  recorded,    \* BillingPaymentEvent rows of webhooks: none, processed, failed
  verified,    \* BillingPaymentEvent rows of DPO: transaction and result
  clerk,       \* per request: what it does and what it has loaded
  begun,       \* history: the number of the last period
  renewed,     \* history: periods that the cycle renewed, each with the one that follows
  unspent,     \* history: credit that the owner has granted and no invoice has used
  asked,       \* the requests so far, a bound
  crossed      \* history: two requests were under way at the same time

billingVars ==
  <<sub, contract, when, invoices, checkouts, recorded, verified, clerk, begun, renewed, unspent, asked,
    crossed>>
money == <<contract, begun, renewed, unspent>>

NoSub == [status |-> "absent", period |-> 0, grace |-> "none"]
Off == [op |-> "off"]

Init ==
  /\ sub = NoSub /\ when = "early" /\ contract \in [renew : {TRUE}, credit : Credits]
  /\ invoices = <<>> /\ checkouts = <<>>
  /\ recorded = [n \in Notices |-> "none"] /\ verified = {}
  /\ clerk = [c \in Clerks |-> Off]
  /\ begun = 0 /\ renewed = {} /\ unspent = contract.credit /\ asked = 0 /\ crossed = FALSE

-----------------------------------------------------------------------------
(* Requests and rows. *)

\* A request begins with what it has loaded.
Begin(c, r) ==
  /\ clerk[c] = Off /\ clerk' = [clerk EXCEPT ![c] = r]
  /\ asked < MaxAsked /\ asked' = asked + 1
  /\ crossed' = (crossed \/ \E d \in Clerks \ {c} : clerk[d] # Off)
End(c) == clerk' = [clerk EXCEPT ![c] = Off] /\ UNCHANGED <<asked, crossed>>

\* A refusal, a conflict of unique columns at the flush or commit, a failing provider, a crash.
Abandon(c) ==
  /\ clerk[c] # Off /\ End(c)
  /\ UNCHANGED <<money, sub, when, invoices, checkouts, recorded, verified>>

\* What the subscription becomes: columns that the request has not changed stay as they are now.
Stored(old, new) ==
  [status |-> IF new.status # old.status THEN new.status ELSE sub.status,
   period |-> IF new.period # old.period THEN new.period ELSE sub.period,
   grace |-> IF new.grace = "new" THEN "running" ELSE IF new.grace # old.grace THEN new.grace ELSE sub.grace]

Activated(s) == IF s = NoSub THEN s ELSE [s EXCEPT !.status = "active", !.grace = "none"]
Overdue(s) == [s EXCEPT !.status = "past_due", !.grace = "new"]
Paid(i) == [invoices EXCEPT ![i].status = "paid"]

\* The invoice that a lookup by period finds, 0 for none; with several it is any of them.
Found(p) == LET hits == {i \in DOMAIN invoices : invoices[i].period = p} IN IF hits = {} THEN {0} ELSE hits
Invoice(p, status) == [period |-> p, status |-> status, token |-> 0]

-----------------------------------------------------------------------------
(* Time, the owner, the customer. *)

TimePasses ==
  /\ \/ /\ sub # NoSub /\ when # "ended" /\ UNCHANGED sub
        /\ when' = IF when = "early" THEN "lead" ELSE "ended"
     \/ sub.grace = "running" /\ sub' = [sub EXCEPT !.grace = "over"] /\ UNCHANGED when
  /\ UNCHANGED <<money, invoices, checkouts, recorded, verified, clerk, asked, crossed>>

\* assign_subscription: a new period, whatever the status.
AssignBegin(c, status) ==
  /\ begun < MaxPeriods /\ Begin(c, [op |-> "assign", sub |-> sub, status |-> status])
  /\ UNCHANGED <<money, sub, when, invoices, checkouts, recorded, verified>>

\* Two first assignments conflict on the tenant.
Assign(c) ==
  LET r == clerk[c]
      new == [status |-> r.status, period |-> begun + 1,
              grace |-> IF r.status # "past_due" THEN "none" ELSE r.sub.grace]
  IN
  /\ r.op = "assign" /\ begun < MaxPeriods /\ (r.sub = NoSub => sub = NoSub) /\ End(c)
  /\ sub' = Stored(r.sub, new)
  /\ begun' = begun + 1 /\ when' = "early"
  /\ UNCHANGED <<contract, renewed, unspent, invoices, checkouts, recorded, verified>>

\* update_contract: a patch sets columns of the row that was loaded; the others stay as they are now.
UpdateBegin(c, new) ==
  /\ Begin(c, [op |-> "update", contract |-> contract, new |-> new])
  /\ UNCHANGED <<money, sub, when, invoices, checkouts, recorded, verified>>

UpdateContract(c) ==
  LET old == clerk[c].contract
      new == clerk[c].new
  IN
  /\ clerk[c].op = "update" /\ End(c)
  /\ contract' = [renew |-> IF new.renew # old.renew THEN new.renew ELSE contract.renew,
                  credit |-> IF new.credit # old.credit THEN new.credit ELSE contract.credit]
  /\ unspent' = unspent + (new.credit - old.credit)
  /\ UNCHANGED <<sub, when, invoices, checkouts, recorded, verified, begun, renewed>>

\* mark_invoice_paid_manual
MarkPaidBegin(c, i) ==
  /\ Begin(c, [op |-> "mark", sub |-> sub, invoice |-> i])
  /\ UNCHANGED <<money, sub, when, invoices, checkouts, recorded, verified>>

MarkPaid(c) ==
  /\ clerk[c].op = "mark" /\ End(c)
  /\ invoices' = Paid(clerk[c].invoice) /\ sub' = Stored(clerk[c].sub, Activated(clerk[c].sub))
  /\ UNCHANGED <<money, when, checkouts, recorded, verified>>

-----------------------------------------------------------------------------
(* Webhooks of the payment provider: process_payment_event. *)

\* The event's row is inserted first; a copy that overlaps waits for it and then conflicts.
NoticeBegin(c, n) ==
  /\ recorded[n] = "none" /\ \A d \in Clerks : clerk[d].op = "notice" => clerk[d].notice # n
  /\ Begin(c, [op |-> "notice", notice |-> n, sub |-> sub,
               known |-> n.invoice \in DOMAIN invoices])
  /\ UNCHANGED <<money, sub, when, invoices, checkouts, recorded, verified>>

\* What a webhook asks for that cannot be done, such as a payment of an unknown invoice.
Impossible(r) ==
  CASE r.notice.type = "invoice.paid" -> ~r.known
    [] r.notice.type = "unsupported" -> TRUE
    [] OTHER -> r.sub = NoSub

\* A failed payment puts an invoice that was not paid when it was loaded back to open, as it
\* was, so no column is written.
NoticeApply(c) ==
  LET r == clerk[c] IN
  /\ r.op = "notice" /\ ~Impossible(r) /\ End(c)
  /\ sub' = Stored(r.sub, CASE r.notice.type = "invoice.payment_failed" -> Overdue(r.sub)
                            [] r.notice.type = "subscription.canceled" ->
                                 [r.sub EXCEPT !.status = "canceled", !.grace = "none"]
                            [] OTHER -> Activated(r.sub))
  /\ invoices' = IF r.notice.type = "invoice.paid" THEN Paid(r.notice.invoice) ELSE invoices
  /\ recorded' = [recorded EXCEPT ![r.notice] = "processed"]
  /\ UNCHANGED <<money, when, checkouts, verified>>

\* The row stays, so the event is a duplicate when it comes again, and never applied.
NoticeFails(c) ==
  /\ clerk[c].op = "notice" /\ Impossible(clerk[c]) /\ End(c)
  /\ recorded' = [recorded EXCEPT ![clerk[c].notice] = "failed"]
  /\ UNCHANGED <<money, sub, when, invoices, checkouts, verified>>

-----------------------------------------------------------------------------
(* DPO: create_dpo_checkout, and _complete_dpo_payment whenever DPO or a browser calls it. *)

CheckoutBegin(c, i) ==
  /\ invoices[i].status = "open" /\ Begin(c, [op |-> "checkout", invoice |-> i])
  /\ UNCHANGED <<money, sub, when, invoices, checkouts, recorded, verified>>

\* The invoice knows its last transaction only.
Checkout(c) ==
  /\ clerk[c].op = "checkout" /\ Len(checkouts) < MaxCheckouts /\ End(c)
  /\ checkouts' = Append(checkouts, [invoice |-> clerk[c].invoice, paid |-> FALSE])
  /\ invoices' = [invoices EXCEPT ![clerk[c].invoice].token = Len(checkouts')]
  /\ UNCHANGED <<money, sub, when, recorded, verified>>

\* The customer pays at DPO.
CustomerPays(k) ==
  /\ ~checkouts[k].paid /\ checkouts' = [checkouts EXCEPT ![k].paid = TRUE]
  /\ UNCHANGED <<money, sub, when, invoices, recorded, verified, clerk, asked, crossed>>

CallbackBegin(c, k) ==
  /\ invoices[checkouts[k].invoice].token = k
  /\ Begin(c, [op |-> "callback", checkout |-> k, result |-> <<k, checkouts[k].paid>>, sub |-> sub,
               first |-> <<k, checkouts[k].paid>> \notin verified])
  /\ UNCHANGED <<money, sub, when, invoices, checkouts, recorded, verified>>

\* A transaction that was paid activates the subscription again each time it is verified.
Callback(c) ==
  LET r == clerk[c]
      paid == r.result[2]
  IN
  /\ r.op = "callback" /\ (r.first => r.result \notin verified) /\ End(c)
  /\ verified' = verified \cup {r.result}
  /\ invoices' = IF paid THEN Paid(checkouts[r.checkout].invoice) ELSE invoices
  /\ sub' = IF paid THEN Stored(r.sub, Activated(r.sub)) ELSE sub
  /\ UNCHANGED <<money, when, checkouts, recorded>>

-----------------------------------------------------------------------------
(* Billing. *)

\* generate_invoice: no invoice of the period is found, the usage is committed ...
GenerateBegin(c) ==
  /\ sub # NoSub /\ Found(sub.period) = {0} /\ Begin(c, [op |-> "generate"])
  /\ UNCHANGED <<money, sub, when, invoices, checkouts, recorded, verified>>

\* ... and the subscription read again.
Generate(c) ==
  /\ clerk[c].op = "generate" /\ Len(invoices) < MaxInvoices /\ End(c)
  /\ invoices' = Append(invoices, Invoice(sub.period, "open"))
  /\ UNCHANGED <<money, sub, when, checkouts, recorded, verified>>

\* run_billing_cycle loads the subscription, the contract and the invoice of the period.  An
\* invoice that is due is generated: generate_contract_invoice.
Due(i) == contract.renew /\ i = 0 /\ when # "early" /\ sub.status # "canceled"

CycleBegin(c) ==
  /\ sub # NoSub
  /\ \E i \in Found(sub.period) :
       Begin(c, [op |-> IF Due(i) THEN "bill" ELSE "cycle", sub |-> sub, contract |-> contract,
                 ended |-> when = "ended", bill |-> "none", draw |-> 0,
                 status |-> IF i = 0 THEN "none" ELSE invoices[i].status])
  /\ UNCHANGED <<money, sub, when, invoices, checkouts, recorded, verified>>

\* The credit that was loaded pays for the period as far as it goes, and nothing left to pay is
\* paid; then capture_usage commits and everything is read again.
CycleBill(c, charge) ==
  LET r == clerk[c]
      draw == Min({charge, Max({0, r.contract.credit})})
      status == IF charge - draw > 0 THEN "open" ELSE "paid"
  IN
  /\ r.op = "bill"
  /\ clerk' = [clerk EXCEPT ![c] =
       [r EXCEPT !.op = "cycle", !.sub = sub, !.contract = contract, !.bill = status, !.draw = draw,
                 !.status = status, !.ended = @ /\ sub.period = r.sub.period]]
  /\ UNCHANGED <<money, sub, when, invoices, checkouts, recorded, verified, asked, crossed>>

\* Mutant of Renews: what was billed in this pass counts as paid.
RenewsBilled(r) == r.ended /\ r.contract.renew /\ (r.status = "paid" \/ r.bill # "none")

\* A period that has ended is renewed if its invoice is paid ...
Renews(r) == r.ended /\ r.contract.renew /\ r.status = "paid"

Following(p) == IF \E e \in renewed : e[1] = p THEN (CHOOSE e \in renewed : e[1] = p)[2] ELSE begun + 1

\* ... and is overdue otherwise, also when the subscription was canceled.
Cycled(r) ==
  IF ~r.ended THEN r.sub
  ELSE IF ~r.contract.renew THEN [r.sub EXCEPT !.status = "canceled"]
  ELSE IF Renews(r) THEN [Activated(r.sub) EXCEPT !.period = Following(r.sub.period)]
  ELSE IF r.sub.status # "past_due" THEN Overdue(r.sub)
  ELSE r.sub

\* All of it is one commit.  The credit is written as the balance that was read less what was used.
Cycle(c) ==
  LET r == clerk[c] IN
  /\ r.op = "cycle" /\ End(c)
  /\ sub' = Stored(r.sub, Cycled(r))
  /\ IF r.bill = "none" THEN UNCHANGED invoices
     ELSE Len(invoices) < MaxInvoices /\ invoices' = Append(invoices, Invoice(r.sub.period, r.bill))
  /\ contract' = IF r.draw = 0 THEN contract ELSE [contract EXCEPT !.credit = r.contract.credit - r.draw]
  /\ unspent' = unspent - r.draw
  /\ IF Renews(r)
       THEN LET next == Following(r.sub.period) IN
            /\ next <= MaxPeriods /\ begun' = Max({begun, next})
            /\ renewed' = renewed \cup {<<r.sub.period, next>>}
            /\ when' = IF sub.period = next THEN when ELSE "early"
       ELSE UNCHANGED <<begun, renewed, when>>
  /\ UNCHANGED <<checkouts, recorded, verified>>

-----------------------------------------------------------------------------
Request(c) ==
  \/ \E s \in {"active", "past_due", "canceled"} : AssignBegin(c, s)
  \/ \E i \in DOMAIN invoices : MarkPaidBegin(c, i) \/ CheckoutBegin(c, i)
  \/ \E n \in Notices : NoticeBegin(c, n)
  \/ \E k \in DOMAIN checkouts : CallbackBegin(c, k)
  \/ GenerateBegin(c) \/ CycleBegin(c)
  \/ Assign(c) \/ MarkPaid(c) \/ NoticeApply(c) \/ NoticeFails(c) \/ Checkout(c) \/ Callback(c)
  \/ \E on \in BOOLEAN, credit \in Credits \cup {contract.credit} :
       UpdateBegin(c, [renew |-> on, credit |-> credit])
  \/ \E charge \in Charges : CycleBill(c, charge)
  \/ Generate(c) \/ Cycle(c) \/ UpdateContract(c) \/ Abandon(c)

Next ==
  \/ \E c \in Clerks : Request(c)
  \/ TimePasses \/ \E k \in DOMAIN checkouts : CustomerPays(k)

Spec == Init /\ [][Next]_billingVars

-----------------------------------------------------------------------------
(* Properties. *)

\* No period is renewed unless an invoice of it is paid, and stays so, however requests overlap;
\* and as long as requests come one at a time a period has one invoice, whichever of the three
\* paths made it, and the balance is the credit that was granted less what invoices have used,
\* never below zero (run_billing_cycle, generate_contract_invoice, generate_invoice,
\* process_payment_event, update_contract).
BillsSound ==
  /\ \A e \in renewed : \E i \in DOMAIN invoices : invoices[i].period = e[1] /\ invoices[i].status = "paid"
  /\ ~crossed => /\ \A i, j \in DOMAIN invoices : invoices[i].period = invoices[j].period => i = j
                 /\ contract.credit = unspent /\ unspent >= 0
=============================================================================

-------------------------------- MODULE Billing --------------------------------
(***************************************************************************)
(* One invoice with its line items, payments, refunds, webhook journal and *)
(* coupon, and the requests and webhooks that work on it concurrently.     *)
(* One action per awaited call; a request may be abandoned between any     *)
(* two.  Amounts are whole numbers, so the tolerance of 0.0001 vanishes.   *)
(* The gateway adapter is configured, as in InvoicesService.withGateways.  *)
(***************************************************************************)
EXTENDS Naturals, Sequences, FiniteSets, Functions

CONSTANTS Figure,        \* subtotal plus tax of the drafts that clients write
          Discount,      \* what the coupon is worth
          BillingRequest,       \* requests and webhooks in flight at once
          MaxRequests,   \* bound: requests and deliveries altogether
          MaxPayments,   \* bound: payments of the invoice
          MaxReturned    \* bound: what the gateway pays back of one payment

ASSUME BillingAssumption ==
    /\ Figure \subseteq Nat \ {0} /\ Figure # {}
    /\ Discount \in Nat \ {0}
    /\ MaxRequests \in Nat /\ MaxPayments \in Nat /\ MaxReturned \in Nat

VARIABLES invoice,    \* status, gross = subtotal + tax, discount, total and amountPaid
          lines,      \* sum of the line item rows
          payments,   \* payment rows in insertion order
          refunded,   \* refunded[k]: sum of the refund rows of payment k
          redeemed,   \* the invoice's coupon redemption exists
          journal,    \* payments whose completion event is journaled
          captured,   \* gateway: checkouts the customer completed
          returned,   \* gateway: returned[k], what was paid back of payment k
          acked,      \* gateway: completion events that were answered 200
          task,       \* task[p]: what request p is about to do and remembers
          begun,      \* bound: requests that have begun
          disturbed   \* history: two reconciliations or two edits overlapped,
                      \* or one was cut short

gatewayVars == <<captured, returned, acked>>
rowVars == <<invoice, lines, payments, refunded, redeemed, journal>>
billingVars == <<rowVars, gatewayVars, task, begun, disturbed>>

NoTask == [at |-> "rest"]
Slot == 1..MaxPayments
BillingTask ==
    [at : {"insertPayment", "insertManual", "journal", "setSucceeded", "gatewayRefund",
           "insertRefund", "sum", "sumRefunds", "setAmountPaid", "getInvoice", "paid",
           "partially_paid", "issued", "void", "writeFigures", "deleteLines", "createLines",
           "redeem"},
     payment : 0..MaxPayments, amount : Nat]

BillingTypeOK ==
    /\ invoice \in [status : {"draft", "issued", "partially_paid", "paid", "void"},
                    gross : Nat, discount : Nat, total : Nat, amountPaid : Nat]
    /\ lines \in Nat
    /\ payments \in Seq([manual : BOOLEAN, amount : Nat \ {0}, status : {"pending", "succeeded"}])
    /\ refunded \in [Slot -> Nat]
    /\ redeemed \in BOOLEAN
    /\ journal \in SUBSET Slot
    /\ captured \in SUBSET Slot
    /\ returned \in [Slot -> Nat]
    /\ acked \in SUBSET Slot
    /\ task \in [BillingRequest -> {NoTask} \union BillingTask]
    /\ begun \in 0..MaxRequests
    /\ disturbed \in BOOLEAN

BillingInit ==
    /\ \E f \in Figure :
          /\ invoice = [status |-> "draft", gross |-> f, discount |-> 0, total |-> f, amountPaid |-> 0]
          /\ lines = f
    /\ payments = <<>>
    /\ refunded = [k \in Slot |-> 0]
    /\ redeemed = FALSE
    /\ journal = {}
    /\ captured = {}
    /\ returned = [k \in Slot |-> 0]
    /\ acked = {}
    /\ task = [p \in BillingRequest |-> NoTask]
    /\ begun = 0
    /\ disturbed = FALSE

BillingAt(p, step) == task[p].at = step

\* Requests that changed a payment or refund and have not written amountPaid
\* yet, and those that changed the figures and not yet the line items.
Reconciling == {p \in BillingRequest : task[p].at \in {"sum", "sumRefunds", "setAmountPaid"}}
Editing == {p \in BillingRequest : task[p].at \in {"deleteLines", "createLines"}}

BillingPut(p, r) ==
    /\ task' = [task EXCEPT ![p] = r]
    /\ disturbed' = (disturbed \/ Cardinality(Reconciling') > 1 \/ Cardinality(Editing') > 1)

BillingDo(p, step, k, n) == BillingPut(p, [at |-> step, payment |-> k, amount |-> n]) /\ UNCHANGED begun
BeginBilling(p, step, k, n) ==
    /\ task[p] = NoTask
    /\ begun < MaxRequests
    /\ begun' = begun + 1
    /\ BillingPut(p, [at |-> step, payment |-> k, amount |-> n])
BillingGoTo(p, step) == BillingDo(p, step, task[p].payment, task[p].amount)
BillingReturns(p) == BillingPut(p, NoTask) /\ UNCHANGED begun

-------------------------------------------------------------------------------
(* Payments *)

CreatePayment(p) ==
    /\ invoice.status # "void"
    /\ \E n \in 1..invoice.total :
          /\ n + invoice.amountPaid <= invoice.total
          /\ BeginBilling(p, "insertPayment", 0, n)
    /\ UNCHANGED <<rowVars, gatewayVars>>

AddPayment(manual, amount, status) ==
    /\ Len(payments) < MaxPayments
    /\ payments' = Append(payments, [manual |-> manual, amount |-> amount, status |-> status])

InsertPayment(p) ==
    /\ BillingAt(p, "insertPayment")
    /\ AddPayment(FALSE, task[p].amount, "pending")
    /\ BillingReturns(p)
    /\ UNCHANGED <<invoice, lines, refunded, redeemed, journal, gatewayVars>>

\* The customer completes the checkout; the gateway announces it until answered.
Capture(k) ==
    /\ k \in DOMAIN payments \ captured
    /\ ~payments[k].manual
    /\ captured' = captured \union {k}
    /\ UNCHANGED <<rowVars, returned, acked, task, begun, disturbed>>

\* At-least-once delivery, so also again after it was answered.
DeliverWebhook(p) ==
    /\ \E k \in captured : BeginBilling(p, "journal", k, 0)
    /\ UNCHANGED <<rowVars, gatewayVars>>

\* A replayed event is answered at once: the event id is unique.
AppendPaymentEvent(p) ==
    LET k == task[p].payment
    IN  /\ BillingAt(p, "journal")
        /\ \/ /\ k \in journal
              /\ acked' = acked \union {k}
              /\ BillingReturns(p)
              /\ UNCHANGED journal
           \/ /\ k \notin journal
              /\ journal' = journal \union {k}
              /\ BillingGoTo(p, "setSucceeded")
              /\ UNCHANGED acked
        /\ UNCHANGED <<invoice, lines, payments, refunded, redeemed, captured, returned>>

SetSucceeded(p) ==
    /\ BillingAt(p, "setSucceeded")
    /\ payments' = [payments EXCEPT ![task[p].payment].status = "succeeded"]
    /\ BillingGoTo(p, "sum")
    /\ UNCHANGED <<invoice, lines, refunded, redeemed, journal, gatewayVars>>

MarkPaid(p) ==
    /\ invoice.status # "void"
    /\ \/ /\ invoice.amountPaid < invoice.total
          /\ BeginBilling(p, "insertManual", 0, invoice.total - invoice.amountPaid)
       \/ /\ invoice.amountPaid >= invoice.total
          /\ BeginBilling(p, "sum", 0, 0)
    /\ UNCHANGED <<rowVars, gatewayVars>>

InsertManual(p) ==
    /\ BillingAt(p, "insertManual")
    /\ AddPayment(TRUE, task[p].amount, "succeeded")
    /\ BillingGoTo(p, "sum")
    /\ UNCHANGED <<invoice, lines, refunded, redeemed, journal, gatewayVars>>

\* Manual payments have no gateway to refund them.
Refund(p) ==
    /\ \E k \in DOMAIN payments :
          /\ payments[k].status = "succeeded"
          /\ ~payments[k].manual
          /\ \E n \in 1..payments[k].amount :
                n + refunded[k] <= payments[k].amount /\ BeginBilling(p, "gatewayRefund", k, n)
    /\ UNCHANGED <<rowVars, gatewayVars>>

GatewayRefund(p) ==
    LET k == task[p].payment
    IN  /\ BillingAt(p, "gatewayRefund")
        /\ returned[k] + task[p].amount <= MaxReturned
        /\ returned' = [returned EXCEPT ![k] = @ + task[p].amount]
        /\ BillingGoTo(p, "insertRefund")
        /\ UNCHANGED <<rowVars, captured, acked>>

\* The refund does not answer a webhook: the payment is not remembered.
InsertRefund(p) ==
    /\ BillingAt(p, "insertRefund")
    /\ refunded' = [refunded EXCEPT ![task[p].payment] = @ + task[p].amount]
    /\ BillingDo(p, "sum", 0, 0)
    /\ UNCHANGED <<invoice, lines, payments, redeemed, journal, gatewayVars>>

-------------------------------------------------------------------------------
(* reconcileInvoice, which the webhook, mark_paid and refunds end with.    *)

\* A webhook is answered when its work is done.
AnswerWebhook(p) ==
    /\ BillingReturns(p)
    /\ acked' = IF task[p].payment = 0 THEN acked ELSE acked \union {task[p].payment}

Amounts == [k \in DOMAIN payments |-> payments[k].amount]
Succeeded == {k \in DOMAIN payments : payments[k].status = "succeeded"}
SucceededPayments == SumFunctionOnSet(Amounts, Succeeded)
Refunds == SumFunctionOnSet(refunded, Slot)
Net(paid, back) == IF paid > back THEN paid - back ELSE 0

\* Mutant: pending payments count.
ListPaymentsAll(p) ==
    /\ BillingAt(p, "sum")
    /\ BillingDo(p, "sumRefunds", task[p].payment, SumFunction(Amounts))
    /\ UNCHANGED <<rowVars, gatewayVars>>

ListPayments(p) ==
    /\ BillingAt(p, "sum")
    /\ BillingDo(p, "sumRefunds", task[p].payment, SucceededPayments)
    /\ UNCHANGED <<rowVars, gatewayVars>>

\* The refunds of all payments, read at once.
TotalRefunded(p) ==
    /\ BillingAt(p, "sumRefunds")
    /\ BillingDo(p, "setAmountPaid", task[p].payment, Net(task[p].amount, Refunds))
    /\ UNCHANGED <<rowVars, gatewayVars>>

SetAmountPaid(p) ==
    /\ BillingAt(p, "setAmountPaid")
    /\ invoice' = [invoice EXCEPT !.amountPaid = task[p].amount]
    /\ BillingGoTo(p, "getInvoice")
    /\ UNCHANGED <<lines, payments, refunded, redeemed, journal, gatewayVars>>

\* Nothing is written when the net is zero, whatever the status was.
GetInvoice(p) ==
    /\ BillingAt(p, "getInvoice")
    /\ \/ /\ task[p].amount >= invoice.total
          /\ BillingGoTo(p, "paid")
          /\ UNCHANGED acked
       \/ /\ task[p].amount \in 1..(invoice.total - 1)
          /\ BillingGoTo(p, "partially_paid")
          /\ UNCHANGED acked
       \/ /\ task[p].amount = 0 /\ invoice.total > 0
          /\ AnswerWebhook(p)
    /\ UNCHANGED <<rowVars, captured, returned>>

\* setInvoiceStatus is unconditional.
SetInvoiceStatus(p) ==
    /\ task[p].at \in {"paid", "partially_paid", "issued", "void"}
    /\ invoice' = [invoice EXCEPT !.status = task[p].at]
    /\ AnswerWebhook(p)
    /\ UNCHANGED <<lines, payments, refunded, redeemed, journal, captured, returned>>

-------------------------------------------------------------------------------
(* Lifecycle, editing and the coupon *)

Transition(p) ==
    /\ \/ invoice.status = "draft" /\ BeginBilling(p, "issued", 0, 0)
       \/ invoice.status \notin {"paid", "void"} /\ BeginBilling(p, "void", 0, 0)
    /\ UNCHANGED <<rowVars, gatewayVars>>

\* The discount is remembered from this read.
UpdateInvoice(p) ==
    /\ invoice.status = "draft"
    /\ BeginBilling(p, "writeFigures", 0, invoice.discount)
    /\ UNCHANGED <<rowVars, gatewayVars>>

\* Mutant: the line items are left as they were.
WriteFiguresOnly(p) ==
    /\ BillingAt(p, "writeFigures")
    /\ \E f \in Figure :
          LET discount == IF task[p].amount < f THEN task[p].amount ELSE f
          IN  invoice' = [invoice EXCEPT !.gross = f, !.discount = discount, !.total = f - discount]
    /\ BillingReturns(p)
    /\ UNCHANGED <<lines, payments, refunded, redeemed, journal, gatewayVars>>

\* The version in the WHERE clause is read immediately before, so it only makes
\* the write fail (Abandon), and the draft status is not looked at again.
WriteFigures(p) ==
    /\ BillingAt(p, "writeFigures")
    /\ \E f \in Figure :
          LET discount == IF task[p].amount < f THEN task[p].amount ELSE f
          IN  /\ invoice' = [invoice EXCEPT !.gross = f, !.discount = discount,
                                            !.total = f - discount]
              /\ BillingDo(p, "deleteLines", 0, f)
    /\ UNCHANGED <<lines, payments, refunded, redeemed, journal, gatewayVars>>

DeleteLines(p) ==
    /\ BillingAt(p, "deleteLines")
    /\ lines' = 0
    /\ BillingGoTo(p, "createLines")
    /\ UNCHANGED <<invoice, payments, refunded, redeemed, journal, gatewayVars>>

\* Two edits that deleted before either created leave both sets of rows.
CreateLines(p) ==
    /\ BillingAt(p, "createLines")
    /\ lines' = lines + task[p].amount
    /\ BillingReturns(p)
    /\ UNCHANGED <<invoice, payments, refunded, redeemed, journal, gatewayVars>>

RedeemCoupon(p) ==
    /\ invoice.status = "draft" /\ invoice.discount = 0 /\ invoice.total > 0
    /\ BeginBilling(p, "redeem", 0, IF Discount < invoice.total THEN Discount ELSE invoice.total)
    /\ UNCHANGED <<rowVars, gatewayVars>>

\* Mutant: a discount that is already there is not looked at.
CreateRedemptionAnyway(p) ==
    /\ BillingAt(p, "redeem")
    /\ task[p].amount <= invoice.total
    /\ redeemed' = TRUE
    /\ invoice' = [invoice EXCEPT !.discount = task[p].amount, !.total = @ - task[p].amount]
    /\ BillingReturns(p)
    /\ UNCHANGED <<lines, payments, refunded, journal, gatewayVars>>

\* One transaction: the redemption of an invoice is unique, the update is
\* conditional, and the total may not become negative.
CreateRedemption(p) ==
    LET redeemable == /\ ~redeemed
                      /\ invoice.status = "draft" /\ invoice.discount = 0
                      /\ task[p].amount <= invoice.total
    IN  /\ BillingAt(p, "redeem")
        /\ \/ /\ redeemable
              /\ redeemed' = TRUE
              /\ invoice' = [invoice EXCEPT !.discount = task[p].amount, !.total = @ - task[p].amount]
           \/ /\ ~redeemable
              /\ UNCHANGED <<invoice, redeemed>>
        /\ BillingReturns(p)
        /\ UNCHANGED <<lines, payments, refunded, journal, gatewayVars>>

-------------------------------------------------------------------------------
\* The process stops, or an await rejects; a webhook is not answered 200 then.
AbandonBilling(p) ==
    /\ task[p] # NoTask
    /\ task' = [task EXCEPT ![p] = NoTask]
    /\ disturbed' = (disturbed \/ p \in Reconciling \union Editing)
    /\ UNCHANGED <<rowVars, gatewayVars, begun>>

Begins(p) ==
    \/ CreatePayment(p) \/ DeliverWebhook(p) \/ MarkPaid(p) \/ Refund(p)
    \/ Transition(p) \/ UpdateInvoice(p) \/ RedeemCoupon(p)

Continues(p) ==
    \/ InsertPayment(p) \/ AppendPaymentEvent(p) \/ SetSucceeded(p) \/ InsertManual(p)
    \/ GatewayRefund(p) \/ InsertRefund(p)
    \/ ListPayments(p) \/ TotalRefunded(p) \/ SetAmountPaid(p) \/ GetInvoice(p)
    \/ SetInvoiceStatus(p)
    \/ WriteFigures(p) \/ DeleteLines(p) \/ CreateLines(p) \/ CreateRedemption(p)

BillingNext ==
    \/ \E p \in BillingRequest : Begins(p) \/ Continues(p) \/ AbandonBilling(p)
    \/ \E k \in Slot : Capture(k)

BillingSpec == BillingInit /\ [][BillingNext]_billingVars

-------------------------------------------------------------------------------
\* The invoice is never credited with money that no succeeded payment brought:
\* replayed webhooks, overlapping reconciliations and manual overrides may only
\* credit too little (reconcileInvoice recomputes, and payments never unsucceed).
NeverCreditsUnpaid == invoice.amountPaid <= SucceededPayments

\* Total, discount and gross always agree, though an edit writes a discount it
\* read earlier and a coupon subtracts one it computed earlier.
FiguresTie == invoice.total + invoice.discount = invoice.gross

\* "`amountPaid` is the sum of succeeded payments minus refunds"
\* (docs/api/invoices.md:164) and the line items add up to the figures, whenever
\* nothing of the kind is under way, unless two reconciliations or two edits
\* overlapped or one was cut short.
UndisturbedFiguresAgree ==
    ~disturbed =>
        /\ Reconciling = {} => invoice.amountPaid = Net(SucceededPayments, Refunds)
        /\ Editing = {} => lines = invoice.gross

\* "A `checkout.session.completed` ... advances the payment to `succeeded`"
\* (docs/api/invoices.md:162): once a delivery was answered 200 and nothing is
\* under way, the payment has succeeded, for the gateway retries no further.
AcknowledgedIsSucceeded ==
    (\A p \in BillingRequest : task[p] = NoTask)
        => \A k \in acked : payments[k].status = "succeeded"
================================================================================

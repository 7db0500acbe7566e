----------------------------- MODULE QuoteInvoices -----------------------------
(***************************************************************************)
(* Invoices made from quotes: a request looks whether the quote has been   *)
(* invoiced, reads the last number and inserts.  Numbers are unique in the *)
(* organization and are given one after the other.                         *)
(***************************************************************************)
EXTENDS Naturals, FiniteSets

CONSTANTS Quote,
          InvoiceRequest,  \* requests in flight at once
          MaxInvoices      \* bound: invoices of the organization

ASSUME QuoteInvoicesAssumption ==
    /\ {"none", "unused"} \intersect Quote = {}
    /\ IsFiniteSet(InvoiceRequest)
    /\ MaxInvoices \in Nat

VARIABLES emptied,    \* quotes whose lines are deleted and not yet created again
          invoiced,   \* invoiced[n]: the quote of the invoice with number n
          invoiceReq  \* invoiceReq[p]: what request p does next and remembers

quoteInvoicesVars == <<emptied, invoiced, invoiceReq>>

NoQuote == "none"
InvoiceIdle == [at |-> "idle"]
Invoicing == [at : {"quote", "number", "insert"}, quote : Quote \union {NoQuote},
              number : 0..MaxInvoices]

\* Numbers in use, and the invoices of a quote.
Used == {n \in 1..MaxInvoices : invoiced[n] # "unused"}
InvoicesOf(q) == {n \in Used : invoiced[n] = q}

QuoteInvoicesTypeOK ==
    /\ emptied \in SUBSET Quote
    /\ invoiced \in [1..MaxInvoices -> Quote \union {NoQuote, "unused"}]
    /\ invoiceReq \in [InvoiceRequest -> {InvoiceIdle} \union Invoicing]

QuoteInvoicesInit ==
    /\ emptied = {}
    /\ invoiced = [n \in 1..MaxInvoices |-> "unused"]
    /\ invoiceReq = [p \in InvoiceRequest |-> InvoiceIdle]

-------------------------------------------------------------------------------
InvoiceAt(p, step) == invoiceReq[p].at = step
InvoiceDo(p, r) == invoiceReq' = [invoiceReq EXCEPT ![p] = r]
InvoiceEnds(p) == InvoiceDo(p, InvoiceIdle)

\* replaceLineItems of the quotations, in two statements.
EmptyOrFillQuote(q) ==
    /\ emptied' = IF q \in emptied THEN emptied \ {q} ELSE emptied \union {q}
    /\ UNCHANGED <<invoiced, invoiceReq>>

\* An invoice of its own has its lines with it.
InvoiceWithoutQuote(p) ==
    /\ invoiceReq[p] = InvoiceIdle
    /\ InvoiceDo(p, [at |-> "number", quote |-> NoQuote, number |-> 0])
    /\ UNCHANGED <<emptied, invoiced>>

\* Mutant: nobody asks whether the quote has been invoiced.
InvoiceAgain(p, q) ==
    /\ invoiceReq[p] = InvoiceIdle
    /\ InvoiceDo(p, [at |-> "quote", quote |-> q, number |-> 0])
    /\ UNCHANGED <<emptied, invoiced>>

\* createInvoice of a quote, whatever the quote's status.
QuoteNotInvoiced(p, q) ==
    /\ invoiceReq[p] = InvoiceIdle
    /\ InvoicesOf(q) = {}
    /\ InvoiceDo(p, [at |-> "quote", quote |-> q, number |-> 0])
    /\ UNCHANGED <<emptied, invoiced>>

\* An invoice needs at least one line; those of the quote are copied.
GetQuoteForInvoice(p) ==
    /\ InvoiceAt(p, "quote")
    /\ IF invoiceReq[p].quote \in emptied
       THEN InvoiceEnds(p) ELSE InvoiceDo(p, [invoiceReq[p] EXCEPT !.at = "number"])
    /\ UNCHANGED <<emptied, invoiced>>

\* The newest invoice has the highest number.
NextInvoiceNumber(p) ==
    /\ InvoiceAt(p, "number")
    /\ Cardinality(Used) < MaxInvoices
    /\ InvoiceDo(p, [invoiceReq[p] EXCEPT !.at = "insert", !.number = Cardinality(Used) + 1])
    /\ UNCHANGED <<emptied, invoiced>>

\* A number that is taken by now is refused, and the request fails.
CreateInvoice(p) ==
    LET n == invoiceReq[p].number
    IN  /\ InvoiceAt(p, "insert")
        /\ invoiced' = IF n \in Used THEN invoiced
                       ELSE [invoiced EXCEPT ![n] = invoiceReq[p].quote]
        /\ InvoiceEnds(p)
        /\ UNCHANGED emptied

QuoteInvoicesNext ==
    \/ \E q \in Quote : EmptyOrFillQuote(q)
    \/ \E p \in InvoiceRequest :
          \/ InvoiceWithoutQuote(p)
          \/ \E q \in Quote : QuoteNotInvoiced(p, q)
          \/ GetQuoteForInvoice(p) \/ NextInvoiceNumber(p) \/ CreateInvoice(p)

QuoteInvoicesSpec == QuoteInvoicesInit /\ [][QuoteInvoicesNext]_quoteInvoicesVars

-------------------------------------------------------------------------------
\* A quote is invoiced as often as requests that all looked first can be under way
\* together, and then never again, and numbers leave no gap (quoteAlreadyInvoiced,
\* nextInvoiceNumber, uq_invoices_organization_id_number).
InvoicedWhileUnseen ==
    /\ Used = 1..Cardinality(Used)
    /\ \A q \in Quote : Cardinality(InvoicesOf(q)) <= Cardinality(InvoiceRequest)
================================================================================

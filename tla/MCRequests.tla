------------------------------ MODULE MCRequests -------------------------------
(***************************************************************************)
(* What requests race for: appointments, quotes, the invoices made from    *)
(* them, one invoice from draft to payment, and the connection of a        *)
(* provider.  They meet only where QuoteInvoices copies the lines, so a    *)
(* behaviour keeps to one of them (area) and the instance is their sum.    *)
(***************************************************************************)
EXTENDS MCAppointments, Billing, Quotes, QuoteInvoices, Settings

VARIABLE area

appointmentVars == vars
billVars == <<billingVars, quotesVars, quoteInvoicesVars>>

MCInit ==
    /\ area \in {"appointments", "invoice", "quotes", "numbers", "connection"}
    /\ Init /\ BillingInit /\ QuotesInit /\ QuoteInvoicesInit /\ SettingsInit

MCNext ==
    /\ UNCHANGED area
    /\ \/ /\ area = "appointments" /\ Next
          /\ UNCHANGED <<billVars, settingsVars>>
       \/ /\ area = "invoice" /\ BillingNext
          /\ UNCHANGED <<appointmentVars, quotesVars, quoteInvoicesVars, settingsVars>>
       \/ /\ area = "quotes" /\ QuotesNext
          /\ UNCHANGED <<appointmentVars, billingVars, quoteInvoicesVars, settingsVars>>
       \/ /\ area = "numbers" /\ QuoteInvoicesNext
          /\ UNCHANGED <<appointmentVars, billingVars, quotesVars, settingsVars>>
       \/ /\ area = "connection" /\ SettingsNext
          /\ UNCHANGED <<appointmentVars, billVars>>

MCSpec == MCInit /\ [][MCNext]_<<area, appointmentVars, billVars, settingsVars>>

MoneyTypeOK == BillingTypeOK /\ QuotesTypeOK /\ QuoteInvoicesTypeOK /\ SettingsTypeOK
================================================================================

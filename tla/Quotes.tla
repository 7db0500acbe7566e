-------------------------------- MODULE Quotes ---------------------------------
(***************************************************************************)
(* A quote from draft to its answer.  A request reads the quote, decides   *)
(* on what it read, and writes in several statements; sending stores the   *)
(* quote as it was read.  What an edit puts into the quote, the figures of *)
(* the row and its line items, is one Edition.                             *)
(***************************************************************************)
EXTENDS Naturals

CONSTANTS Edition, FirstEdition,
          QuoteRequest,  \* requests in flight at once
          MaxRevisions   \* bound: writes of the row, and its snapshots

ASSUME QuotesAssumption ==
    /\ FirstEdition \in Edition
    /\ MaxRevisions \in Nat

VARIABLES quote,      \* the row: status, figures, lines ("none" if there are none), version
          snapshots,  \* quote_versions: how many there are, and the last one
          quoteReq,   \* quoteReq[p]: what request p does next and remembers
          overlapped  \* history: an edit was under way together with another request

quotesVars == <<quote, snapshots, quoteReq, overlapped>>

NoLines == "none"
QuoteStatus == {"draft", "sent", "accepted", "rejected", "expired"}
QuoteRow == [status : QuoteStatus, figures : Edition, lines : Edition \union {NoLines},
        version : 0..MaxRevisions]
Snapshot == [figures : Edition, lines : Edition \union {NoLines}]
Shown(row) == [figures |-> row.figures, lines |-> row.lines]
QuoteIdle == [at |-> "idle"]

EditingQuote == [at : {"read", "figures", "delete", "insert"}, to : Edition, version : 0..MaxRevisions]
Sending == [at : {"number", "version"}, seen : Snapshot, number : 0..MaxRevisions]
Setting == [at : {"status"}, to : QuoteStatus]

QuotesTypeOK ==
    /\ quote \in QuoteRow
    /\ snapshots \in [count : 0..MaxRevisions, last : Snapshot]
    /\ quoteReq \in [QuoteRequest ->
                        {QuoteIdle} \union EditingQuote \union Sending \union Setting]
    /\ overlapped \in BOOLEAN

\* createQuote writes the row and its line items together.
QuotesInit ==
    /\ quote = [status |-> "draft", figures |-> FirstEdition, lines |-> FirstEdition, version |-> 0]
    /\ snapshots = [count |-> 0, last |-> Shown(quote)]
    /\ quoteReq = [p \in QuoteRequest |-> QuoteIdle]
    /\ overlapped = FALSE

-------------------------------------------------------------------------------
QuoteAt(p, step) == quoteReq[p].at = step
QuoteDo(p, r) == quoteReq' = [quoteReq EXCEPT ![p] = r]
QuoteGoTo(p, step) == QuoteDo(p, [quoteReq[p] EXCEPT !.at = step])
QuoteEnds(p) == QuoteDo(p, QuoteIdle)

Busy(p) == quoteReq[p] # QuoteIdle
IsEditing(p) == quoteReq[p].at \in {"read", "figures", "delete", "insert"}
OverlapsEdit(p, edits) ==
    \E o \in QuoteRequest \ {p} : IF edits THEN Busy(o) ELSE IsEditing(o)
BeginQuote(p, r, edits) ==
    /\ ~Busy(p)
    /\ QuoteDo(p, r)
    /\ overlapped' = (overlapped \/ OverlapsEdit(p, edits))
    /\ UNCHANGED <<quote, snapshots>>

\* The next write of the row; every write increments its version.
Write(row) ==
    /\ quote.version < MaxRevisions
    /\ quote' = [row EXCEPT !.version = quote.version + 1]

\* Mutant: an edit does not look at the status.
BeginAnyEdit(p, to) == BeginQuote(p, [at |-> "read", to |-> to, version |-> 0], TRUE)

\* updateQuote of the service: only a draft is edited.
BeginEdit(p, to) ==
    /\ quote.status = "draft"
    /\ BeginQuote(p, [at |-> "read", to |-> to, version |-> 0], TRUE)

\* updateQuote of the repository reads the version itself, and so guards little.
ReadVersion(p) ==
    /\ QuoteAt(p, "read")
    /\ QuoteDo(p, [quoteReq[p] EXCEPT !.at = "figures", !.version = quote.version])
    /\ UNCHANGED <<quote, snapshots, overlapped>>

UpdateFigures(p) ==
    /\ QuoteAt(p, "figures")
    /\ \/ /\ quote.version = quoteReq[p].version
          /\ Write([quote EXCEPT !.figures = quoteReq[p].to])
          /\ QuoteGoTo(p, "delete")
       \/ /\ quote.version # quoteReq[p].version
          /\ QuoteEnds(p)
          /\ UNCHANGED quote
    /\ UNCHANGED <<snapshots, overlapped>>

DeleteQuoteLines(p) ==
    /\ QuoteAt(p, "delete")
    /\ quote' = [quote EXCEPT !.lines = NoLines]
    /\ QuoteGoTo(p, "insert")
    /\ UNCHANGED <<snapshots, overlapped>>

\* Positions are unique within a quote: a second set of lines is refused.
InsertQuoteLines(p) ==
    /\ QuoteAt(p, "insert")
    /\ quote' = IF quote.lines = NoLines THEN [quote EXCEPT !.lines = quoteReq[p].to] ELSE quote
    /\ QuoteEnds(p)
    /\ UNCHANGED <<snapshots, overlapped>>

\* Sending keeps the quote it read; the version number is read and then inserted,
\* and is unique.
BeginSend(p) ==
    /\ quote.status = "draft"
    /\ BeginQuote(p, [at |-> "number", seen |-> Shown(quote), number |-> 0], FALSE)

NextVersionNumber(p) ==
    /\ QuoteAt(p, "number")
    /\ snapshots.count < MaxRevisions
    /\ QuoteDo(p, [quoteReq[p] EXCEPT !.at = "version", !.number = snapshots.count + 1])
    /\ UNCHANGED <<quote, snapshots, overlapped>>

CreateVersion(p) ==
    /\ QuoteAt(p, "version")
    /\ \/ /\ quoteReq[p].number = snapshots.count + 1
          /\ snapshots' = [count |-> quoteReq[p].number, last |-> quoteReq[p].seen]
          /\ QuoteDo(p, [at |-> "status", to |-> "sent"])
       \/ /\ quoteReq[p].number # snapshots.count + 1
          /\ QuoteEnds(p)
          /\ UNCHANGED snapshots
    /\ UNCHANGED <<quote, overlapped>>

\* accept, reject and expire want a quote that was sent; an accepted one does not
\* return to draft, any other may.
BeginSet(p, to) ==
    /\ \/ to \in {"accepted", "rejected", "expired"} /\ quote.status = "sent"
       \/ to = "draft" /\ quote.status # "accepted"
    /\ BeginQuote(p, [at |-> "status", to |-> to], FALSE)

\* Unconditional, on what was read before.
SetQuoteStatus(p) ==
    /\ QuoteAt(p, "status")
    /\ Write([quote EXCEPT !.status = quoteReq[p].to])
    /\ QuoteEnds(p)
    /\ UNCHANGED <<snapshots, overlapped>>

AbandonQuote(p) ==
    /\ Busy(p)
    /\ QuoteEnds(p)
    /\ UNCHANGED <<quote, snapshots, overlapped>>

QuotesNext ==
    \E p \in QuoteRequest :
        \/ \E to \in Edition : BeginEdit(p, to)
        \/ ReadVersion(p) \/ UpdateFigures(p) \/ DeleteQuoteLines(p) \/ InsertQuoteLines(p)
        \/ BeginSend(p) \/ NextVersionNumber(p) \/ CreateVersion(p)
        \/ \E to \in QuoteStatus : BeginSet(p, to)
        \/ SetQuoteStatus(p)
        \/ AbandonQuote(p)

QuotesSpec == QuotesInit /\ [][QuotesNext]_quotesVars

-------------------------------------------------------------------------------
\* "The accepted/rejected document is the exact one the customer saw"
\* (quotations.service.ts transition): a quote that has been sent shows its last
\* snapshot, however sends, answers and returns to draft race, as long as no edit
\* was under way beside another request.
SnapshotIsWhatWasSent ==
    quote.status # "draft" /\ ~overlapped
        => snapshots.count > 0 /\ snapshots.last = Shown(quote)
================================================================================

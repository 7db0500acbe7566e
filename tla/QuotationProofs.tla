---------------------------- MODULE QuotationProofs ----------------------------
(***************************************************************************)
(* What a quote that was sent shows, and the invoices made from quotes,    *)
(* for any number of requests in flight.                                   *)
(***************************************************************************)
EXTENDS Quotes, QuoteInvoices, FiniteSetTheorems, TLAPS

(* Quotes.  Without an overlapped edit, whoever is on the way to a status    *)
(* other than draft knows what the last snapshot shows.                      *)

Alone(p) == \A q \in QuoteRequest \ {p} : quoteReq[q] = QuoteIdle

EditsAlone ==
    \A p \in QuoteRequest : IsEditing(p) => Alone(p) /\ quote.status = "draft"

SeenIsShown ==
    \A p \in QuoteRequest : quoteReq[p].at \in {"number", "version"} => quoteReq[p].seen = Shown(quote)

Kept == snapshots.count > 0 /\ snapshots.last = Shown(quote)

SettersKnow ==
    \A p \in QuoteRequest : quoteReq[p].at = "status" /\ quoteReq[p].to # "draft" => Kept

QInv ==
    /\ QuotesTypeOK
    /\ ~overlapped => EditsAlone /\ SeenIsShown /\ SettersKnow
    /\ SnapshotIsWhatWasSent

LEMMA QInit == QuotesInit => QInv
<1> SUFFICES ASSUME QuotesInit PROVE QInv
  OBVIOUS
<1>1. quote \in QuoteRow /\ Shown(quote) \in Snapshot /\ quote.status = "draft"
  BY QuotesAssumption DEF QuotesInit, QuoteRow, Snapshot, Shown, QuoteStatus
<1>2. QuotesTypeOK
  <2>1. snapshots \in [count : 0..MaxRevisions, last : Snapshot]
    BY <1>1, QuotesAssumption DEF QuotesInit
  <2>2. quoteReq \in [QuoteRequest -> {QuoteIdle} \union EditingQuote \union Sending \union Setting]
    BY DEF QuotesInit
  <2> QED
    BY <1>1, <2>1, <2>2 DEF QuotesInit, QuotesTypeOK
<1>3. EditsAlone /\ SeenIsShown /\ SettersKnow
  BY DEF QuotesInit, EditsAlone, SeenIsShown, SettersKnow, IsEditing, QuoteIdle
<1> QED
  BY <1>1, <1>2, <1>3 DEF QInv, SnapshotIsWhatWasSent

Active == EditingQuote \union Sending \union Setting

LEMMA ActiveWhen ==
    ASSUME QuotesTypeOK, NEW p \in QuoteRequest, quoteReq[p].at # "idle"
    PROVE  quoteReq[p] \in Active
  BY DEF QuotesTypeOK, QuoteIdle, Active

\* One request moves to r.
LEMMA QuoteMoved ==
    ASSUME QuotesTypeOK, NEW p \in QuoteRequest, NEW r \in {QuoteIdle} \union Active, QuoteDo(p, r)
    PROVE  /\ quoteReq' \in [QuoteRequest -> {QuoteIdle} \union EditingQuote \union Sending \union Setting]
           /\ quoteReq'[p] = r
           /\ \A q \in QuoteRequest \ {p} : quoteReq'[q] = quoteReq[q]
  BY DEF QuotesTypeOK, QuoteDo, Active

LEMMA Written ==
    ASSUME quote \in QuoteRow, NEW row \in QuoteRow, Write(row)
    PROVE  /\ quote' \in QuoteRow
           /\ quote'.status = row.status /\ quote'.figures = row.figures /\ quote'.lines = row.lines
<1>1. quote.version + 1 \in 0..MaxRevisions
  BY QuotesAssumption DEF Write, QuoteRow
<1> QED
  BY <1>1 DEF Write, QuoteRow

\* A request ends without a write.
LEMMA EndsKeeps ==
    ASSUME QInv, NEW p \in QuoteRequest, QuoteEnds(p), UNCHANGED <<quote, snapshots, overlapped>>
    PROVE  QInv'
<1>1. /\ quoteReq' \in [QuoteRequest -> {QuoteIdle} \union EditingQuote \union Sending \union Setting]
      /\ quoteReq'[p] = QuoteIdle
      /\ \A q \in QuoteRequest \ {p} : quoteReq'[q] = quoteReq[q]
  BY QuoteMoved DEF QInv, QuoteEnds
<1>2. QuotesTypeOK' /\ (SnapshotIsWhatWasSent')
  BY <1>1 DEF QInv, QuotesTypeOK, SnapshotIsWhatWasSent, Shown
<1>3. ~overlapped => EditsAlone' /\ SeenIsShown' /\ SettersKnow'
  BY <1>1 DEF QInv, EditsAlone, SeenIsShown, SettersKnow, IsEditing, Alone, QuoteIdle, Kept, Shown
<1> QED
  BY <1>2, <1>3 DEF QInv

\* A request begins: on the quote as it is, and alone unless the flag goes up.
LEMMA BeginsKeeps ==
    ASSUME QInv, NEW p \in QuoteRequest, NEW r \in Active, NEW edits \in BOOLEAN,
           BeginQuote(p, r, edits),
           \/ edits /\ r.at = "read" /\ quote.status = "draft"
           \/ ~edits /\ r.at = "number" /\ r.seen = Shown(quote)
           \/ ~edits /\ r.at = "status" /\ (r.to # "draft" => quote.status # "draft")
    PROVE  QInv'
<1>1. /\ quoteReq' \in [QuoteRequest -> {QuoteIdle} \union EditingQuote \union Sending \union Setting]
      /\ quoteReq'[p] = r
      /\ \A q \in QuoteRequest \ {p} : quoteReq'[q] = quoteReq[q]
  BY QuoteMoved DEF QInv, BeginQuote
<1>2. UNCHANGED <<quote, snapshots>> /\ overlapped' = (overlapped \/ OverlapsEdit(p, edits))
  BY DEF BeginQuote
<1>3. overlapped' \in BOOLEAN /\ (~overlapped' => ~overlapped /\ ~OverlapsEdit(p, edits))
  BY <1>2 DEF QInv, QuotesTypeOK, OverlapsEdit, Busy, IsEditing
<1>4. QuotesTypeOK' /\ SnapshotIsWhatWasSent'
  BY <1>1, <1>2, <1>3 DEF QInv, QuotesTypeOK, SnapshotIsWhatWasSent, Shown
<1>5. ASSUME ~overlapped' PROVE EditsAlone' /\ SeenIsShown' /\ SettersKnow'
  <2>1. EditsAlone'
    <3>1. CASE edits
      BY <1>1, <1>2, <1>3, <1>5, <3>1 DEF EditsAlone, Alone, IsEditing, OverlapsEdit, Busy, QuoteIdle
    <3>2. CASE ~edits
      BY <1>1, <1>2, <1>3, <1>5, <3>2 DEF EditsAlone, Alone, IsEditing, OverlapsEdit
    <3> QED
      BY <3>1, <3>2
  <2>2. SeenIsShown'
    BY <1>1, <1>2, <1>3, <1>5 DEF QInv, SeenIsShown, Shown
  <2>3. SettersKnow'
    BY <1>1, <1>2, <1>3, <1>5 DEF QInv, SettersKnow, SnapshotIsWhatWasSent, Kept, Shown
  <2> QED
    BY <2>1, <2>2, <2>3
<1> QED
  BY <1>4, <1>5 DEF QInv

\* What an edit in progress does: nobody else is there to mind, as long as edits
\* are alone.
LEMMA EditKeeps ==
    ASSUME QInv, NEW p \in QuoteRequest, IsEditing(p),
           NEW r \in {QuoteIdle} \union EditingQuote, QuoteDo(p, r),
           quote' \in QuoteRow, quote'.status = quote.status, UNCHANGED <<snapshots, overlapped>>
    PROVE  QInv'
<1>1. /\ quoteReq' \in [QuoteRequest -> {QuoteIdle} \union EditingQuote \union Sending \union Setting]
      /\ quoteReq'[p] = r
      /\ \A q \in QuoteRequest \ {p} : quoteReq'[q] = quoteReq[q]
  BY QuoteMoved DEF QInv, Active
<1>2. QuotesTypeOK'
  BY <1>1 DEF QInv, QuotesTypeOK
<1>3. ASSUME ~overlapped
      PROVE  quote'.status = "draft" /\ EditsAlone' /\ SeenIsShown' /\ SettersKnow'
  <2>1. Alone(p) /\ quote.status = "draft" /\ EditsAlone
    BY <1>3 DEF QInv, EditsAlone
  <2>2. \A q \in QuoteRequest \ {p} : quoteReq'[q] = QuoteIdle
    BY <1>1, <2>1 DEF Alone
  <2>3. r.at \notin {"number", "version", "status"}
    BY DEF QuoteIdle, EditingQuote
  <2> QED
    BY <1>1, <2>1, <2>2, <2>3 DEF EditsAlone, SeenIsShown, SettersKnow, IsEditing, Alone, QuoteIdle
<1> QED
  BY <1>2, <1>3 DEF QInv, SnapshotIsWhatWasSent

LEMMA EditSteps ==
    ASSUME QInv, NEW p \in QuoteRequest,
           ReadVersion(p) \/ UpdateFigures(p) \/ DeleteQuoteLines(p) \/ InsertQuoteLines(p)
    PROVE  QInv'
<1> DEFINE r == quoteReq[p]
<1>1. IsEditing(p) /\ r \in EditingQuote
  <2>1. r.at \in {"read", "figures", "delete", "insert"}
    BY DEF ReadVersion, UpdateFigures, DeleteQuoteLines, InsertQuoteLines, QuoteAt
  <2> QED
    BY <2>1, ActiveWhen DEF QInv, Active, IsEditing, Sending, Setting
<1>2. quote \in QuoteRow
  BY DEF QInv, QuotesTypeOK
<1>3. CASE ReadVersion(p)
  <2>1. [r EXCEPT !.at = "figures", !.version = quote.version] \in EditingQuote
    BY <1>1, <1>2 DEF EditingQuote, QuoteRow
  <2> QED
    BY <1>1, <1>2, <1>3, <2>1, EditKeeps DEF ReadVersion
<1>4. CASE UpdateFigures(p)
  <2>1. CASE Write([quote EXCEPT !.figures = r.to]) /\ QuoteGoTo(p, "delete")
    <3>1. quote' \in QuoteRow /\ quote'.status = quote.status
      <4> DEFINE row == [quote EXCEPT !.figures = r.to]
      <4>1. row \in QuoteRow /\ row.status = quote.status
        BY <1>1, <1>2 DEF QuoteRow, EditingQuote
      <4> HIDE DEF row
      <4> QED
        BY <1>2, <2>1, <4>1, Written DEF row
    <3>2. [r EXCEPT !.at = "delete"] \in EditingQuote
      BY <1>1 DEF EditingQuote
    <3> QED
      BY <1>1, <1>4, <2>1, <3>1, <3>2, EditKeeps DEF UpdateFigures, QuoteGoTo
  <2>2. CASE UNCHANGED quote /\ QuoteEnds(p)
    BY <1>4, <2>2, EndsKeeps DEF UpdateFigures
  <2> QED
    BY <1>4, <2>1, <2>2 DEF UpdateFigures
<1>5. CASE DeleteQuoteLines(p)
  <2>1. quote' \in QuoteRow /\ quote'.status = quote.status
    BY <1>2, <1>5 DEF DeleteQuoteLines, QuoteRow
  <2>2. [r EXCEPT !.at = "insert"] \in EditingQuote
    BY <1>1 DEF EditingQuote
  <2> QED
    BY <1>1, <1>5, <2>1, <2>2, EditKeeps DEF DeleteQuoteLines, QuoteGoTo
<1>6. CASE InsertQuoteLines(p)
  <2>1. quote' \in QuoteRow /\ quote'.status = quote.status
    BY <1>1, <1>2, <1>6 DEF InsertQuoteLines, QuoteRow, EditingQuote
  <2> QED
    BY <1>1, <1>6, <2>1, EditKeeps DEF InsertQuoteLines, QuoteEnds
<1> QED
  BY <1>3, <1>4, <1>5, <1>6

LEMMA SendSteps ==
    ASSUME QInv, NEW p \in QuoteRequest, NextVersionNumber(p) \/ CreateVersion(p)
    PROVE  QInv'
<1> DEFINE r == quoteReq[p]
<1>1. r \in Sending /\ quote \in QuoteRow /\ snapshots \in [count : 0..MaxRevisions, last : Snapshot]
  <2>1. r.at \in {"number", "version"}
    BY DEF NextVersionNumber, CreateVersion, QuoteAt
  <2> QED
    BY <2>1, ActiveWhen DEF QInv, QuotesTypeOK, Active, EditingQuote, Setting
<1>2. ~overlapped => EditsAlone /\ SeenIsShown /\ SettersKnow /\ ~IsEditing(p) /\ r.seen = Shown(quote)
  BY <1>1 DEF QInv, SeenIsShown, IsEditing, Sending
<1>3. CASE NextVersionNumber(p)
  <2> DEFINE s == [r EXCEPT !.at = "version", !.number = snapshots.count + 1]
  <2>1. s \in Sending /\ s.seen = r.seen /\ s.at = "version"
    <3>1. snapshots.count + 1 \in 0..MaxRevisions
      BY <1>1, <1>3, QuotesAssumption DEF NextVersionNumber
    <3>2. s = [[r EXCEPT !.at = "version"] EXCEPT !.number = snapshots.count + 1]
      BY <1>1 DEF Sending
    <3>3. [r EXCEPT !.at = "version"] \in Sending
      BY <1>1 DEF Sending
    <3> QED
      BY <1>1, <3>1, <3>2, <3>3 DEF Sending
  <2>2. QuoteDo(p, s) /\ UNCHANGED <<quote, snapshots, overlapped>>
    BY <1>3 DEF NextVersionNumber
  <2> HIDE DEF s
  <2>3. /\ quoteReq' \in [QuoteRequest -> {QuoteIdle} \union EditingQuote \union Sending \union Setting]
        /\ quoteReq'[p] = s
        /\ \A q \in QuoteRequest \ {p} : quoteReq'[q] = quoteReq[q]
    BY <2>1, <2>2, QuoteMoved DEF QInv, Active
  <2>4. QuotesTypeOK' /\ SnapshotIsWhatWasSent'
    BY <2>2, <2>3 DEF QInv, QuotesTypeOK, SnapshotIsWhatWasSent, Shown
  <2>5. ~overlapped => EditsAlone' /\ SeenIsShown' /\ SettersKnow'
    BY <1>1, <1>2, <2>1, <2>2, <2>3
    DEF EditsAlone, SeenIsShown, SettersKnow, IsEditing, Alone, Kept, Shown, Sending, QuoteIdle
  <2> QED
    BY <2>2, <2>4, <2>5 DEF QInv
<1>4. CASE CreateVersion(p)
  <2> DEFINE s == [at |-> "status", to |-> "sent"]
  <2>1. CASE QuoteDo(p, s) /\ snapshots' = [count |-> r.number, last |-> r.seen]
             /\ r.number = snapshots.count + 1
    <3>1. /\ quoteReq' \in [QuoteRequest -> {QuoteIdle} \union EditingQuote \union Sending \union Setting]
          /\ quoteReq'[p] = s
          /\ \A q \in QuoteRequest \ {p} : quoteReq'[q] = quoteReq[q]
      BY <2>1, QuoteMoved DEF QInv, Active, Setting, QuoteStatus
    <3>2. UNCHANGED <<quote, overlapped>>
      BY <1>4 DEF CreateVersion
    <3>3. /\ snapshots' \in [count : 0..MaxRevisions, last : Snapshot]
          /\ snapshots'.count > 0 /\ snapshots'.last = r.seen
      BY <1>1, <2>1 DEF Sending
    <3>4. QuotesTypeOK'
      BY <3>1, <3>2, <3>3 DEF QInv, QuotesTypeOK
    <3>5. ~overlapped => Kept'
      BY <1>2, <3>2, <3>3 DEF Kept, Shown
    <3>6. ~overlapped => EditsAlone' /\ SeenIsShown'
      BY <1>1, <1>2, <3>1, <3>2
      DEF EditsAlone, SeenIsShown, IsEditing, Alone, Shown, Sending, QuoteIdle
    <3> QED
      BY <3>2, <3>4, <3>5, <3>6 DEF QInv, SettersKnow, SnapshotIsWhatWasSent, Kept
  <2>2. CASE QuoteEnds(p) /\ UNCHANGED snapshots
    BY <1>4, <2>2, EndsKeeps DEF CreateVersion
  <2> QED
    BY <1>4, <2>1, <2>2 DEF CreateVersion
<1> QED
  BY <1>3, <1>4

\* The unconditional write of a status: whoever is to write it has seen to the
\* snapshot, and no edit runs.
LEMMA SetKeeps ==
    ASSUME QInv, NEW p \in QuoteRequest, SetQuoteStatus(p)
    PROVE  QInv'
<1> DEFINE r == quoteReq[p]
<1>1. r \in Setting /\ quote \in QuoteRow
  BY ActiveWhen DEF SetQuoteStatus, QuoteAt, QInv, QuotesTypeOK, Active, EditingQuote, Sending
<1>2. UNCHANGED <<snapshots, overlapped>>
  BY DEF SetQuoteStatus
<1>3. quote' \in QuoteRow /\ Shown(quote') = Shown(quote) /\ quote'.status = r.to
  <2> DEFINE row == [quote EXCEPT !.status = r.to]
  <2>1. /\ row \in QuoteRow
        /\ row.status = r.to /\ row.figures = quote.figures /\ row.lines = quote.lines
    BY <1>1 DEF QuoteRow, Setting
  <2>2. Write(row)
    BY DEF SetQuoteStatus
  <2> HIDE DEF row
  <2> QED
    BY <1>1, <2>1, <2>2, Written DEF Shown
<1>4. /\ quoteReq' \in [QuoteRequest -> {QuoteIdle} \union EditingQuote \union Sending \union Setting]
      /\ quoteReq'[p] = QuoteIdle
      /\ \A q \in QuoteRequest \ {p} : quoteReq'[q] = quoteReq[q]
  BY QuoteMoved DEF QInv, SetQuoteStatus, QuoteEnds
<1>5. QuotesTypeOK'
  BY <1>2, <1>3, <1>4 DEF QInv, QuotesTypeOK
<1>6. ASSUME ~overlapped
      PROVE  EditsAlone' /\ SeenIsShown' /\ SettersKnow' /\ (quote'.status # "draft" => Kept')
  <2>1. \A q \in QuoteRequest : ~IsEditing(q)
    BY <1>1, <1>6 DEF QInv, EditsAlone, IsEditing, Alone, Setting, QuoteIdle
  <2>2. EditsAlone' /\ SeenIsShown'
    BY <1>3, <1>4, <1>6, <2>1 DEF QInv, EditsAlone, SeenIsShown, IsEditing, QuoteIdle
  <2>3. SettersKnow' /\ (quote'.status # "draft" => Kept')
    BY <1>1, <1>2, <1>3, <1>4, <1>6 DEF QInv, SettersKnow, Kept, Setting, QuoteIdle
  <2> QED
    BY <2>2, <2>3
<1> QED
  BY <1>2, <1>5, <1>6 DEF QInv, SnapshotIsWhatWasSent, Kept

LEMMA QNext == QInv /\ [QuotesNext]_quotesVars => QInv'
<1> SUFFICES ASSUME QInv, [QuotesNext]_quotesVars PROVE QInv'
  OBVIOUS
<1>1. CASE UNCHANGED quotesVars
  BY <1>1 DEF quotesVars, QInv, QuotesTypeOK, EditsAlone, SeenIsShown, SettersKnow,
     SnapshotIsWhatWasSent, IsEditing, Alone, Kept, Shown
<1>2. ASSUME NEW p \in QuoteRequest, NEW to \in Edition, BeginEdit(p, to) PROVE QInv'
  <2>1. [at |-> "read", to |-> to, version |-> 0] \in Active
    BY QuotesAssumption DEF Active, EditingQuote
  <2> QED
    BY <1>2, <2>1, BeginsKeeps DEF BeginEdit
<1>3. ASSUME NEW p \in QuoteRequest, BeginSend(p) PROVE QInv'
  <2>1. [at |-> "number", seen |-> Shown(quote), number |-> 0] \in Active
    BY QuotesAssumption DEF Active, Sending, QInv, QuotesTypeOK, QuoteRow, Snapshot, Shown
  <2> QED
    BY <1>3, <2>1, BeginsKeeps DEF BeginSend
<1>4. ASSUME NEW p \in QuoteRequest, NEW to \in QuoteStatus, BeginSet(p, to) PROVE QInv'
  <2>1. [at |-> "status", to |-> to] \in Active
    BY DEF Active, Setting
  <2> QED
    BY <1>4, <2>1, BeginsKeeps DEF BeginSet
<1>5. ASSUME NEW p \in QuoteRequest, AbandonQuote(p) PROVE QInv'
  BY <1>5, EndsKeeps DEF AbandonQuote
<1> QED
  BY <1>1, <1>2, <1>3, <1>4, <1>5, EditSteps, SendSteps, SetKeeps DEF QuotesNext

LEMMA QuotesInvariant == QuotesSpec => []QInv
<1> QED
  BY QInit, QNext, PTL DEF QuotesSpec

\* Quotes, snapshots and the requests that work on them keep their types, and
\* versions their bound.
THEOREM QuotesTypeCorrect == QuotesSpec => []QuotesTypeOK
<1>1. QInv => QuotesTypeOK
  BY DEF QInv
<1> QED
  BY <1>1, QuotesInvariant, PTL

\* As long as no edit overlapped another request, a quote past draft shows what was
\* kept when it was last sent, for any number of editions and requests.
THEOREM SentIsKept == QuotesSpec => []SnapshotIsWhatWasSent
<1>1. QInv => SnapshotIsWhatWasSent
  BY DEF QInv
<1> QED
  BY <1>1, QuotesInvariant, PTL
-------------------------------------------------------------------------------
(* Invoices.  A request for a quote's invoice gets under way only while there  *)
(* is none, so those there are and those to come number no more than requests. *)

Under(q) == {p \in InvoiceRequest : invoiceReq[p] # InvoiceIdle /\ invoiceReq[p].quote = q}

NumbersFollow ==
    /\ \E k \in 0..MaxInvoices : Used = 1..k
    /\ \A p \in InvoiceRequest : invoiceReq[p].at = "insert" =>
          invoiceReq[p].number \in 1..(Cardinality(Used) + 1)

RoomForAll ==
    \A q \in Quote : Cardinality(InvoicesOf(q)) + Cardinality(Under(q)) <= Cardinality(InvoiceRequest)

NInv == QuoteInvoicesTypeOK /\ NumbersFollow /\ RoomForAll

LEMMA FiniteParts ==
    ASSUME NEW q
    PROVE  /\ IsFiniteSet(Used) /\ Cardinality(Used) \in Nat
           /\ IsFiniteSet(InvoicesOf(q)) /\ Cardinality(InvoicesOf(q)) \in Nat
           /\ IsFiniteSet(Under(q)) /\ Cardinality(Under(q)) \in Nat
           /\ Cardinality(Under(q)) <= Cardinality(InvoiceRequest)
           /\ Cardinality(InvoiceRequest) \in Nat
<1>1. IsFiniteSet(1..MaxInvoices)
  BY QuoteInvoicesAssumption, FS_Interval
<1>2. Used \subseteq 1..MaxInvoices /\ InvoicesOf(q) \subseteq Used
  BY DEF Used, InvoicesOf
<1>3. Under(q) \subseteq InvoiceRequest
  BY DEF Under
<1>4. IsFiniteSet(Used) /\ IsFiniteSet(InvoicesOf(q))
  BY <1>1, <1>2, FS_Subset
<1>5. IsFiniteSet(Under(q)) /\ Cardinality(Under(q)) <= Cardinality(InvoiceRequest)
  BY <1>3, QuoteInvoicesAssumption, FS_Subset
<1> QED
  BY <1>4, <1>5, QuoteInvoicesAssumption, FS_CardinalityType

\* Next states have finite parts for the same reason.
LEMMA FinitePartsNext ==
    ASSUME NEW q
    PROVE  /\ IsFiniteSet(InvoicesOf(q)') /\ Cardinality(InvoicesOf(q)') \in Nat
           /\ IsFiniteSet(Under(q)') /\ Cardinality(Under(q)') \in Nat
           /\ Cardinality(Under(q)') <= Cardinality(InvoiceRequest)
<1>1. IsFiniteSet(1..MaxInvoices)
  BY QuoteInvoicesAssumption, FS_Interval
<1>2. InvoicesOf(q)' \subseteq 1..MaxInvoices
  BY DEF Used, InvoicesOf
<1>3. Under(q)' \subseteq InvoiceRequest
  BY DEF Under
<1>4. IsFiniteSet(InvoicesOf(q)')
  BY <1>1, <1>2, FS_Subset
<1>5. IsFiniteSet(Under(q)') /\ Cardinality(Under(q)') <= Cardinality(InvoiceRequest)
  BY <1>3, QuoteInvoicesAssumption, FS_Subset
<1> QED
  BY <1>4, <1>5, FS_CardinalityType

LEMMA NInit == QuoteInvoicesInit => NInv
<1> SUFFICES ASSUME QuoteInvoicesInit PROVE NInv
  OBVIOUS
<1>1. QuoteInvoicesTypeOK
  BY DEF QuoteInvoicesInit, QuoteInvoicesTypeOK
<1>2. Used = 1..0 /\ \A q \in Quote : InvoicesOf(q) = {}
  BY QuoteInvoicesAssumption DEF QuoteInvoicesInit, Used, InvoicesOf
<1>3. NumbersFollow
  BY <1>2, QuoteInvoicesAssumption DEF NumbersFollow, QuoteInvoicesInit, InvoiceIdle
<1>4. RoomForAll
  BY <1>2, FiniteParts, FS_EmptySet DEF RoomForAll
<1> QED
  BY <1>1, <1>3, <1>4 DEF NInv

\* A step of a request that inserts nothing: it is under way for a quote only if it
\* was before, or if the quote has no invoice.
LEMMA InvoiceMoved ==
    ASSUME NInv, NEW p \in InvoiceRequest, NEW r \in {InvoiceIdle} \union Invoicing,
           InvoiceDo(p, r), UNCHANGED <<emptied, invoiced>>,
           r.at = "insert" => r.number \in 1..(Cardinality(Used) + 1),
           r # InvoiceIdle /\ r.quote \in Quote
               => p \in Under(r.quote) \/ InvoicesOf(r.quote) = {}
    PROVE  NInv'
<1>1. /\ invoiceReq' \in [InvoiceRequest -> {InvoiceIdle} \union Invoicing]
      /\ invoiceReq'[p] = r
      /\ \A o \in InvoiceRequest \ {p} : invoiceReq'[o] = invoiceReq[o]
  BY DEF NInv, QuoteInvoicesTypeOK, InvoiceDo
<1>2. QuoteInvoicesTypeOK'
  BY <1>1 DEF NInv, QuoteInvoicesTypeOK
<1>3. Used' = Used /\ \A q \in Quote : InvoicesOf(q)' = InvoicesOf(q)
  BY DEF Used, InvoicesOf
<1>4. NumbersFollow'
  BY <1>1, <1>3 DEF NInv, NumbersFollow
<1>5. ASSUME NEW q \in Quote
      PROVE  Cardinality(InvoicesOf(q)') + Cardinality(Under(q)') <= Cardinality(InvoiceRequest)
  <2>1. CASE Under(q)' \subseteq Under(q)
    <3>1. Cardinality(Under(q)') <= Cardinality(Under(q))
      BY <2>1, FiniteParts, FS_Subset
    <3> QED
      BY <1>3, <3>1, FiniteParts, FinitePartsNext DEF NInv, RoomForAll
  <2>2. CASE InvoicesOf(q) = {}
    BY <1>3, <2>2, FinitePartsNext, FiniteParts, FS_EmptySet
  <2> QED
    BY <1>1, <2>1, <2>2 DEF Under
<1>6. RoomForAll'
  BY <1>5 DEF RoomForAll
<1> QED
  BY <1>2, <1>4, <1>6 DEF NInv

\* The number read is free only if nobody has inserted since: then it is the next.
LEMMA CreateKeeps ==
    ASSUME NInv, NEW p \in InvoiceRequest, CreateInvoice(p), invoiceReq[p].number \notin Used
    PROVE  NInv'
<1> DEFINE n == invoiceReq[p].number
           of == invoiceReq[p].quote
<1>1. invoiceReq[p] \in Invoicing /\ invoiceReq[p].at = "insert" /\ invoiceReq[p] # InvoiceIdle
  BY DEF CreateInvoice, InvoiceAt, InvoiceIdle, NInv, QuoteInvoicesTypeOK
<1>2. PICK k \in 0..MaxInvoices : Used = 1..k
  BY DEF NInv, NumbersFollow
<1>3. Cardinality(Used) = k /\ k \in Nat
  BY <1>2, QuoteInvoicesAssumption, FS_Interval
<1>4. n = k + 1 /\ n \in 1..MaxInvoices
  <2>1. n \in 1..(k + 1) /\ n \in 0..MaxInvoices
    BY <1>1, <1>3 DEF NInv, NumbersFollow, Invoicing
  <2> QED
    BY <1>2, <1>3, <2>1, QuoteInvoicesAssumption
<1>5. /\ invoiced' = [invoiced EXCEPT ![n] = of]
      /\ invoiceReq' = [invoiceReq EXCEPT ![p] = InvoiceIdle]
      /\ emptied' = emptied
  BY DEF CreateInvoice, InvoiceEnds, InvoiceDo
<1>6. of \in {NoQuote} \union Quote /\ of # "unused"
  BY <1>1, QuoteInvoicesAssumption DEF Invoicing, NoQuote
<1>7. QuoteInvoicesTypeOK'
  BY <1>5, <1>6 DEF NInv, QuoteInvoicesTypeOK
<1>8. /\ invoiced' \in [1..MaxInvoices -> Quote \union {NoQuote, "unused"}]
      /\ invoiced'[n] = of
      /\ \A m \in 1..MaxInvoices \ {n} : invoiced'[m] = invoiced[m]
  BY <1>4, <1>5, <1>6 DEF NInv, QuoteInvoicesTypeOK
<1>9. Used' = Used \union {n}
  BY <1>4, <1>6, <1>8 DEF Used
<1>10. Used' = 1..(k + 1) /\ k + 1 \in 0..MaxInvoices
  BY <1>2, <1>3, <1>4, <1>9, QuoteInvoicesAssumption
<1>11. Cardinality(Used') = k + 1
  BY <1>3, <1>10, FS_Interval
<1>12. NumbersFollow'
  <2>1. \A o \in InvoiceRequest \ {p} : invoiceReq'[o] = invoiceReq[o]
    BY <1>5 DEF NInv, QuoteInvoicesTypeOK
  <2>2. invoiceReq'[p].at # "insert"
    BY <1>5 DEF NInv, QuoteInvoicesTypeOK, InvoiceIdle
  <2>3. ASSUME NEW o \in InvoiceRequest, invoiceReq'[o].at = "insert"
        PROVE  invoiceReq'[o].number \in 1..(Cardinality(Used') + 1)
    <3>1. o # p /\ invoiceReq[o].number \in 1..(k + 1)
      BY <1>3, <2>1, <2>2, <2>3 DEF NInv, NumbersFollow
    <3> QED
      BY <1>3, <1>11, <2>1, <3>1
  <2> QED
    BY <1>10, <2>3 DEF NumbersFollow
<1>13. ASSUME NEW q \in Quote
       PROVE  Cardinality(InvoicesOf(q)') + Cardinality(Under(q)') <= Cardinality(InvoiceRequest)
  <2>1. CASE q = of
    <3>1. InvoicesOf(q)' = InvoicesOf(q) \union {n} /\ n \notin InvoicesOf(q)
      BY <1>8, <1>9, <2>1 DEF InvoicesOf, Used
    <3>2. Under(q)' = Under(q) \ {p} /\ p \in Under(q)
      BY <1>1, <1>5, <2>1 DEF Under, NInv, QuoteInvoicesTypeOK
    <3>3. Cardinality(InvoicesOf(q)') = Cardinality(InvoicesOf(q)) + 1
      BY <3>1, FiniteParts, FS_AddElement
    <3>4. Cardinality(Under(q)') = Cardinality(Under(q)) - 1
      BY <3>2, FiniteParts, FS_RemoveElement
    <3> QED
      BY <3>3, <3>4, FiniteParts DEF NInv, RoomForAll
  <2>2. CASE q # of
    <3>1. InvoicesOf(q)' = InvoicesOf(q)
      BY <1>8, <1>9, <2>2 DEF InvoicesOf, Used
    <3>2. Under(q)' \subseteq Under(q)
      BY <1>5 DEF Under, NInv, QuoteInvoicesTypeOK
    <3>3. Cardinality(Under(q)') <= Cardinality(Under(q))
      BY <3>2, FiniteParts, FS_Subset
    <3> QED
      BY <3>1, <3>3, FiniteParts, FinitePartsNext DEF NInv, RoomForAll
  <2> QED
    BY <2>1, <2>2
<1>14. RoomForAll'
  BY <1>13 DEF RoomForAll
<1> QED
  BY <1>7, <1>12, <1>14 DEF NInv

LEMMA NNext == NInv /\ [QuoteInvoicesNext]_quoteInvoicesVars => NInv'
<1> SUFFICES ASSUME NInv, [QuoteInvoicesNext]_quoteInvoicesVars PROVE NInv'
  OBVIOUS
<1>1. CASE UNCHANGED <<invoiced, invoiceReq>> /\ emptied' \in SUBSET Quote
  <2>1. QuoteInvoicesTypeOK'
    BY <1>1 DEF NInv, QuoteInvoicesTypeOK
  <2>2. Used' = Used /\ \A q \in Quote : InvoicesOf(q)' = InvoicesOf(q) /\ Under(q)' = Under(q)
    BY <1>1 DEF Used, InvoicesOf, Under
  <2> QED
    BY <1>1, <2>1, <2>2 DEF NInv, NumbersFollow, RoomForAll
<1>2. ASSUME NEW q \in Quote, EmptyOrFillQuote(q) PROVE NInv'
  BY <1>1, <1>2 DEF EmptyOrFillQuote, NInv, QuoteInvoicesTypeOK
<1>3. ASSUME NEW p \in InvoiceRequest, InvoiceWithoutQuote(p) PROVE NInv'
  <2> DEFINE r == [at |-> "number", quote |-> NoQuote, number |-> 0]
  <2>1. r \in Invoicing /\ r.quote \notin Quote /\ r.at # "insert"
    BY QuoteInvoicesAssumption DEF Invoicing, NoQuote
  <2>2. InvoiceDo(p, r) /\ UNCHANGED <<emptied, invoiced>>
    BY <1>3 DEF InvoiceWithoutQuote
  <2> HIDE DEF r
  <2> QED
    BY <2>1, <2>2, InvoiceMoved
<1>4. ASSUME NEW p \in InvoiceRequest, NEW q \in Quote, QuoteNotInvoiced(p, q) PROVE NInv'
  <2> DEFINE r == [at |-> "quote", quote |-> q, number |-> 0]
  <2>1. r \in Invoicing /\ InvoicesOf(r.quote) = {} /\ r.at # "insert"
    BY <1>4, QuoteInvoicesAssumption DEF Invoicing, QuoteNotInvoiced
  <2>2. InvoiceDo(p, r) /\ UNCHANGED <<emptied, invoiced>>
    BY <1>4 DEF QuoteNotInvoiced
  <2> HIDE DEF r
  <2> QED
    BY <2>1, <2>2, InvoiceMoved
<1>5. ASSUME NEW p \in InvoiceRequest, InvoiceEnds(p), UNCHANGED <<emptied, invoiced>> PROVE NInv'
  BY <1>5, InvoiceMoved DEF InvoiceEnds, InvoiceIdle
<1>6. ASSUME NEW p \in InvoiceRequest, GetQuoteForInvoice(p) PROVE NInv'
  <2> DEFINE r == [invoiceReq[p] EXCEPT !.at = "number"]
  <2>1. invoiceReq[p] \in Invoicing /\ invoiceReq[p] # InvoiceIdle
    BY <1>6 DEF GetQuoteForInvoice, InvoiceAt, InvoiceIdle, NInv, QuoteInvoicesTypeOK
  <2>2. r \in Invoicing /\ r.quote = invoiceReq[p].quote /\ r.at = "number"
    BY <2>1 DEF Invoicing
  <2>3. p \in Under(r.quote)
    BY <2>1, <2>2 DEF Under
  <2>4. InvoiceEnds(p) \/ InvoiceDo(p, r)
    BY <1>6 DEF GetQuoteForInvoice
  <2>5. UNCHANGED <<emptied, invoiced>>
    BY <1>6 DEF GetQuoteForInvoice
  <2> HIDE DEF r
  <2> QED
    BY <1>5, <2>2, <2>3, <2>4, <2>5, InvoiceMoved
<1>7. ASSUME NEW p \in InvoiceRequest, NextInvoiceNumber(p) PROVE NInv'
  <2> DEFINE n == Cardinality(Used) + 1
             r == [invoiceReq[p] EXCEPT !.at = "insert", !.number = n]
  <2>1. invoiceReq[p] \in Invoicing /\ invoiceReq[p] # InvoiceIdle
    BY <1>7 DEF NextInvoiceNumber, InvoiceAt, InvoiceIdle, NInv, QuoteInvoicesTypeOK
  <2>2. n \in 0..MaxInvoices /\ n \in 1..(Cardinality(Used) + 1)
    BY <1>7, FiniteParts, QuoteInvoicesAssumption DEF NextInvoiceNumber
  <2> HIDE DEF n
  <2>3. r \in Invoicing /\ r.quote = invoiceReq[p].quote /\ r.number = n
    BY <2>1, <2>2 DEF Invoicing
  <2>4. p \in Under(r.quote)
    BY <2>1, <2>3 DEF Under
  <2>5. InvoiceDo(p, r) /\ UNCHANGED <<emptied, invoiced>>
    BY <1>7 DEF NextInvoiceNumber, n
  <2> HIDE DEF r
  <2> QED
    BY <2>2, <2>3, <2>4, <2>5, InvoiceMoved
<1>8. ASSUME NEW p \in InvoiceRequest, CreateInvoice(p) PROVE NInv'
  BY <1>5, <1>8, CreateKeeps DEF CreateInvoice
<1>9. CASE UNCHANGED quoteInvoicesVars
  BY <1>1, <1>9 DEF quoteInvoicesVars, NInv, QuoteInvoicesTypeOK
<1> QED
  BY <1>2, <1>3, <1>4, <1>6, <1>7, <1>8, <1>9 DEF QuoteInvoicesNext

LEMMA QuoteInvoicesInvariant == QuoteInvoicesSpec => []NInv
  BY NInit, NNext, PTL DEF QuoteInvoicesSpec

\* The invoices, the quotes and the requests that number them keep their types.
THEOREM QuoteInvoicesTypeCorrect == QuoteInvoicesSpec => []QuoteInvoicesTypeOK
<1>1. NInv => QuoteInvoicesTypeOK
  BY DEF NInv
<1> QED
  BY <1>1, QuoteInvoicesInvariant, PTL

\* Invoice numbers leave no gap, and a quote has no more invoices than there are
\* requests that can be under way at once, for any number of quotes and invoices.
THEOREM InvoicedOnlyUnseen == QuoteInvoicesSpec => []InvoicedWhileUnseen
<1>1. NInv => InvoicedWhileUnseen
  <2> SUFFICES ASSUME NInv PROVE InvoicedWhileUnseen
    OBVIOUS
  <2>1. PICK k \in 0..MaxInvoices : Used = 1..k
    BY DEF NInv, NumbersFollow
  <2>2. Cardinality(Used) = k
    BY <2>1, QuoteInvoicesAssumption, FS_Interval
  <2>3. \A q \in Quote : Cardinality(InvoicesOf(q)) <= Cardinality(InvoiceRequest)
    BY FiniteParts DEF NInv, RoomForAll
  <2> QED
    BY <2>1, <2>2, <2>3 DEF InvoicedWhileUnseen
<1> QED
  BY <1>1, QuoteInvoicesInvariant, PTL
================================================================================

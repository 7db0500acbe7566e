------------------------------ MODULE LedgerProofs -----------------------------
(***************************************************************************)
(* What holds of money and points, for any number of invoices, payments,   *)
(* customers, workers and requests.  The totals are folds over finite      *)
(* sets, so the module starts with what a sum is.                          *)
(***************************************************************************)
EXTENDS Loyalty, Billing, FiniteSetTheorems, NaturalsInduction, WellFoundedInduction, TLAPS

(* Induction over the natural numbers, on a set rather than a predicate.          *)

NatLess == {ss \in Nat \X Nat : ss[1] < ss[2]}

LEMMA LessWellFounded == IsWellFoundedOn(NatLess, Nat)
  BY NatLessThanWellFounded DEF OpToRel, NatLess

LEMMA NatSet ==
    ASSUME NEW T \in SUBSET Nat, 0 \in T, \A n \in T : n + 1 \in T
    PROVE  T = Nat
<1> SUFFICES ASSUME T # Nat PROVE FALSE
  OBVIOUS
<1> DEFINE U == Nat \ T
<1>1. U # {} /\ U \subseteq Nat
  OBVIOUS
<1>2. PICK x \in U : \A y \in U : ~ (<<y, x>> \in NatLess)
  BY <1>1, WFMin, LessWellFounded
<1>3. x - 1 \in Nat /\ x - 1 < x
  BY DEF U
<1>4. <<x - 1, x>> \in NatLess
  BY <1>3 DEF NatLess
<1>5. x - 1 \in T
  BY <1>2, <1>3, <1>4
<1> QED
  BY <1>5, <1>1

-------------------------------------------------------------------------------
(* Sums.  SumsUp(g, f, S): g is the recursive function that SumFunctionOnSet      *)
(* chooses, taking one element of the set after the other.                        *)

One(s) == CHOOSE x \in s : TRUE

SumsUp(g, f, S) ==
    g = [s \in SUBSET S |-> IF s = {} THEN 0 ELSE f[One(s)] + g[s \ {One(s)}]]

Weights(f, S) == IsFiniteSet(S) /\ \A x \in S : f[x] \in Nat

LEMMA SmallerPart ==
    ASSUME NEW S, IsFiniteSet(S), NEW s \in SUBSET S, s # {}
    PROVE  /\ One(s) \in s /\ IsFiniteSet(s) /\ Cardinality(s) \in Nat
           /\ s \ {One(s)} \in SUBSET S /\ Cardinality(s \ {One(s)}) = Cardinality(s) - 1
<1>1. One(s) \in s
  BY DEF One
<1>2. IsFiniteSet(s)
  BY FS_Subset
<1> QED
  BY <1>1, <1>2, FS_RemoveElement, FS_CardinalityType

\* There is such a function: up to any size of the subsets, hence on all of them.
LEMMA SumExists ==
    ASSUME NEW f, NEW S, Weights(f, S)
    PROVE  \E g : SumsUp(g, f, S)
<1> DEFINE Small(n) == {s \in SUBSET S : Cardinality(s) <= n}
           Next1(g, n) == [s \in Small(n) |-> IF s = {} THEN 0 ELSE f[One(s)] + g[s \ {One(s)}]]
           T == {n \in Nat : \E g : g = Next1(g, n)}
<1>0. IsFiniteSet(S) /\ \A s \in SUBSET S : Cardinality(s) \in Nat /\ (s # {} => One(s) \in s)
  BY FS_Subset, FS_CardinalityType DEF Weights, One
<1>1. 0 \in T
  <2> DEFINE g == [s \in Small(0) |-> 0]
  <2>1. \A s \in Small(0) : s = {}
    <3> TAKE s \in Small(0)
    <3>1. IsFiniteSet(s) /\ Cardinality(s) = 0
      BY <1>0, FS_Subset
    <3> QED
      BY <3>1, FS_EmptySet
  <2>2. g = Next1(g, 0)
    BY <2>1
  <2> QED
    BY <2>2
<1>2. ASSUME NEW n \in T PROVE n + 1 \in T
  <2>1. PICK g : g = Next1(g, n)
    BY <1>2
  <2> DEFINE h == Next1(g, n + 1)
  <2>2. ASSUME NEW s \in Small(n + 1), s # {} PROVE s \ {One(s)} \in Small(n)
    <3>1. Cardinality(s \ {One(s)}) = Cardinality(s) - 1 /\ s \ {One(s)} \in SUBSET S
      BY <1>0, <2>2, SmallerPart
    <3>2. Cardinality(s) \in Nat /\ Cardinality(s) <= n + 1
      BY <1>0
    <3> QED
      BY <3>1, <3>2
  <2>3. \A s \in Small(n) : s \in Small(n + 1) /\ h[s] = g[s]
    <3> TAKE s \in Small(n)
    <3>1. s \in Small(n + 1)
      BY <1>0
    <3>2. g[s] = IF s = {} THEN 0 ELSE f[One(s)] + g[s \ {One(s)}]
      BY <2>1
    <3> QED
      BY <3>1, <3>2
  <2>4. h = Next1(h, n + 1)
    BY <2>2, <2>3
  <2> HIDE DEF h, Next1
  <2> QED
    BY <2>4
<1>3. T = Nat
  <2> HIDE DEF T
  <2>1. T \in SUBSET Nat
    BY DEF T
  <2> QED
    BY <1>1, <1>2, <2>1, NatSet
<1>4. Cardinality(S) \in Nat /\ Small(Cardinality(S)) = SUBSET S
  BY <1>0, FS_Subset
<1>5. PICK g : g = Next1(g, Cardinality(S))
  BY <1>3, <1>4
<1> QED
  BY <1>4, <1>5 DEF SumsUp

LEMMA SumIs ==
    ASSUME NEW f, NEW S, Weights(f, S)
    PROVE  \E g : SumsUp(g, f, S) /\ SumFunctionOnSet(f, S) = g[S]
<1> DEFINE c == CHOOSE g : SumsUp(g, f, S)
<1>1. SumsUp(c, f, S)
  BY SumExists
<1>2. SumFunctionOnSet(f, S) = c[S]
  BY DEF SumFunctionOnSet, FoldFunctionOnSet, MapThenFoldSet, SumsUp, One
<1> QED
  BY <1>1, <1>2

\* Two such functions agree wherever both are defined and add up the same weights.
LEMMA SumsAgree ==
    ASSUME NEW f, NEW S, Weights(f, S), NEW g, SumsUp(g, f, S),
           NEW e, NEW R, Weights(e, R), NEW h, SumsUp(h, e, R),
           NEW U, U \subseteq S, U \subseteq R, \A x \in U : f[x] = e[x]
    PROVE  g[U] = h[U]
<1> DEFINE P(n) == \A s \in SUBSET U : Cardinality(s) = n => g[s] = h[s]
           T == {n \in Nat : P(n)}
<1>1. IsFiniteSet(S) /\ IsFiniteSet(U)
  BY FS_Subset DEF Weights
<1>2. \A s \in SUBSET U : /\ g[s] = IF s = {} THEN 0 ELSE f[One(s)] + g[s \ {One(s)}]
                          /\ h[s] = IF s = {} THEN 0 ELSE e[One(s)] + h[s \ {One(s)}]
  BY DEF SumsUp
<1>3. 0 \in T
  <2> SUFFICES ASSUME NEW s \in SUBSET U, Cardinality(s) = 0 PROVE g[s] = h[s]
    OBVIOUS
  <2>1. s = {}
    BY <1>1, FS_Subset, FS_EmptySet
  <2> QED
    BY <1>2, <2>1
<1>4. ASSUME NEW n \in T PROVE n + 1 \in T
  <2> SUFFICES ASSUME NEW s \in SUBSET U, Cardinality(s) = n + 1 PROVE g[s] = h[s]
    OBVIOUS
  <2>1. s # {}
    BY FS_EmptySet
  <2>2. One(s) \in U /\ s \ {One(s)} \in SUBSET U /\ Cardinality(s \ {One(s)}) = n
    BY <1>1, <2>1, SmallerPart
  <2>3. g[s \ {One(s)}] = h[s \ {One(s)}] /\ f[One(s)] = e[One(s)]
    BY <1>4, <2>2
  <2> QED
    BY <1>2, <2>1, <2>3
<1>5. T = Nat
  <2> HIDE DEF T
  <2>1. T \in SUBSET Nat
    BY DEF T
  <2> QED
    BY <1>3, <1>4, <2>1, NatSet
<1>6. Cardinality(U) \in Nat
  BY <1>1, FS_CardinalityType
<1> QED
  BY <1>5, <1>6

\* A sum depends on the weights of its own elements only.
LEMMA SumSame ==
    ASSUME NEW S, NEW f, NEW e, Weights(f, S), \A x \in S : f[x] = e[x]
    PROVE  SumFunctionOnSet(f, S) = SumFunctionOnSet(e, S)
<1>1. Weights(e, S)
  BY DEF Weights
<1>2. PICK g : SumsUp(g, f, S) /\ SumFunctionOnSet(f, S) = g[S]
  BY SumIs
<1>3. PICK h : SumsUp(h, e, S) /\ SumFunctionOnSet(e, S) = h[S]
  BY <1>1, SumIs
<1> QED
  BY <1>1, <1>2, <1>3, SumsAgree

LEMMA SumEmpty == ASSUME NEW f PROVE SumFunctionOnSet(f, {}) = 0
<1>1. Weights(f, {})
  BY FS_EmptySet DEF Weights
<1> QED
  BY <1>1, SumIs DEF SumsUp

LEMMA SumOne ==
    ASSUME NEW f, NEW S, Weights(f, S), S # {}
    PROVE  SumFunctionOnSet(f, S) = f[One(S)] + SumFunctionOnSet(f, S \ {One(S)})
<1> DEFINE R == S \ {One(S)}
<1>1. Weights(f, R) /\ R \in SUBSET S
  BY FS_Subset DEF Weights
<1>2. PICK g : SumsUp(g, f, S) /\ SumFunctionOnSet(f, S) = g[S]
  BY SumIs
<1>3. PICK h : SumsUp(h, f, R) /\ SumFunctionOnSet(f, R) = h[R]
  BY <1>1, SumIs
<1> HIDE DEF R
<1>4. g[R] = h[R]
  BY <1>1, <1>2, <1>3, SumsAgree
<1>5. g[S] = f[One(S)] + g[R]
  <2>1. \A s \in SUBSET S : g[s] = IF s = {} THEN 0 ELSE f[One(s)] + g[s \ {One(s)}]
    BY <1>2 DEF SumsUp
  <2> QED
    BY <2>1 DEF R
<1> QED
  BY <1>2, <1>3, <1>4, <1>5 DEF R

LEMMA SumType ==
    ASSUME NEW f, NEW S, Weights(f, S)
    PROVE  SumFunctionOnSet(f, S) \in Nat
<1> DEFINE P(n) == \A s \in SUBSET S : Cardinality(s) = n => SumFunctionOnSet(f, s) \in Nat
           T == {n \in Nat : P(n)}
<1>1. IsFiniteSet(S) /\ \A s \in SUBSET S : IsFiniteSet(s) /\ Weights(f, s)
  BY FS_Subset DEF Weights
<1>2. 0 \in T
  BY <1>1, FS_EmptySet, SumEmpty
<1>3. ASSUME NEW n \in T PROVE n + 1 \in T
  <2> SUFFICES ASSUME NEW s \in SUBSET S, Cardinality(s) = n + 1
               PROVE  SumFunctionOnSet(f, s) \in Nat
    OBVIOUS
  <2>1. s # {}
    BY FS_EmptySet
  <2>2. One(s) \in S /\ s \ {One(s)} \in SUBSET S /\ Cardinality(s \ {One(s)}) = n
    BY <1>1, <2>1, SmallerPart
  <2>3. SumFunctionOnSet(f, s \ {One(s)}) \in Nat /\ f[One(s)] \in Nat
    BY <1>3, <2>2 DEF Weights
  <2> QED
    BY <1>1, <2>1, <2>3, SumOne
<1>4. T = Nat
  <2> HIDE DEF T
  <2>1. T \in SUBSET Nat
    BY DEF T
  <2> QED
    BY <1>2, <1>3, <2>1, NatSet
<1>5. Cardinality(S) \in Nat
  BY <1>1, FS_CardinalityType
<1> QED
  BY <1>4, <1>5

\* Any element may be taken first.
LEMMA SumTake ==
    ASSUME NEW f, NEW S, Weights(f, S), NEW x \in S
    PROVE  SumFunctionOnSet(f, S) = f[x] + SumFunctionOnSet(f, S \ {x})
<1> DEFINE P(n) == \A s \in SUBSET S : Cardinality(s) = n =>
                      \A z \in s : SumFunctionOnSet(f, s) = f[z] + SumFunctionOnSet(f, s \ {z})
           T == {n \in Nat : P(n)}
<1>1. IsFiniteSet(S) /\ \A s \in SUBSET S : IsFiniteSet(s) /\ Weights(f, s)
  BY FS_Subset DEF Weights
<1>2. 0 \in T
  BY <1>1, FS_EmptySet
<1>3. ASSUME NEW n \in T PROVE n + 1 \in T
  <2> SUFFICES ASSUME NEW s \in SUBSET S, Cardinality(s) = n + 1, NEW z \in s
               PROVE  SumFunctionOnSet(f, s) = f[z] + SumFunctionOnSet(f, s \ {z})
    OBVIOUS
  <2> DEFINE y == One(s)
  <2>1. s # {}
    OBVIOUS
  <2>2. SumFunctionOnSet(f, s) = f[y] + SumFunctionOnSet(f, s \ {y})
    BY <1>1, SumOne
  <2>3. CASE z = y
    BY <2>2, <2>3
  <2>4. CASE z # y
    <3>1. y \in s /\ Cardinality(s \ {y}) = n
      BY <1>1, <2>1, SmallerPart
    <3>2. Cardinality(s \ {z}) = n
      <4>1. IsFiniteSet(s) /\ n \in Nat
        BY <1>1
      <4>2. Cardinality(s \ {z}) = Cardinality(s) - 1
        BY <4>1, FS_RemoveElement
      <4> QED
        BY <4>1, <4>2
    <3> HIDE DEF y
    <3>3. SumFunctionOnSet(f, s \ {y}) = f[z] + SumFunctionOnSet(f, (s \ {y}) \ {z})
      BY <1>3, <2>4, <3>1
    <3>4. SumFunctionOnSet(f, s \ {z}) = f[y] + SumFunctionOnSet(f, (s \ {z}) \ {y})
      BY <1>3, <2>4, <3>1, <3>2
    <3>5. (s \ {y}) \ {z} = (s \ {z}) \ {y} /\ Weights(f, (s \ {z}) \ {y})
      BY <1>1
    <3>6. SumFunctionOnSet(f, (s \ {z}) \ {y}) \in Nat /\ f[y] \in Nat /\ f[z] \in Nat
      BY <3>1, <3>5, SumType DEF Weights
    <3> QED
      BY <2>2, <3>3, <3>4, <3>5, <3>6
  <2> QED
    BY <2>3, <2>4
<1>4. T = Nat
  <2> HIDE DEF T
  <2>1. T \in SUBSET Nat
    BY DEF T
  <2> QED
    BY <1>2, <1>3, <2>1, NatSet
<1>5. Cardinality(S) \in Nat
  BY <1>1, FS_CardinalityType
<1> QED
  BY <1>4, <1>5

\* A sum with one more element, and one where the weight of an element grows by d.
LEMMA SumAdd ==
    ASSUME NEW f, NEW S, NEW x, x \notin S, Weights(f, S \union {x})
    PROVE  /\ SumFunctionOnSet(f, S \union {x}) = SumFunctionOnSet(f, S) + f[x]
           /\ SumFunctionOnSet(f, S) \in Nat /\ f[x] \in Nat
<1>1. Weights(f, S) /\ (S \union {x}) \ {x} = S /\ f[x] \in Nat
  BY FS_Subset DEF Weights
<1> QED
  BY <1>1, SumTake, SumType

LEMMA SumGrows ==
    ASSUME NEW S, NEW f, NEW e, Weights(f, S), NEW x \in S, NEW d \in Nat,
           e[x] = f[x] + d, \A y \in S \ {x} : e[y] = f[y]
    PROVE  /\ SumFunctionOnSet(e, S) = SumFunctionOnSet(f, S) + d
           /\ SumFunctionOnSet(f, S) \in Nat
<1>1. Weights(e, S) /\ Weights(f, S \ {x}) /\ Weights(e, S \ {x}) /\ f[x] \in Nat
  BY FS_Subset DEF Weights
<1>2. SumFunctionOnSet(e, S \ {x}) = SumFunctionOnSet(f, S \ {x})
  BY <1>1, SumSame
<1>3. SumFunctionOnSet(f, S \ {x}) \in Nat
  BY <1>1, SumType
<1> QED
  BY <1>1, <1>2, <1>3, SumTake

-------------------------------------------------------------------------------
(* Billing: rows and tasks have their types, and the figures tie.                 *)

\* What a task needs for its next step.
Justified(r) ==
    /\ r.at \in {"insertPayment", "insertManual"} => r.amount > 0
    /\ r.at \in {"journal", "setSucceeded", "gatewayRefund", "insertRefund"}
          => r.payment \in DOMAIN payments

InvoiceRow == [status : {"draft", "issued", "partially_paid", "paid", "void"},
               gross : Nat, discount : Nat, total : Nat, amountPaid : Nat]
PaymentRow == [manual : BOOLEAN, amount : Nat \ {0}, status : {"pending", "succeeded"}]

RowsOK ==
    /\ invoice \in InvoiceRow /\ FiguresTie
    /\ lines \in Nat
    /\ payments \in Seq(PaymentRow) /\ Len(payments) <= MaxPayments
    /\ captured \subseteq DOMAIN payments
    /\ refunded \in [Slot -> Nat] /\ returned \in [Slot -> Nat]
    /\ redeemed \in BOOLEAN
    /\ journal \in SUBSET Slot /\ acked \in SUBSET Slot

RInv ==
    /\ RowsOK
    /\ task \in [BillingRequest -> {NoTask} \union BillingTask]
    /\ \A p \in BillingRequest : Justified(task[p])
    /\ IsFiniteSet(Reconciling) /\ IsFiniteSet(Editing)
    /\ begun \in 0..MaxRequests /\ disturbed \in BOOLEAN

LEMMA RInit == BillingInit => RInv
<1> SUFFICES ASSUME BillingInit PROVE RInv
  OBVIOUS
<1>1. RowsOK
  <2>1. PICK f \in Figure :
            /\ invoice = [status |-> "draft", gross |-> f, discount |-> 0, total |-> f, amountPaid |-> 0]
            /\ lines = f
    BY DEF BillingInit
  <2>2. f \in Nat /\ MaxPayments \in Nat
    BY BillingAssumption
  <2>3. invoice \in InvoiceRow /\ FiguresTie /\ lines \in Nat
    BY <2>1, <2>2 DEF InvoiceRow, FiguresTie
  <2>4. payments \in Seq(PaymentRow) /\ Len(payments) <= MaxPayments /\ captured \subseteq DOMAIN payments
    BY <2>2 DEF BillingInit
  <2>5. refunded \in [Slot -> Nat] /\ returned \in [Slot -> Nat]
    BY DEF BillingInit
  <2> QED
    BY <2>3, <2>4, <2>5 DEF BillingInit, RowsOK
<1>2. \A p \in BillingRequest : task[p] = NoTask
  BY DEF BillingInit
<1>3. Reconciling = {} /\ Editing = {}
  BY <1>2 DEF Reconciling, Editing, NoTask
<1>4. \A p \in BillingRequest : Justified(task[p])
  BY <1>2 DEF Justified, NoTask
<1>5. IsFiniteSet(Reconciling) /\ IsFiniteSet(Editing)
  BY <1>3, FS_EmptySet
<1>6. begun \in 0..MaxRequests
  BY BillingAssumption DEF BillingInit
<1>7. task \in [BillingRequest -> {NoTask} \union BillingTask] /\ disturbed \in BOOLEAN
  BY DEF BillingInit
<1> QED
  BY <1>1, <1>4, <1>5, <1>6, <1>7 DEF RInv

LEMMA TaskBusy ==
    ASSUME RInv, NEW p \in BillingRequest, task[p].at # "rest"
    PROVE  /\ task[p] \in BillingTask /\ Justified(task[p])
           /\ task[p].payment \in 0..MaxPayments /\ task[p].amount \in Nat
  BY DEF RInv, NoTask, BillingTask

Summing == {"sum", "sumRefunds", "setAmountPaid"}
Rewriting == {"deleteLines", "createLines"}

LEMMA AtMostOne ==
    ASSUME NEW S, IsFiniteSet(S), ~ (Cardinality(S) > 1), NEW x \in S, NEW y \in S
    PROVE  x = y
<1> SUFFICES ASSUME x # y PROVE FALSE
  OBVIOUS
<1>1. IsFiniteSet({x}) /\ Cardinality({x}) = 1
  BY FS_Singleton
<1>2. Cardinality({x} \union {y}) = 2
  BY <1>1, FS_AddElement
<1>3. Cardinality({x} \union {y}) <= Cardinality(S) /\ Cardinality(S) \in Nat
  BY FS_Subset, FS_CardinalityType
<1> QED
  BY <1>2, <1>3

\* What is under way once request p goes on to r.
LEMMA Puts ==
    ASSUME RInv, NEW p \in BillingRequest, NEW r \in {NoTask} \union BillingTask, BillingPut(p, r)
    PROVE  /\ task' \in [BillingRequest -> {NoTask} \union BillingTask]
           /\ task'[p] = r /\ \A q \in BillingRequest \ {p} : task'[q] = task[q]
           /\ Reconciling' = (Reconciling \ {p}) \union {q \in {p} : r.at \in Summing}
           /\ Editing' = (Editing \ {p}) \union {q \in {p} : r.at \in Rewriting}
           /\ IsFiniteSet(Reconciling') /\ IsFiniteSet(Editing')
           /\ disturbed' \in BOOLEAN
           /\ ~ disturbed' =>
                /\ ~ disturbed
                /\ \A q, s \in Reconciling' : q = s
                /\ \A q, s \in Editing' : q = s
<1>1. /\ task' \in [BillingRequest -> {NoTask} \union BillingTask]
      /\ task'[p] = r /\ \A q \in BillingRequest \ {p} : task'[q] = task[q]
  BY DEF RInv, BillingPut
<1>2. Reconciling' = (Reconciling \ {p}) \union {q \in {p} : r.at \in Summing}
  BY <1>1 DEF Reconciling, Summing
<1>3. Editing' = (Editing \ {p}) \union {q \in {p} : r.at \in Rewriting}
  BY <1>1 DEF Editing, Rewriting
<1>4. IsFiniteSet(Reconciling') /\ IsFiniteSet(Editing')
  <2>1. IsFiniteSet(Reconciling \union {p}) /\ IsFiniteSet(Editing \union {p})
    BY FS_AddElement DEF RInv
  <2> QED
    BY <1>2, <1>3, <2>1, FS_Subset
<1>5. disturbed' = (disturbed \/ Cardinality(Reconciling') > 1 \/ Cardinality(Editing') > 1)
  BY DEF BillingPut
<1>6. ~ disturbed' => \A q, s \in Reconciling' : q = s
  BY <1>4, <1>5, AtMostOne
<1>7. ~ disturbed' => \A q, s \in Editing' : q = s
  BY <1>4, <1>5, AtMostOne
<1>8. disturbed' \in BOOLEAN
  BY <1>5
<1> QED
  BY <1>1, <1>2, <1>3, <1>4, <1>5, <1>6, <1>7, <1>8

\* A request goes on to r, and the rows stay right.
LEMMA Goes ==
    ASSUME RInv, NEW p \in BillingRequest, NEW r \in {NoTask} \union BillingTask, BillingPut(p, r),
           begun' \in 0..MaxRequests, RowsOK', DOMAIN payments \subseteq DOMAIN payments',
           Justified(r)'
    PROVE  RInv'
<1>1. \A q \in BillingRequest : Justified(task[q])
  BY DEF RInv
<1>2. \A q \in BillingRequest : Justified(task[q])'
  BY <1>1, Puts DEF Justified
<1> QED
  BY <1>2, Puts DEF RInv

\* The values a task goes on to.
LEMMA NextTask ==
    ASSUME NEW at, NEW k, NEW n, k \in 0..MaxPayments, n \in Nat,
           at \in {"insertPayment", "insertManual", "journal", "setSucceeded", "gatewayRefund",
                   "insertRefund", "sum", "sumRefunds", "setAmountPaid", "getInvoice", "paid",
                   "partially_paid", "issued", "void", "writeFigures", "deleteLines",
                   "createLines", "redeem"}
    PROVE  /\ [at |-> at, payment |-> k, amount |-> n] \in BillingTask
           /\ [at |-> at, payment |-> k, amount |-> n].at = at
           /\ [at |-> at, payment |-> k, amount |-> n].payment = k
           /\ [at |-> at, payment |-> k, amount |-> n].amount = n
  BY DEF BillingTask

LEMMA Numbers ==
    ASSUME RowsOK
    PROVE  /\ invoice \in InvoiceRow
           /\ invoice.gross \in Nat /\ invoice.discount \in Nat
           /\ invoice.total \in Nat /\ invoice.amountPaid \in Nat
           /\ MaxPayments \in Nat /\ Len(payments) \in Nat
           /\ DOMAIN payments = 1..Len(payments) /\ DOMAIN payments \subseteq Slot
           /\ \A k \in DOMAIN payments : /\ payments[k] \in PaymentRow
                                         /\ payments[k].amount \in Nat \ {0}
                                         /\ k \in 0..MaxPayments
<1>1. payments \in Seq(PaymentRow) /\ Len(payments) <= MaxPayments /\ MaxPayments \in Nat
  BY BillingAssumption DEF RowsOK
<1>2. Len(payments) \in Nat /\ DOMAIN payments = 1..Len(payments)
  BY <1>1
<1>3. \A k \in DOMAIN payments : payments[k] \in PaymentRow
  BY <1>1
<1>4. \A k \in DOMAIN payments : k \in 1..MaxPayments
  BY <1>1, <1>2
<1> QED
  BY <1>1, <1>2, <1>3, <1>4 DEF RowsOK, InvoiceRow, PaymentRow, Slot

\* A request that begins or goes on where the rows stay.
LEMMA GoesOn ==
    ASSUME RInv, NEW p \in BillingRequest, NEW r \in {NoTask} \union BillingTask, BillingPut(p, r),
           begun' \in 0..MaxRequests, Justified(r), UNCHANGED <<rowVars, captured>>,
           returned' \in [Slot -> Nat], acked' \in SUBSET Slot
    PROVE  RInv'
<1>1. RowsOK'
  BY DEF RInv, RowsOK, rowVars, FiguresTie
<1>2. Justified(r)' /\ DOMAIN payments \subseteq DOMAIN payments'
  BY DEF Justified, rowVars
<1> QED
  BY <1>1, <1>2, Goes

LEMMA Begun ==
    ASSUME RInv, NEW p \in BillingRequest, NEW at, NEW k, NEW n, BeginBilling(p, at, k, n)
    PROVE  /\ begun' \in 0..MaxRequests /\ task[p] = NoTask
           /\ BillingPut(p, [at |-> at, payment |-> k, amount |-> n])
<1>1. begun \in 0..MaxRequests /\ MaxRequests \in Nat /\ begun < MaxRequests /\ begun' = begun + 1
  BY BillingAssumption DEF RInv, BeginBilling
<1> QED
  BY <1>1 DEF BeginBilling

LEMMA BeginsKeeps ==
    ASSUME RInv, NEW p \in BillingRequest, Begins(p)
    PROVE  RInv'
<1>1. /\ UNCHANGED <<rowVars, captured, returned, acked>>
      /\ returned' \in [Slot -> Nat] /\ acked' \in SUBSET Slot
  BY DEF Begins, CreatePayment, DeliverWebhook, MarkPaid, Refund, Transition, UpdateInvoice,
     RedeemCoupon, gatewayVars, RInv, RowsOK
<1>2. RowsOK /\ invoice.total \in Nat /\ invoice.amountPaid \in Nat /\ invoice.discount \in Nat
      /\ MaxPayments \in Nat /\ 0 \in 0..MaxPayments /\ Discount \in Nat
  BY Numbers, BillingAssumption DEF RInv
<1>3. ASSUME NEW at \in {"insertPayment", "insertManual", "journal", "gatewayRefund", "sum",
                         "issued", "void", "writeFigures", "redeem"},
             NEW k \in 0..MaxPayments, NEW n \in Nat, BeginBilling(p, at, k, n),
             at \in {"insertPayment", "insertManual"} => n > 0,
             at \in {"journal", "gatewayRefund"} => k \in DOMAIN payments
      PROVE  RInv'
  <2> DEFINE r == [at |-> at, payment |-> k, amount |-> n]
  <2>1. r \in BillingTask /\ r.at = at /\ r.payment = k /\ r.amount = n
    BY NextTask
  <2>2. begun' \in 0..MaxRequests /\ BillingPut(p, r)
    BY <1>3, Begun
  <2> HIDE DEF r
  <2>3. Justified(r)
    BY <1>3, <2>1 DEF Justified
  <2> QED
    BY <1>1, <2>1, <2>2, <2>3, GoesOn
<1>4. CASE CreatePayment(p)
  BY <1>2, <1>3, <1>4 DEF CreatePayment
<1>5. CASE DeliverWebhook(p)
  <2>1. PICK k \in captured : BeginBilling(p, "journal", k, 0)
    BY <1>5 DEF DeliverWebhook
  <2>2. k \in DOMAIN payments /\ k \in 0..MaxPayments
    BY Numbers DEF RInv, RowsOK
  <2> QED
    BY <1>3, <2>1, <2>2
<1>6. CASE MarkPaid(p)
  <2>1. CASE invoice.amountPaid < invoice.total
             /\ BeginBilling(p, "insertManual", 0, invoice.total - invoice.amountPaid)
    BY <1>2, <1>3, <2>1
  <2>2. CASE BeginBilling(p, "sum", 0, 0)
    BY <1>2, <1>3, <2>2
  <2> QED
    BY <1>6, <2>1, <2>2 DEF MarkPaid
<1>7. CASE Refund(p)
  <2>1. PICK k \in DOMAIN payments :
            \E n \in 1..payments[k].amount : BeginBilling(p, "gatewayRefund", k, n)
    BY <1>7 DEF Refund
  <2>2. k \in 0..MaxPayments /\ \E n \in Nat : BeginBilling(p, "gatewayRefund", k, n)
    BY <1>2, <2>1, Numbers
  <2> QED
    BY <1>3, <2>1, <2>2
<1>8. CASE Transition(p)
  BY <1>2, <1>3, <1>8 DEF Transition
<1>9. CASE UpdateInvoice(p)
  BY <1>2, <1>3, <1>9 DEF UpdateInvoice
<1>10. CASE RedeemCoupon(p)
  BY <1>2, <1>3, <1>10 DEF RedeemCoupon
<1> QED
  BY <1>4, <1>5, <1>6, <1>7, <1>8, <1>9, <1>10 DEF Begins

\* A request that goes on, or returns, and what that does to its task.
LEMMA Continued ==
    ASSUME RInv, NEW p \in BillingRequest, task[p].at # "rest",
           NEW at \in {"setSucceeded", "insertRefund", "sum", "sumRefunds", "setAmountPaid",
                       "getInvoice", "paid", "partially_paid", "deleteLines", "createLines"},
           NEW k \in 0..MaxPayments, NEW n \in Nat, BillingDo(p, at, k, n)
    PROVE  \E r \in BillingTask :
              BillingPut(p, r) /\ begun' = begun /\ r.at = at /\ r.payment = k /\ r.amount = n
  BY NextTask DEF BillingDo

LEMMA InvoiceSet ==
    ASSUME RowsOK, NEW n \in Nat
    PROVE  /\ [invoice EXCEPT !.amountPaid = n] \in InvoiceRow
           /\ \A s \in {"issued", "paid", "partially_paid", "void"} :
                 [invoice EXCEPT !.status = s] \in InvoiceRow
  BY DEF RowsOK, InvoiceRow

LEMMA PaymentRowsKeep ==
    ASSUME RInv, NEW p \in BillingRequest,
           InsertPayment(p) \/ SetSucceeded(p) \/ InsertManual(p)
    PROVE  RInv'
<1>1. /\ RowsOK /\ payments \in Seq(PaymentRow) /\ Len(payments) \in Nat /\ MaxPayments \in Nat
      /\ begun \in 0..MaxRequests /\ DOMAIN payments = 1..Len(payments)
  BY Numbers DEF RInv, RowsOK
<1>2. task[p] \in BillingTask /\ Justified(task[p]) /\ task[p].at # "rest"
      /\ task[p].payment \in 0..MaxPayments /\ task[p].amount \in Nat
  <2>1. task[p].at # "rest"
    BY DEF InsertPayment, SetSucceeded, InsertManual, BillingAt
  <2> QED
    BY <2>1, TaskBusy
<1>3. UNCHANGED <<invoice, lines, refunded, redeemed, journal, gatewayVars>>
  BY DEF InsertPayment, SetSucceeded, InsertManual
<1>4. ASSUME payments' \in Seq(PaymentRow), Len(payments') <= MaxPayments,
             Len(payments) <= Len(payments')
      PROVE  RowsOK' /\ DOMAIN payments \subseteq DOMAIN payments'
  <2>1. DOMAIN payments' = 1..Len(payments') /\ Len(payments') \in Nat
    BY <1>4
  <2>2. DOMAIN payments \subseteq DOMAIN payments'
    BY <1>1, <1>4, <2>1
  <2> QED
    BY <1>1, <1>3, <1>4, <2>2 DEF RowsOK, FiguresTie, gatewayVars
<1>5. ASSUME NEW manual \in BOOLEAN, NEW status \in {"pending", "succeeded"},
             task[p].amount > 0, AddPayment(manual, task[p].amount, status)
      PROVE  RowsOK' /\ DOMAIN payments \subseteq DOMAIN payments'
  <2> DEFINE e == [manual |-> manual, amount |-> task[p].amount, status |-> status]
  <2>1. e \in PaymentRow
    BY <1>2, <1>5 DEF PaymentRow
  <2>2. payments' = Append(payments, e) /\ Len(payments) < MaxPayments
    BY <1>5 DEF AddPayment
  <2> HIDE DEF e
  <2>3. payments' \in Seq(PaymentRow) /\ Len(payments') = Len(payments) + 1
    BY <1>1, <2>1, <2>2
  <2> QED
    BY <1>1, <1>4, <2>2, <2>3
<1>6. CASE InsertPayment(p)
  <2>1. task[p].amount > 0 /\ AddPayment(FALSE, task[p].amount, "pending")
    BY <1>2, <1>6 DEF InsertPayment, BillingAt, Justified
  <2>2. RowsOK' /\ DOMAIN payments \subseteq DOMAIN payments'
    BY <1>5, <2>1
  <2>3. BillingPut(p, NoTask) /\ begun' = begun /\ Justified(NoTask)'
    BY <1>6 DEF InsertPayment, BillingReturns, Justified, NoTask
  <2> QED
    BY <1>1, <2>2, <2>3, Goes
<1>7. CASE InsertManual(p)
  <2>1. task[p].amount > 0 /\ AddPayment(TRUE, task[p].amount, "succeeded")
    BY <1>2, <1>7 DEF InsertManual, BillingAt, Justified
  <2>2. RowsOK' /\ DOMAIN payments \subseteq DOMAIN payments'
    BY <1>5, <2>1
  <2>3. PICK r \in BillingTask : BillingPut(p, r) /\ begun' = begun /\ r.at = "sum"
    BY <1>2, <1>7, Continued DEF InsertManual, BillingGoTo
  <2>4. Justified(r)'
    BY <2>3 DEF Justified
  <2> QED
    BY <1>1, <2>2, <2>3, <2>4, Goes
<1>8. CASE SetSucceeded(p)
  <2> DEFINE k == task[p].payment
             e == [payments[k] EXCEPT !.status = "succeeded"]
  <2>1. k \in DOMAIN payments
    BY <1>2, <1>8 DEF SetSucceeded, BillingAt, Justified
  <2>2. payments[k] \in PaymentRow
    BY <1>1, <2>1
  <2>3. e \in PaymentRow
    BY <2>2 DEF PaymentRow
  <2>4. payments' = [payments EXCEPT ![k] = e]
    BY <1>8 DEF SetSucceeded
  <2> HIDE DEF e
  <2>5. payments' \in Seq(PaymentRow) /\ Len(payments') = Len(payments)
    BY <1>1, <2>1, <2>3, <2>4
  <2>6. RowsOK' /\ DOMAIN payments \subseteq DOMAIN payments'
    BY <1>1, <1>4, <2>5 DEF RowsOK
  <2>7. PICK r \in BillingTask : BillingPut(p, r) /\ begun' = begun /\ r.at = "sum"
    BY <1>2, <1>8, Continued DEF SetSucceeded, BillingGoTo
  <2>8. Justified(r)'
    BY <2>7 DEF Justified
  <2> QED
    BY <1>1, <2>6, <2>7, <2>8, Goes
<1> QED
  BY <1>6, <1>7, <1>8

LEMMA SumsAreNat ==
    ASSUME RowsOK
    PROVE  /\ Weights(Amounts, Succeeded) /\ Weights(refunded, Slot)
           /\ SucceededPayments \in Nat /\ Refunds \in Nat /\ Net(SucceededPayments, Refunds) \in Nat
<1>1. IsFiniteSet(DOMAIN payments) /\ IsFiniteSet(Slot)
  <2>1. Len(payments) \in Int /\ MaxPayments \in Int /\ 1 \in Int
    BY Numbers
  <2>2. IsFiniteSet(1..Len(payments)) /\ IsFiniteSet(1..MaxPayments)
    BY <2>1, FS_Interval
  <2> QED
    BY <2>2, Numbers DEF Slot
<1>2. Weights(Amounts, Succeeded)
  <2>1. IsFiniteSet(Succeeded) /\ Succeeded \subseteq DOMAIN payments
    BY <1>1, FS_Subset DEF Succeeded
  <2> QED
    BY <2>1, Numbers DEF Weights, Amounts
<1>3. Weights(refunded, Slot)
  BY <1>1 DEF Weights, RowsOK
<1>4. SucceededPayments \in Nat /\ Refunds \in Nat
  BY <1>2, <1>3, SumType DEF SucceededPayments, Refunds
<1> QED
  BY <1>2, <1>3, <1>4 DEF Net

\* The steps that change neither payments nor figures.
LEMMA OtherRowsKeep ==
    ASSUME RInv, NEW p \in BillingRequest,
           \/ AppendPaymentEvent(p) \/ GatewayRefund(p) \/ InsertRefund(p)
           \/ ListPayments(p) \/ TotalRefunded(p) \/ SetAmountPaid(p) \/ GetInvoice(p)
           \/ SetInvoiceStatus(p) \/ DeleteLines(p) \/ CreateLines(p)
    PROVE  RInv'
<1>1. RowsOK /\ begun \in 0..MaxRequests /\ 0 \in 0..MaxPayments
  BY Numbers DEF RInv
<1>2. task[p] \in BillingTask /\ Justified(task[p]) /\ task[p].at # "rest"
      /\ task[p].payment \in 0..MaxPayments /\ task[p].amount \in Nat
  <2>1. task[p].at # "rest"
    BY DEF AppendPaymentEvent, GatewayRefund, InsertRefund, ListPayments, TotalRefunded,
       SetAmountPaid, GetInvoice, SetInvoiceStatus, DeleteLines, CreateLines, BillingAt
  <2> QED
    BY <2>1, TaskBusy
<1>3. payments' = payments /\ captured' = captured
  BY DEF AppendPaymentEvent, GatewayRefund, InsertRefund, ListPayments, TotalRefunded,
     SetAmountPaid, GetInvoice, SetInvoiceStatus, DeleteLines, CreateLines, rowVars, gatewayVars
<1>4. ASSUME RowsOK', NEW r \in {NoTask} \union BillingTask, BillingPut(p, r), begun' = begun,
             r.at \in {"insertPayment", "insertManual"} => r.amount > 0,
             r.at \in {"journal", "setSucceeded", "gatewayRefund", "insertRefund"}
                => r.payment \in DOMAIN payments
      PROVE  RInv'
  BY <1>1, <1>3, <1>4, Goes DEF Justified
<1>5. AppendPaymentEvent(p) \/ GatewayRefund(p) \/ InsertRefund(p) => task[p].payment \in Slot
  BY <1>1, <1>2, Numbers DEF AppendPaymentEvent, GatewayRefund, InsertRefund, BillingAt, Justified
<1>6. RowsOK'
  <2> USE DEF RowsOK, FiguresTie, rowVars, gatewayVars
  <2>1. CASE AppendPaymentEvent(p)
    <3>1. task[p].payment \in Slot
      BY <1>5, <2>1
    <3> QED
      BY <1>1, <2>1, <3>1 DEF AppendPaymentEvent
  <2>2. CASE GatewayRefund(p)
    <3>1. task[p].payment \in Slot
      BY <1>5, <2>2
    <3>2. returned' \in [Slot -> Nat]
      BY <1>1, <1>2, <2>2, <3>1 DEF GatewayRefund
    <3> QED
      BY <1>1, <2>2, <3>2 DEF GatewayRefund
  <2>3. CASE InsertRefund(p)
    <3>1. task[p].payment \in Slot
      BY <1>5, <2>3
    <3>2. refunded' \in [Slot -> Nat]
      BY <1>1, <1>2, <2>3, <3>1 DEF InsertRefund
    <3> QED
      BY <1>1, <2>3, <3>2 DEF InsertRefund
  <2>4. CASE ListPayments(p) \/ TotalRefunded(p)
    BY <1>1, <2>4 DEF ListPayments, TotalRefunded
  <2>5. CASE SetAmountPaid(p)
    <3>1. invoice' \in InvoiceRow /\ FiguresTie'
      BY <1>1, <1>2, <2>5, InvoiceSet DEF SetAmountPaid, InvoiceRow
    <3> QED
      BY <1>1, <2>5, <3>1 DEF SetAmountPaid
  <2>6. ASSUME acked' = IF task[p].payment = 0 THEN acked ELSE acked \union {task[p].payment}
        PROVE  acked' \in SUBSET Slot
    BY <1>1, <1>2, <2>6, Numbers DEF Slot
  <2>7. CASE GetInvoice(p)
    <3>1. acked' \in SUBSET Slot
      BY <1>1, <2>6, <2>7 DEF GetInvoice, AnswerWebhook
    <3> QED
      BY <1>1, <2>7, <3>1 DEF GetInvoice
  <2>8. CASE SetInvoiceStatus(p)
    <3>1. acked' \in SUBSET Slot
      BY <2>6, <2>8 DEF SetInvoiceStatus, AnswerWebhook
    <3>2. invoice' \in InvoiceRow /\ FiguresTie'
      BY <1>1, <2>8, InvoiceSet DEF SetInvoiceStatus, InvoiceRow
    <3> QED
      BY <1>1, <2>8, <3>1, <3>2 DEF SetInvoiceStatus
  <2>9. CASE DeleteLines(p) \/ CreateLines(p)
    <3>1. lines' \in Nat
      BY <1>1, <1>2, <2>9 DEF DeleteLines, CreateLines
    <3> QED
      BY <1>1, <2>9, <3>1 DEF DeleteLines, CreateLines
  <2> QED
    BY <2>1, <2>2, <2>3, <2>4, <2>5, <2>7, <2>8, <2>9
<1>7. CASE BillingReturns(p)
  BY <1>4, <1>6, <1>7 DEF BillingReturns, NoTask
<1>8. ASSUME NEW at \in {"setSucceeded", "insertRefund", "sum", "sumRefunds", "setAmountPaid",
                         "getInvoice", "paid", "partially_paid", "createLines"},
             NEW k \in 0..MaxPayments, NEW n \in Nat, BillingDo(p, at, k, n),
             at \in {"setSucceeded", "insertRefund"} => k \in DOMAIN payments
      PROVE  RInv'
  <2>1. PICK r \in BillingTask : BillingPut(p, r) /\ begun' = begun /\ r.at = at /\ r.payment = k
    BY <1>2, <1>8, Continued
  <2> QED
    BY <1>4, <1>6, <1>8, <2>1
<1>9. CASE AppendPaymentEvent(p) \/ GatewayRefund(p)
  <2>1. task[p].payment \in DOMAIN payments
    BY <1>2, <1>9 DEF AppendPaymentEvent, GatewayRefund, BillingAt, Justified
  <2> QED
    BY <1>2, <1>7, <1>8, <1>9, <2>1 DEF AppendPaymentEvent, GatewayRefund, BillingGoTo
<1>10. CASE InsertRefund(p)
  BY <1>1, <1>8, <1>10 DEF InsertRefund
<1>11. CASE ListPayments(p) \/ TotalRefunded(p)
  <2>1. SucceededPayments \in Nat /\ Net(task[p].amount, Refunds) \in Nat
    BY <1>1, <1>2, SumsAreNat DEF Net
  <2> QED
    BY <1>2, <1>8, <1>11, <2>1 DEF ListPayments, TotalRefunded
<1>12. CASE SetAmountPaid(p) \/ GetInvoice(p) \/ SetInvoiceStatus(p) \/ DeleteLines(p) \/ CreateLines(p)
  BY <1>2, <1>7, <1>8, <1>12 DEF SetAmountPaid, GetInvoice, SetInvoiceStatus, DeleteLines,
     CreateLines, BillingGoTo, AnswerWebhook
<1> QED
  BY <1>9, <1>10, <1>11, <1>12

\* The steps that write gross, discount or total.
LEMMA FiguresKeep ==
    ASSUME RInv, NEW p \in BillingRequest, WriteFigures(p) \/ CreateRedemption(p)
    PROVE  RInv'
<1>1. /\ RowsOK /\ begun \in 0..MaxRequests /\ 0 \in 0..MaxPayments
      /\ invoice \in InvoiceRow /\ invoice.gross \in Nat /\ invoice.discount \in Nat
      /\ invoice.total \in Nat /\ invoice.total + invoice.discount = invoice.gross
  BY Numbers DEF RInv, RowsOK, FiguresTie
<1>2. task[p].amount \in Nat /\ task[p].at # "rest"
  BY TaskBusy DEF WriteFigures, CreateRedemption, BillingAt
<1>3. ASSUME invoice' \in InvoiceRow, invoice'.total + invoice'.discount = invoice'.gross,
             redeemed' \in BOOLEAN, UNCHANGED <<lines, payments, refunded, journal, gatewayVars>>
      PROVE  RowsOK' /\ DOMAIN payments \subseteq DOMAIN payments'
  BY <1>1, <1>3 DEF RowsOK, FiguresTie, gatewayVars
<1>4. CASE WriteFigures(p)
  <2> DEFINE discount(f) == IF task[p].amount < f THEN task[p].amount ELSE f
             row(f) == [invoice EXCEPT !.gross = f, !.discount = discount(f), !.total = f - discount(f)]
  <2>1. PICK f \in Figure : invoice' = row(f) /\ BillingDo(p, "deleteLines", 0, f)
    BY <1>4 DEF WriteFigures
  <2>2. f \in Nat /\ discount(f) \in Nat /\ f - discount(f) \in Nat
        /\ (f - discount(f)) + discount(f) = f
    BY <1>2, BillingAssumption
  <2> HIDE DEF discount
  <2>3. /\ row(f) \in InvoiceRow /\ row(f).gross = f /\ row(f).discount = discount(f)
        /\ row(f).total = f - discount(f)
    BY <1>1, <2>2 DEF InvoiceRow
  <2>4. UNCHANGED <<redeemed, lines, payments, refunded, journal, gatewayVars>>
    BY <1>4 DEF WriteFigures
  <2>5. RowsOK' /\ DOMAIN payments \subseteq DOMAIN payments'
    <3>1. redeemed' \in BOOLEAN
      BY <1>1, <2>4 DEF RowsOK
    <3> QED
      BY <1>3, <2>1, <2>2, <2>3, <2>4, <3>1
  <2>6. PICK r \in BillingTask : BillingPut(p, r) /\ begun' = begun /\ r.at = "deleteLines"
    BY <1>1, <1>2, <2>1, <2>2, Continued
  <2>7. Justified(r)'
    BY <2>6 DEF Justified
  <2> QED
    BY <1>1, <2>5, <2>6, <2>7, Goes
<1>5. CASE CreateRedemption(p)
  <2> DEFINE row == [invoice EXCEPT !.discount = task[p].amount, !.total = @ - task[p].amount]
  <2>1. \/ UNCHANGED <<invoice, redeemed>>
        \/ /\ invoice.discount = 0 /\ task[p].amount <= invoice.total
           /\ invoice' = row /\ redeemed' = TRUE
    BY <1>5 DEF CreateRedemption
  <2>2. BillingPut(p, NoTask) /\ begun' = begun
        /\ UNCHANGED <<lines, payments, refunded, journal, gatewayVars>>
    BY <1>5 DEF CreateRedemption, BillingReturns
  <2>3. RowsOK' /\ DOMAIN payments \subseteq DOMAIN payments'
    <3>1. CASE UNCHANGED <<invoice, redeemed>>
      <4>1. redeemed' \in BOOLEAN
        BY <1>1, <3>1 DEF RowsOK
      <4> QED
        BY <1>1, <1>3, <2>2, <3>1, <4>1
    <3>2. CASE /\ invoice.discount = 0 /\ task[p].amount <= invoice.total
               /\ invoice' = row /\ redeemed' = TRUE
      <4>1. invoice.total - task[p].amount \in Nat
            /\ (invoice.total - task[p].amount) + task[p].amount = invoice.gross
        BY <1>1, <1>2, <3>2
      <4>2. /\ row \in InvoiceRow /\ row.gross = invoice.gross /\ row.discount = task[p].amount
            /\ row.total = invoice.total - task[p].amount
        BY <1>1, <1>2, <4>1 DEF InvoiceRow
      <4> HIDE DEF row
      <4> QED
        BY <1>3, <2>2, <3>2, <4>1, <4>2
    <3> QED
      BY <2>1, <3>1, <3>2
  <2>4. Justified(NoTask)'
    BY DEF Justified, NoTask
  <2> QED
    BY <1>1, <2>2, <2>3, <2>4, Goes
<1> QED
  BY <1>4, <1>5

\* A request that stops leaves its task, and whatever it was in the middle of is
\* then out of step.
LEMMA Abandons ==
    ASSUME RInv, NEW p \in BillingRequest, AbandonBilling(p)
    PROVE  /\ task' \in [BillingRequest -> {NoTask} \union BillingTask]
           /\ task'[p] = NoTask /\ \A q \in BillingRequest \ {p} : task'[q] = task[q]
           /\ Reconciling' = Reconciling \ {p} /\ Editing' = Editing \ {p}
           /\ UNCHANGED <<rowVars, captured, returned, acked, begun>>
           /\ ~ disturbed' => ~ disturbed /\ p \notin Reconciling /\ p \notin Editing
           /\ disturbed' \in BOOLEAN
<1>1. /\ task' \in [BillingRequest -> {NoTask} \union BillingTask]
      /\ task'[p] = NoTask /\ \A q \in BillingRequest \ {p} : task'[q] = task[q]
  BY DEF RInv, AbandonBilling
<1>2. Reconciling' = Reconciling \ {p} /\ Editing' = Editing \ {p}
  BY <1>1 DEF Reconciling, Editing, NoTask
<1> QED
  BY <1>1, <1>2 DEF AbandonBilling, gatewayVars

LEMMA RNext == RInv /\ [BillingNext]_billingVars => RInv'
<1> SUFFICES ASSUME RInv, [BillingNext]_billingVars PROVE RInv'
  OBVIOUS
<1>1. CASE UNCHANGED billingVars
  BY <1>1 DEF billingVars, rowVars, gatewayVars, RInv, RowsOK, FiguresTie, Justified,
     Reconciling, Editing
<1>2. ASSUME NEW p \in BillingRequest, Continues(p) PROVE RInv'
  BY <1>2, PaymentRowsKeep, OtherRowsKeep, FiguresKeep DEF Continues
<1>3. ASSUME NEW p \in BillingRequest, AbandonBilling(p) PROVE RInv'
  <2>1. RowsOK' /\ payments' = payments
    BY <1>3, Abandons DEF RInv, RowsOK, rowVars, FiguresTie
  <2>2. \A q \in BillingRequest : Justified(task[q])'
    BY <1>3, <2>1, Abandons DEF RInv, Justified, NoTask
  <2>3. IsFiniteSet(Reconciling') /\ IsFiniteSet(Editing')
    BY <1>3, Abandons, FS_RemoveElement DEF RInv
  <2> QED
    BY <1>3, <2>1, <2>2, <2>3, Abandons DEF RInv
<1>4. ASSUME NEW k \in Slot, Capture(k) PROVE RInv'
  <2>1. /\ captured' = captured \union {k} /\ k \in DOMAIN payments
        /\ UNCHANGED <<rowVars, returned, acked, task, begun, disturbed>>
    BY <1>4 DEF Capture
  <2>2. RowsOK'
    BY <2>1 DEF RInv, RowsOK, rowVars, FiguresTie
  <2>3. Reconciling' = Reconciling /\ Editing' = Editing /\ payments' = payments
    BY <2>1 DEF Reconciling, Editing, rowVars
  <2> QED
    BY <2>1, <2>2, <2>3 DEF RInv, Justified
<1> QED
  BY <1>1, <1>2, <1>3, <1>4, BeginsKeeps DEF BillingNext

LEMMA RInvariant == BillingSpec => []RInv
<1> QED
  BY RInit, RNext, PTL DEF BillingSpec

\* Rows and tasks keep their types: a total never becomes negative and no task works
\* on a payment that is not there, for any requests, figures and bounds.
THEOREM BillingTypeCorrect == BillingSpec => []BillingTypeOK
<1>1. RInv => BillingTypeOK
  BY Numbers DEF RInv, RowsOK, BillingTypeOK, InvoiceRow, PaymentRow
<1> QED
  BY <1>1, RInvariant, PTL

\* However edits and coupons interleave, total, discount and gross agree.
THEOREM FiguresAgree == BillingSpec => []FiguresTie
<1>1. RInv => FiguresTie
  BY DEF RInv, RowsOK
<1> QED
  BY <1>1, RInvariant, PTL

-------------------------------------------------------------------------------
(* What each step does to the money, to the figures and to what is under way.     *)

LEMMA Stepped ==
    ASSUME RInv, RInv', NEW p \in BillingRequest, Begins(p) \/ Continues(p)
    PROVE  /\ \A q \in BillingRequest \ {p} : task'[q] = task[q]
           /\ Reconciling' = (Reconciling \ {p}) \union {q \in {p} : task'[p].at \in Summing}
           /\ Editing' = (Editing \ {p}) \union {q \in {p} : task'[p].at \in Rewriting}
           /\ ~ disturbed' =>
                /\ ~ disturbed
                /\ \A q, s \in Reconciling' : q = s
                /\ \A q, s \in Editing' : q = s
<1>1. \E r : BillingPut(p, r)
  <2>1. CASE Begins(p)
    BY <2>1 DEF Begins, CreatePayment, DeliverWebhook, MarkPaid, Refund, Transition, UpdateInvoice,
       RedeemCoupon, BeginBilling
  <2>2. CASE Continues(p)
    BY <2>2 DEF Continues, InsertPayment, AppendPaymentEvent, SetSucceeded, InsertManual,
       GatewayRefund, InsertRefund, ListPayments, TotalRefunded, SetAmountPaid, GetInvoice,
       SetInvoiceStatus, WriteFigures, DeleteLines, CreateLines, CreateRedemption, BillingGoTo,
       BillingDo, BillingReturns, AnswerWebhook
  <2> QED
    BY <2>1, <2>2
<1>2. PICK r : BillingPut(p, r)
  BY <1>1
<1>3. r = task'[p] /\ r \in {NoTask} \union BillingTask
  BY <1>2 DEF RInv, BillingPut
<1> QED
  BY <1>2, <1>3, Puts

PaymentsWeigh == Weights(Amounts, Succeeded) /\ SucceededPayments \in Nat

LEMMA PaymentsWeighed == RowsOK' => Weights(Amounts', Succeeded') /\ SucceededPayments' \in Nat
<1>1. RowsOK => PaymentsWeigh
  BY SumsAreNat DEF PaymentsWeigh
<1>2. RowsOK' => PaymentsWeigh'
  BY <1>1, PTL
<1> QED
  BY <1>2 DEF PaymentsWeigh

\* A payment that is added or that succeeds adds to what succeeded, or changes nothing.
LEMMA PaymentAdded ==
    ASSUME RowsOK, RowsOK', NEW e, e.amount \in Nat, payments' = Append(payments, e)
    PROVE  /\ e.status = "succeeded" => SucceededPayments' = SucceededPayments + e.amount
           /\ e.status # "succeeded" => SucceededPayments' = SucceededPayments
<1> DEFINE x == Len(payments) + 1
           n == e.amount
           s == e.status
<1>1. payments \in Seq(PaymentRow) /\ DOMAIN payments = 1..Len(payments) /\ Len(payments) \in Nat
  BY Numbers DEF RowsOK
<1>2. payments' = Append(payments, e) /\ e.amount = n /\ e.status = s
  OBVIOUS
<1>3. /\ DOMAIN payments' = DOMAIN payments \union {x} /\ x \notin DOMAIN payments
      /\ payments'[x] = e /\ \A k \in DOMAIN payments : payments'[k] = payments[k]
  BY <1>1, <1>2
<1>4. /\ \A k \in DOMAIN payments : Amounts'[k] = Amounts[k]
      /\ Amounts'[x] = n
      /\ Succeeded' = Succeeded \union {k \in {x} : s = "succeeded"}
      /\ Succeeded \subseteq DOMAIN payments
  BY <1>2, <1>3 DEF Amounts, Succeeded
<1> HIDE DEF x
<1>5. Weights(Amounts, Succeeded) /\ Weights(Amounts', Succeeded') /\ SucceededPayments \in Nat
  BY SumsAreNat, PaymentsWeighed
<1>6. SumFunctionOnSet(Amounts', Succeeded) = SumFunctionOnSet(Amounts, Succeeded)
  BY <1>4, <1>5, SumSame
<1>7. CASE s = "succeeded"
  <2>1. Succeeded' = Succeeded \union {x} /\ x \notin Succeeded
    BY <1>3, <1>4, <1>7
  <2>2. SumFunctionOnSet(Amounts', Succeeded') = SumFunctionOnSet(Amounts', Succeeded) + Amounts'[x]
    BY <1>5, <2>1, SumAdd
  <2> QED
    BY <1>4, <1>6, <1>7, <2>2 DEF SucceededPayments
<1>8. CASE s # "succeeded"
  <2>1. Succeeded' = Succeeded
    BY <1>4, <1>8
  <2> QED
    BY <1>5, <1>6, <1>8, <2>1 DEF SucceededPayments
<1> QED
  BY <1>7, <1>8

LEMMA PaymentSucceeds ==
    ASSUME RowsOK, RowsOK', NEW x \in DOMAIN payments,
           payments' = [payments EXCEPT ![x].status = "succeeded"]
    PROVE  SucceededPayments' >= SucceededPayments
<1>1. payments \in Seq(PaymentRow) /\ payments[x] \in PaymentRow
  BY Numbers DEF RowsOK
<1>2. /\ DOMAIN payments' = DOMAIN payments
      /\ payments'[x] = [payments[x] EXCEPT !.status = "succeeded"]
      /\ \A k \in DOMAIN payments \ {x} : payments'[k] = payments[k]
  BY <1>1
<1>3. payments'[x].amount = payments[x].amount /\ payments'[x].status = "succeeded"
  BY <1>1, <1>2 DEF PaymentRow
<1>4. Amounts' = Amounts /\ Succeeded' = Succeeded \union {x}
  BY <1>2, <1>3 DEF Amounts, Succeeded
<1>5. Weights(Amounts, Succeeded \union {x}) /\ SucceededPayments \in Nat
  <2>1. Weights(Amounts', Succeeded')
    BY PaymentsWeighed
  <2> QED
    BY <1>4, <2>1, SumsAreNat
<1>6. CASE x \in Succeeded
  <2>1. Succeeded \union {x} = Succeeded
    BY <1>6
  <2> QED
    BY <1>4, <1>5, <2>1 DEF SucceededPayments
<1>7. CASE x \notin Succeeded
  <2>1. SumFunctionOnSet(Amounts, Succeeded \union {x}) = SumFunctionOnSet(Amounts, Succeeded) + Amounts[x]
        /\ Amounts[x] \in Nat
    BY <1>5, <1>7, SumAdd
  <2> QED
    BY <1>4, <1>5, <2>1 DEF SucceededPayments
<1> QED
  BY <1>6, <1>7

\* A step on a task r of money: nothing, the beginning of a reconciliation after
\* something changed, or the next call of one.
MoneyStep(old, new) ==
    \/ /\ UNCHANGED <<SucceededPayments, Refunds>> /\ invoice'.amountPaid = invoice.amountPaid
       /\ \/ old.at \notin Summing /\ new.at \notin Summing
          \/ old.at = "sum" /\ new.at = "sumRefunds" /\ new.amount = SucceededPayments
          \/ /\ old.at = "sumRefunds" /\ new.at = "setAmountPaid"
             /\ new.amount = Net(old.amount, Refunds)
    \/ /\ new.at = "sum" /\ old.at \notin Summing
       /\ SucceededPayments' >= SucceededPayments /\ invoice'.amountPaid = invoice.amountPaid
    \/ /\ UNCHANGED <<SucceededPayments, Refunds>>
       /\ old.at = "setAmountPaid" /\ new.at \notin Summing /\ invoice'.amountPaid = old.amount

FigureStep(old, new) ==
    \/ /\ old.at \notin Rewriting /\ new.at \notin Rewriting
       /\ lines' = lines /\ invoice'.gross = invoice.gross
    \/ /\ old.at \notin Rewriting /\ new.at = "deleteLines" /\ new.amount = invoice'.gross
    \/ /\ old.at = "deleteLines" /\ new.at = "createLines" /\ new.amount = old.amount
       /\ lines' = 0 /\ invoice'.gross = invoice.gross
    \/ /\ old.at = "createLines" /\ new.at \notin Rewriting
       /\ lines' = lines + old.amount /\ invoice'.gross = invoice.gross

LEMMA BeginsStep ==
    ASSUME RInv, NEW p \in BillingRequest, Begins(p)
    PROVE  MoneyStep(task[p], task'[p]) /\ FigureStep(task[p], task'[p])
<1>1. UNCHANGED <<rowVars, gatewayVars>>
  BY DEF Begins, CreatePayment, DeliverWebhook, MarkPaid, Refund, Transition, UpdateInvoice,
     RedeemCoupon
<1>2. PICK at \in {"insertPayment", "insertManual", "journal", "gatewayRefund", "sum",
                   "issued", "void", "writeFigures", "redeem"} :
         \E k, n : BeginBilling(p, at, k, n)
  BY DEF Begins, CreatePayment, DeliverWebhook, MarkPaid, Refund, Transition, UpdateInvoice,
     RedeemCoupon
<1>3. task[p] = NoTask /\ task'[p].at = at
  BY <1>2 DEF BeginBilling, BillingPut, RInv
<1>4. UNCHANGED <<SucceededPayments, Refunds, lines>> /\ invoice' = invoice
  BY <1>1 DEF rowVars, SucceededPayments, Refunds, Amounts, Succeeded
<1>5. SucceededPayments' >= SucceededPayments
  BY <1>4, SumsAreNat DEF RInv
<1> QED
  BY <1>3, <1>4, <1>5 DEF MoneyStep, FigureStep, NoTask, Summing, Rewriting

LEMMA ContinuesMoney ==
    ASSUME RInv, RInv', NEW p \in BillingRequest, Continues(p)
    PROVE  MoneyStep(task[p], task'[p])
<1>1. RowsOK /\ RowsOK' /\ SucceededPayments \in Nat
  BY SumsAreNat DEF RInv
<1>2. ASSUME NEW r, BillingPut(p, r) PROVE task'[p] = r
  BY <1>2 DEF BillingPut, RInv
<1>3. task[p].at # "rest" /\ task[p] \in BillingTask /\ Justified(task[p]) /\ task[p].amount \in Nat
  <2>1. task[p].at # "rest"
    BY DEF Continues, InsertPayment, AppendPaymentEvent, SetSucceeded, InsertManual, GatewayRefund,
       InsertRefund, ListPayments, TotalRefunded, SetAmountPaid, GetInvoice, SetInvoiceStatus,
       WriteFigures, DeleteLines, CreateLines, CreateRedemption, BillingAt
  <2> QED
    BY <2>1, TaskBusy
<1>4. payments' = payments => UNCHANGED <<SucceededPayments>>
  BY DEF SucceededPayments, Amounts, Succeeded
<1>5. refunded' = refunded => UNCHANGED <<Refunds>>
  BY DEF Refunds
<1>6. CASE InsertPayment(p)
  <2> DEFINE e == [manual |-> FALSE, amount |-> task[p].amount, status |-> "pending"]
  <2>3. payments' = Append(payments, e)
    BY <1>6 DEF InsertPayment, AddPayment
  <2>4. e.amount = task[p].amount /\ e.status = "pending"
    OBVIOUS
  <2> HIDE DEF e
  <2>1. SucceededPayments' = SucceededPayments
    BY <1>1, <1>3, <2>3, <2>4, PaymentAdded
  <2>2. task'[p] = NoTask
    BY <1>2, <1>6 DEF InsertPayment, BillingReturns
  <2> QED
    BY <1>5, <1>6, <2>1, <2>2 DEF InsertPayment, MoneyStep, Summing, NoTask, BillingAt
<1>7. CASE InsertManual(p)
  <2> DEFINE e == [manual |-> TRUE, amount |-> task[p].amount, status |-> "succeeded"]
  <2>3. payments' = Append(payments, e)
    BY <1>7 DEF InsertManual, AddPayment
  <2>4. e.amount = task[p].amount /\ e.status = "succeeded"
    OBVIOUS
  <2> HIDE DEF e
  <2>1. SucceededPayments' >= SucceededPayments
    BY <1>1, <1>3, <2>3, <2>4, PaymentAdded
  <2>2. task'[p].at = "sum"
    BY <1>2, <1>7 DEF InsertManual, BillingGoTo, BillingDo
  <2> QED
    BY <1>7, <2>1, <2>2 DEF InsertManual, MoneyStep, Summing, BillingAt
<1>8. CASE SetSucceeded(p)
  <2>1. task[p].payment \in DOMAIN payments
    BY <1>3, <1>8 DEF SetSucceeded, BillingAt, Justified
  <2>2. SucceededPayments' >= SucceededPayments
    BY <1>1, <1>8, <2>1, PaymentSucceeds DEF SetSucceeded
  <2>3. task'[p].at = "sum"
    BY <1>2, <1>8 DEF SetSucceeded, BillingGoTo, BillingDo
  <2> QED
    BY <1>8, <2>2, <2>3 DEF SetSucceeded, MoneyStep, Summing, BillingAt
<1>9. CASE InsertRefund(p)
  <2>1. SucceededPayments' >= SucceededPayments
    BY <1>1, <1>4, <1>9 DEF InsertRefund
  <2>2. task'[p].at = "sum"
    BY <1>2, <1>9 DEF InsertRefund, BillingDo
  <2> QED
    BY <1>9, <2>1, <2>2 DEF InsertRefund, MoneyStep, Summing, BillingAt
<1>10. CASE AppendPaymentEvent(p) \/ GatewayRefund(p)
  <2>1. task'[p].at \notin Summing
    BY <1>2, <1>10 DEF AppendPaymentEvent, GatewayRefund, BillingGoTo, BillingDo, BillingReturns,
       NoTask, Summing
  <2> QED
    BY <1>4, <1>5, <1>10, <2>1 DEF AppendPaymentEvent, GatewayRefund, MoneyStep, Summing, BillingAt,
       rowVars
<1>11. CASE ListPayments(p)
  <2>1. task'[p].at = "sumRefunds" /\ task'[p].amount = SucceededPayments
    BY <1>2, <1>11 DEF ListPayments, BillingDo
  <2> QED
    BY <1>4, <1>5, <1>11, <2>1 DEF ListPayments, MoneyStep, BillingAt, rowVars
<1>12. CASE TotalRefunded(p)
  <2>1. task'[p].at = "setAmountPaid" /\ task'[p].amount = Net(task[p].amount, Refunds)
    BY <1>2, <1>12 DEF TotalRefunded, BillingDo
  <2> QED
    BY <1>4, <1>5, <1>12, <2>1 DEF TotalRefunded, MoneyStep, BillingAt, rowVars
<1>13. CASE SetAmountPaid(p)
  <2>1. task'[p].at = "getInvoice"
    BY <1>2, <1>13 DEF SetAmountPaid, BillingGoTo, BillingDo
  <2>2. invoice'.amountPaid = task[p].amount
    BY <1>1, <1>13 DEF SetAmountPaid, RowsOK, InvoiceRow
  <2> QED
    BY <1>4, <1>5, <1>13, <2>1, <2>2 DEF SetAmountPaid, MoneyStep, BillingAt, Summing
<1>14. CASE GetInvoice(p) \/ SetInvoiceStatus(p) \/ DeleteLines(p) \/ CreateLines(p)
  <2>1. task'[p].at \notin Summing
    BY <1>2, <1>14 DEF GetInvoice, SetInvoiceStatus, DeleteLines, CreateLines, BillingGoTo,
       BillingDo, BillingReturns, AnswerWebhook, NoTask, Summing
  <2>2. invoice'.amountPaid = invoice.amountPaid /\ UNCHANGED <<payments, refunded>>
    BY <1>1, <1>14 DEF GetInvoice, SetInvoiceStatus, DeleteLines, CreateLines, rowVars, RowsOK,
       InvoiceRow
  <2>3. task[p].at \notin Summing
    BY <1>14 DEF GetInvoice, SetInvoiceStatus, DeleteLines, CreateLines, BillingAt, Summing
  <2> QED
    BY <1>4, <1>5, <2>1, <2>2, <2>3 DEF MoneyStep
<1>15. CASE WriteFigures(p) \/ CreateRedemption(p)
  <2>1. task'[p].at \notin Summing
    <3>1. WriteFigures(p) => task'[p].at = "deleteLines"
      BY <1>2 DEF WriteFigures, BillingDo
    <3>2. CreateRedemption(p) => task'[p] = NoTask
      BY <1>2 DEF CreateRedemption, BillingReturns
    <3> QED
      BY <1>15, <3>1, <3>2 DEF NoTask, Summing
  <2>2. invoice'.amountPaid = invoice.amountPaid /\ UNCHANGED <<payments, refunded>>
    BY <1>1, <1>15 DEF WriteFigures, CreateRedemption, RowsOK, InvoiceRow
  <2>3. task[p].at \notin Summing
    BY <1>15 DEF WriteFigures, CreateRedemption, BillingAt, Summing
  <2> QED
    BY <1>4, <1>5, <2>1, <2>2, <2>3 DEF MoneyStep
<1> QED
  BY <1>6, <1>7, <1>8, <1>9, <1>10, <1>11, <1>12, <1>13, <1>14, <1>15 DEF Continues

LEMMA ContinuesFigures ==
    ASSUME RInv, RInv', NEW p \in BillingRequest, Continues(p)
    PROVE  FigureStep(task[p], task'[p])
<1>1. invoice \in InvoiceRow
  BY DEF RInv, RowsOK
<1>2. ASSUME NEW r, BillingPut(p, r) PROVE task'[p] = r
  BY <1>2 DEF BillingPut, RInv
<1>3. CASE WriteFigures(p)
  <2>1. PICK f \in Figure : invoice'.gross = f /\ BillingDo(p, "deleteLines", 0, f)
    BY <1>1, <1>3 DEF WriteFigures, InvoiceRow
  <2>2. task'[p].at = "deleteLines" /\ task'[p].amount = f
    BY <1>2, <2>1 DEF BillingDo
  <2> QED
    BY <1>3, <2>1, <2>2 DEF WriteFigures, BillingAt, FigureStep, Rewriting
<1>4. CASE DeleteLines(p)
  BY <1>2, <1>4 DEF DeleteLines, BillingGoTo, BillingDo, BillingAt, FigureStep
<1>5. CASE CreateLines(p)
  BY <1>2, <1>5 DEF CreateLines, BillingReturns, BillingAt, FigureStep, NoTask, Rewriting
<1>6. CASE CreateRedemption(p) \/ SetAmountPaid(p) \/ SetInvoiceStatus(p)
  <2>1. lines' = lines /\ invoice'.gross = invoice.gross
    BY <1>1, <1>6 DEF CreateRedemption, SetAmountPaid, SetInvoiceStatus, InvoiceRow
  <2>2. task[p].at \notin Rewriting
    BY <1>6 DEF CreateRedemption, SetAmountPaid, SetInvoiceStatus, BillingAt, Rewriting
  <2>3. task'[p].at \notin Rewriting
    BY <1>2, <1>6 DEF CreateRedemption, SetAmountPaid, SetInvoiceStatus, BillingReturns, BillingGoTo,
       BillingDo, AnswerWebhook, NoTask, Rewriting
  <2> QED
    BY <2>1, <2>2, <2>3 DEF FigureStep
<1>7. CASE \/ InsertPayment(p) \/ AppendPaymentEvent(p) \/ SetSucceeded(p) \/ InsertManual(p)
           \/ GatewayRefund(p) \/ InsertRefund(p)
           \/ ListPayments(p) \/ TotalRefunded(p) \/ GetInvoice(p)
  <2>1. lines' = lines /\ invoice' = invoice
    BY <1>7 DEF InsertPayment, AppendPaymentEvent, SetSucceeded, InsertManual, GatewayRefund,
       InsertRefund, ListPayments, TotalRefunded, GetInvoice, rowVars
  <2>2. task[p].at \notin Rewriting
    BY <1>7 DEF InsertPayment, AppendPaymentEvent, SetSucceeded, InsertManual, GatewayRefund,
       InsertRefund, ListPayments, TotalRefunded, GetInvoice, BillingAt, Rewriting
  <2>3. \/ task'[p] = NoTask
        \/ task'[p].at \in {"setSucceeded", "sum", "insertRefund", "sumRefunds", "setAmountPaid",
                            "paid", "partially_paid"}
    <3>1. InsertPayment(p) => task'[p] = NoTask
      BY <1>2 DEF InsertPayment, BillingReturns
    <3>6. AppendPaymentEvent(p) => task'[p] = NoTask \/ task'[p].at = "setSucceeded"
      BY <1>2 DEF AppendPaymentEvent, BillingReturns, BillingGoTo, BillingDo
    <3>2. SetSucceeded(p) \/ InsertRefund(p) => task'[p].at = "sum"
      BY <1>2 DEF SetSucceeded, InsertRefund, BillingGoTo, BillingDo
    <3>7. InsertManual(p) => task'[p].at = "sum"
      BY <1>2 DEF InsertManual, BillingGoTo, BillingDo
    <3>3. GatewayRefund(p) => task'[p].at = "insertRefund"
      BY <1>2 DEF GatewayRefund, BillingGoTo, BillingDo
    <3>4. ListPayments(p) \/ TotalRefunded(p) => task'[p].at \in {"sumRefunds", "setAmountPaid"}
      BY <1>2 DEF ListPayments, TotalRefunded, BillingDo
    <3>5. GetInvoice(p) => task'[p] = NoTask \/ task'[p].at \in {"paid", "partially_paid"}
      BY <1>2 DEF GetInvoice, BillingReturns, BillingGoTo, BillingDo, AnswerWebhook
    <3> QED
      BY <1>7, <3>1, <3>2, <3>3, <3>4, <3>5, <3>6, <3>7
  <2> QED
    BY <2>1, <2>2, <2>3 DEF FigureStep, NoTask, Rewriting
<1> QED
  BY <1>3, <1>4, <1>5, <1>6, <1>7 DEF Continues

-------------------------------------------------------------------------------
(* What a reconciliation remembers is covered by what succeeded; and while it is  *)
(* the only one, it is exactly right.                                             *)

Covered(r) == r.at \in {"sumRefunds", "setAmountPaid"} => r.amount <= SucceededPayments

InStep(r) ==
    /\ r.at = "sumRefunds" => r.amount = SucceededPayments
    /\ r.at = "setAmountPaid" => r.amount = Net(SucceededPayments, Refunds)
    /\ r.at \in Rewriting => r.amount = invoice.gross
    /\ r.at = "createLines" => lines = 0

LInv ==
    /\ NeverCreditsUnpaid
    /\ \A p \in BillingRequest : Covered(task[p])
    /\ UndisturbedFiguresAgree
    /\ ~ disturbed =>
          /\ \A p, q \in Reconciling : p = q
          /\ \A p, q \in Editing : p = q
          /\ \A p \in BillingRequest : InStep(task[p])

LEMMA LInit == BillingInit => LInv
<1> SUFFICES ASSUME BillingInit PROVE LInv
  OBVIOUS
<1>1. \A p \in BillingRequest : task[p] = NoTask
  BY DEF BillingInit
<1>2. Reconciling = {} /\ Editing = {}
  BY <1>1 DEF Reconciling, Editing, NoTask
<1>3. RowsOK
  BY RInit DEF RInv
<1>4. SucceededPayments \in Nat /\ Refunds \in Nat
  BY <1>3, SumsAreNat
<1>5. SucceededPayments = 0
  <2>1. Succeeded = {}
    BY DEF Succeeded, BillingInit
  <2> QED
    BY <2>1, SumEmpty DEF SucceededPayments
<1>6. invoice.amountPaid = 0 /\ lines = invoice.gross
  BY DEF BillingInit
<1>7. Net(SucceededPayments, Refunds) = 0
  BY <1>4, <1>5 DEF Net
<1>8. UndisturbedFiguresAgree /\ NeverCreditsUnpaid
  BY <1>5, <1>6, <1>7 DEF UndisturbedFiguresAgree, NeverCreditsUnpaid
<1> QED
  BY <1>1, <1>2, <1>8 DEF LInv, Covered, InStep, NoTask, Rewriting

LEMMA NetCovered ==
    ASSUME NEW n \in Nat, NEW b \in Nat, NEW m \in Nat, n <= m
    PROVE  Net(n, b) \in Nat /\ Net(n, b) <= m
  BY DEF Net

\* Whatever is under way, no reconciliation remembers more than what has succeeded.
LEMMA CreditsCovered ==
    ASSUME RInv, RInv', LInv, NEW p \in BillingRequest, MoneyStep(task[p], task'[p]),
           \A q \in BillingRequest \ {p} : task'[q] = task[q]
    PROVE  NeverCreditsUnpaid' /\ \A q \in BillingRequest : Covered(task[q])'
<1>1. RowsOK /\ SucceededPayments \in Nat /\ Refunds \in Nat /\ invoice.amountPaid \in Nat
  BY SumsAreNat, Numbers DEF RInv
<1>2. SucceededPayments' \in Nat /\ SucceededPayments' >= SucceededPayments
  <2>1. SucceededPayments' \in Nat
    BY PaymentsWeighed DEF RInv
  <2> QED
    BY <1>1, <2>1 DEF MoneyStep
<1>3. \A q \in BillingRequest : task[q].at \in Summing => task[q].amount \in Nat
  BY TaskBusy DEF Summing
<1>4. ASSUME NEW q \in BillingRequest \ {p} PROVE Covered(task[q])'
  BY <1>1, <1>2, <1>3, <1>4 DEF LInv, Covered, Summing
<1>5. Covered(task[p]) /\ NeverCreditsUnpaid
  BY DEF LInv
<1>6. Covered(task[p])'
  <2>1. CASE task[p].at = "sumRefunds" /\ task'[p].amount = Net(task[p].amount, Refunds)
             /\ SucceededPayments' = SucceededPayments
    <3>1. task[p].amount \in Nat /\ task[p].amount <= SucceededPayments
      BY <1>3, <1>5, <2>1 DEF Covered, Summing
    <3>2. Net(task[p].amount, Refunds) <= SucceededPayments
      BY <1>1, <3>1, NetCovered
    <3> QED
      BY <2>1, <3>2 DEF Covered
  <2>2. CASE task'[p].at = "sumRefunds" /\ task'[p].amount = SucceededPayments
             /\ SucceededPayments' = SucceededPayments
    BY <1>1, <2>2 DEF Covered
  <2>3. CASE task'[p].at \notin {"sumRefunds", "setAmountPaid"}
    BY <2>3 DEF Covered
  <2> QED
    BY <2>1, <2>2, <2>3 DEF MoneyStep, Summing
<1>7. NeverCreditsUnpaid'
  <2>1. CASE invoice'.amountPaid = invoice.amountPaid
    BY <1>1, <1>2, <1>5, <2>1 DEF NeverCreditsUnpaid
  <2>2. CASE task[p].at = "setAmountPaid" /\ invoice'.amountPaid = task[p].amount
    BY <1>1, <1>2, <1>3, <1>5, <2>2 DEF NeverCreditsUnpaid, Covered, Summing
  <2> QED
    BY <2>1, <2>2 DEF MoneyStep
<1> QED
  BY <1>4, <1>6, <1>7

LEMMA MoneyInStep ==
    ASSUME RInv, LInv, NEW p \in BillingRequest, MoneyStep(task[p], task'[p]),
           \A q \in BillingRequest \ {p} : task'[q] = task[q],
           Reconciling' = (Reconciling \ {p}) \union {q \in {p} : task'[p].at \in Summing},
           ~ disturbed, \A q, s \in Reconciling' : q = s
    PROVE  /\ Reconciling' = {} => invoice'.amountPaid = Net(SucceededPayments', Refunds')
           /\ \A q \in BillingRequest :
                 /\ task'[q].at = "sumRefunds" => task'[q].amount = SucceededPayments'
                 /\ task'[q].at = "setAmountPaid"
                       => task'[q].amount = Net(SucceededPayments', Refunds')
<1>1. \A q \in BillingRequest : q \in Reconciling <=> task[q].at \in Summing
  BY DEF Reconciling, Summing
<1>2. \A q \in BillingRequest : InStep(task[q])
  BY DEF LInv
<1>3. (\A q, s \in Reconciling : q = s)
      /\ (Reconciling = {} => invoice.amountPaid = Net(SucceededPayments, Refunds))
  BY DEF LInv, UndisturbedFiguresAgree
<1>4. CASE UNCHANGED <<SucceededPayments, Refunds>> /\ invoice'.amountPaid = invoice.amountPaid
           /\ task[p].at \notin Summing /\ task'[p].at \notin Summing
  <2>1. Reconciling' = Reconciling
    BY <1>1, <1>4
  <2> QED
    BY <1>2, <1>3, <1>4, <2>1 DEF InStep, Summing
<1>5. CASE UNCHANGED <<SucceededPayments, Refunds>> /\ task[p].at = "sum"
           /\ task'[p].at = "sumRefunds" /\ task'[p].amount = SucceededPayments
  BY <1>2, <1>5 DEF InStep, Summing
<1>6. CASE /\ UNCHANGED <<SucceededPayments, Refunds>> /\ task[p].at = "sumRefunds"
           /\ task'[p].at = "setAmountPaid" /\ task'[p].amount = Net(task[p].amount, Refunds)
  BY <1>2, <1>6 DEF InStep, Summing
<1>7. CASE task'[p].at = "sum"
  <2>1. p \in Reconciling' /\ \A q \in BillingRequest \ {p} : q \notin Reconciling
    BY <1>7 DEF Summing
  <2> QED
    BY <1>1, <1>7, <2>1 DEF Summing
<1>8. CASE /\ UNCHANGED <<SucceededPayments, Refunds>> /\ task[p].at = "setAmountPaid"
           /\ task'[p].at \notin Summing /\ invoice'.amountPaid = task[p].amount
  <2>1. invoice'.amountPaid = Net(SucceededPayments', Refunds')
    BY <1>2, <1>8 DEF InStep
  <2> QED
    BY <1>2, <1>8, <2>1 DEF InStep, Summing
<1> QED
  BY <1>4, <1>5, <1>6, <1>7, <1>8 DEF MoneyStep

LEMMA FiguresInStep ==
    ASSUME RInv, LInv, NEW p \in BillingRequest, FigureStep(task[p], task'[p]),
           \A q \in BillingRequest \ {p} : task'[q] = task[q],
           Editing' = (Editing \ {p}) \union {q \in {p} : task'[p].at \in Rewriting},
           ~ disturbed, \A q, s \in Editing' : q = s
    PROVE  /\ Editing' = {} => lines' = invoice'.gross
           /\ \A q \in BillingRequest :
                 /\ task'[q].at \in Rewriting => task'[q].amount = invoice'.gross
                 /\ task'[q].at = "createLines" => lines' = 0
<1>1. \A q \in BillingRequest : q \in Editing <=> task[q].at \in Rewriting
  BY DEF Editing, Rewriting
<1>2. \A q \in BillingRequest : InStep(task[q])
  BY DEF LInv
<1>3. (\A q, s \in Editing : q = s) /\ (Editing = {} => lines = invoice.gross)
  BY DEF LInv, UndisturbedFiguresAgree
<1>4. CASE task[p].at \notin Rewriting /\ task'[p].at \notin Rewriting
           /\ lines' = lines /\ invoice'.gross = invoice.gross
  <2>1. Editing' = Editing
    BY <1>1, <1>4
  <2> QED
    BY <1>2, <1>3, <1>4, <2>1 DEF InStep, Rewriting
<1>5. CASE task'[p].at = "deleteLines" /\ task'[p].amount = invoice'.gross
  <2>1. p \in Editing' /\ \A q \in BillingRequest \ {p} : q \notin Editing
    BY <1>5 DEF Rewriting
  <2> QED
    BY <1>1, <1>5, <2>1 DEF Rewriting
<1>6. CASE /\ task[p].at = "deleteLines" /\ task'[p].at = "createLines"
           /\ task'[p].amount = task[p].amount
           /\ lines' = 0 /\ invoice'.gross = invoice.gross
  <2>1. task'[p].amount = invoice'.gross /\ p \in Editing'
    BY <1>2, <1>6 DEF InStep, Rewriting
  <2> QED
    BY <1>2, <1>6, <2>1 DEF InStep, Rewriting
<1>7. CASE /\ task[p].at = "createLines" /\ task'[p].at \notin Rewriting
           /\ lines' = lines + task[p].amount /\ invoice'.gross = invoice.gross
  <2>1. lines = 0 /\ task[p].amount = invoice.gross /\ invoice.gross \in Nat
    BY <1>2, <1>7, Numbers DEF InStep, Rewriting, RInv
  <2>2. \A q \in BillingRequest \ {p} : task[q].at \notin Rewriting
    BY <1>1, <1>3, <1>7 DEF Rewriting
  <2> QED
    BY <1>7, <2>1, <2>2 DEF Rewriting
<1> QED
  BY <1>4, <1>5, <1>6, <1>7 DEF FigureStep

LEMMA LNext == RInv /\ RInv' /\ LInv /\ [BillingNext]_billingVars => LInv'
<1> SUFFICES ASSUME RInv, RInv', LInv, [BillingNext]_billingVars PROVE LInv'
  OBVIOUS
<1>1. ASSUME UNCHANGED <<rowVars>> PROVE UNCHANGED <<SucceededPayments, Refunds, invoice, lines>>
  BY <1>1 DEF rowVars, SucceededPayments, Refunds, Amounts, Succeeded
<1>2. CASE UNCHANGED billingVars
  <2>1. UNCHANGED <<SucceededPayments, Refunds, invoice, lines, task, disturbed, Reconciling, Editing>>
    BY <1>1, <1>2 DEF billingVars, Reconciling, Editing
  <2> QED
    BY <2>1 DEF LInv, NeverCreditsUnpaid, UndisturbedFiguresAgree, Covered, InStep
<1>3. ASSUME NEW k \in Slot, Capture(k) PROVE LInv'
  <2>1. UNCHANGED <<SucceededPayments, Refunds, invoice, lines, task, disturbed, Reconciling, Editing>>
    BY <1>1, <1>3 DEF Capture, Reconciling, Editing
  <2> QED
    BY <2>1 DEF LInv, NeverCreditsUnpaid, UndisturbedFiguresAgree, Covered, InStep
<1>4. ASSUME NEW p \in BillingRequest, AbandonBilling(p) PROVE LInv'
  <2>1. /\ UNCHANGED <<SucceededPayments, Refunds, invoice, lines>>
        /\ task'[p] = NoTask /\ \A q \in BillingRequest \ {p} : task'[q] = task[q]
        /\ Reconciling' = Reconciling \ {p} /\ Editing' = Editing \ {p}
        /\ ~ disturbed' => ~ disturbed /\ p \notin Reconciling /\ p \notin Editing
    BY <1>1, <1>4, Abandons
  <2>2. Covered(NoTask)' /\ InStep(NoTask)'
    BY DEF Covered, InStep, NoTask, Rewriting
  <2>3. \A q \in BillingRequest : Covered(task[q])'
    BY <2>1, <2>2 DEF LInv, Covered
  <2>4. ~ disturbed' => \A q \in BillingRequest : InStep(task[q])'
    BY <2>1, <2>2 DEF LInv, InStep
  <2>5. ~ disturbed' => Reconciling' = Reconciling /\ Editing' = Editing
    BY <2>1
  <2> QED
    BY <2>1, <2>3, <2>4, <2>5 DEF LInv, NeverCreditsUnpaid, UndisturbedFiguresAgree
<1>5. ASSUME NEW p \in BillingRequest, Begins(p) \/ Continues(p) PROVE LInv'
  <2>1. MoneyStep(task[p], task'[p]) /\ FigureStep(task[p], task'[p])
    BY <1>5, BeginsStep, ContinuesMoney, ContinuesFigures
  <2>2. NeverCreditsUnpaid' /\ \A q \in BillingRequest : Covered(task[q])'
    BY <1>5, <2>1, Stepped, CreditsCovered
  <2>3. CASE disturbed'
    BY <2>2, <2>3 DEF LInv, UndisturbedFiguresAgree
  <2>4. CASE ~ disturbed'
    <3>1. ~ disturbed /\ (\A q, s \in Reconciling' : q = s) /\ (\A q, s \in Editing' : q = s)
      BY <1>5, <2>4, Stepped
    <3>2. /\ Reconciling' = {} => invoice'.amountPaid = Net(SucceededPayments', Refunds')
          /\ \A q \in BillingRequest :
                /\ task'[q].at = "sumRefunds" => task'[q].amount = SucceededPayments'
                /\ task'[q].at = "setAmountPaid"
                      => task'[q].amount = Net(SucceededPayments', Refunds')
      BY <1>5, <2>1, <3>1, Stepped, MoneyInStep
    <3>3. /\ Editing' = {} => lines' = invoice'.gross
          /\ \A q \in BillingRequest :
                /\ task'[q].at \in Rewriting => task'[q].amount = invoice'.gross
                /\ task'[q].at = "createLines" => lines' = 0
      BY <1>5, <2>1, <3>1, Stepped, FiguresInStep
    <3>4. \A q \in BillingRequest : InStep(task[q])'
      BY <3>2, <3>3 DEF InStep
    <3>5. UndisturbedFiguresAgree'
      BY <3>2, <3>3 DEF UndisturbedFiguresAgree, Net
    <3> QED
      BY <2>2, <3>1, <3>4, <3>5 DEF LInv
  <2> QED
    BY <2>3, <2>4
<1> QED
  BY <1>2, <1>3, <1>4, <1>5 DEF BillingNext

LEMMA LInvariant == BillingSpec => []LInv
<1> QED
  BY RInvariant, LInit, LNext, PTL DEF BillingSpec

\* Replayed webhooks, overlapping reconciliations, manual overrides and refunds never
\* credit the invoice with more than its succeeded payments, for any number of them.
THEOREM NeverOvercredited == BillingSpec => []NeverCreditsUnpaid
<1>1. LInv => NeverCreditsUnpaid
  BY DEF LInv
<1> QED
  BY <1>1, LInvariant, PTL

\* Unless reconciliations or edits overlapped or were cut short, amountPaid is what
\* succeeded less what was refunded, and the lines add up to the figures.
THEOREM FiguresRight == BillingSpec => []UndisturbedFiguresAgree
<1>1. LInv => UndisturbedFiguresAgree
  BY DEF LInv
<1> QED
  BY <1>1, LInvariant, PTL

-------------------------------------------------------------------------------
(* Points.  First what a batch is made of: OpenOf is a recursive function over    *)
(* the paid invoices, Gathers(g, k) one that follows its equation up to k.           *)

Gathers(g, k) ==
    g = [n \in 0..k |-> IF n = 0 THEN <<>>
                        ELSE IF paid[n] \in earn THEN g[n - 1]
                        ELSE Append(g[n - 1], paid[n])]

LEMMA OpenGathers == ASSUME paid \in Seq(Invoice) PROVE Gathers(OpenOf, Len(paid))
<1> DEFINE T == {k \in Nat : \E g : Gathers(g, k)}
<1>1. 0 \in T
  <2> DEFINE g == [n \in 0..0 |-> <<>>]
  <2>1. Gathers(g, 0)
    BY DEF Gathers
  <2> QED
    BY <2>1
<1>2. ASSUME NEW k \in T PROVE k + 1 \in T
  <2>1. PICK g : Gathers(g, k)
    BY <1>2
  <2> DEFINE Step(n) == IF n = 0 THEN <<>>
                        ELSE IF paid[n] \in earn THEN g[n - 1]
                        ELSE Append(g[n - 1], paid[n])
             h == [n \in 0..(k + 1) |-> Step(n)]
  <2>2. k \in Nat
    BY <1>2
  <2>3. \A n \in 0..k : g[n] = Step(n)
    BY <2>1, <2>2 DEF Gathers
  <2>4. \A n \in 0..k : h[n] = g[n]
    BY <2>2, <2>3
  <2>5. \A n \in 0..(k + 1) : n # 0 => n - 1 \in 0..k
    BY <2>2
  <2>6. Gathers(h, k + 1)
    BY <2>4, <2>5 DEF Gathers
  <2> QED
    BY <2>2, <2>6
<1>3. T = Nat
  <2> HIDE DEF T
  <2>1. T \in SUBSET Nat
    BY DEF T
  <2> QED
    BY <1>1, <1>2, <2>1, NatSet
<1>4. PICK g : Gathers(g, Len(paid))
  <2>1. Len(paid) \in T
    <3> HIDE DEF T
    <3> QED
      BY <1>3
  <2> QED
    BY <2>1
<1> QED
  BY <1>4 DEF OpenOf, Gathers

LEMMA OpenType == ASSUME paid \in Seq(Invoice) PROVE Open \in Seq(Invoice)
<1> DEFINE T == {k \in Nat : k <= Len(paid) => OpenOf[k] \in Seq(Invoice)}
<1>1. \A n \in 0..Len(paid) :
         OpenOf[n] = IF n = 0 THEN <<>>
                     ELSE IF paid[n] \in earn THEN OpenOf[n - 1]
                     ELSE Append(OpenOf[n - 1], paid[n])
  BY OpenGathers DEF Gathers
<1>2. Len(paid) \in Nat /\ \A n \in 1..Len(paid) : paid[n] \in Invoice
  OBVIOUS
<1>3. 0 \in T
  <2>1. 0 \in 0..Len(paid)
    BY <1>2
  <2>2. OpenOf[0] = <<>>
    BY <1>1, <2>1
  <2>3. <<>> \in Seq(Invoice)
    OBVIOUS
  <2>4. OpenOf[0] \in Seq(Invoice)
    BY <2>2, <2>3
  <2> HIDE DEF OpenOf
  <2> QED
    BY <2>4
<1>4. ASSUME NEW k \in T PROVE k + 1 \in T
  <2> SUFFICES ASSUME k + 1 <= Len(paid) PROVE OpenOf[k + 1] \in Seq(Invoice)
    OBVIOUS
  <2>1. k \in Nat /\ OpenOf[k] \in Seq(Invoice)
    BY <1>2
  <2>2. k + 1 \in 1..Len(paid) /\ (k + 1) - 1 = k /\ k + 1 # 0 /\ k + 1 \in 0..Len(paid)
    BY <1>2, <2>1
  <2>3. OpenOf[k + 1] = IF paid[k + 1] \in earn THEN OpenOf[k] ELSE Append(OpenOf[k], paid[k + 1])
    BY <1>1, <2>2
  <2> QED
    BY <1>2, <2>1, <2>2, <2>3
<1>5. T = Nat
  <2> HIDE DEF T
  <2>1. T \in SUBSET Nat
    BY DEF T
  <2> QED
    BY <1>3, <1>4, <2>1, NatSet
<1> QED
  BY <1>2, <1>5 DEF Open

LEMMA UnearnedType ==
    ASSUME paid \in Seq(Invoice)
    PROVE  Unearned \in Seq(Invoice)
<1>1. Open \in Seq(Invoice) /\ Len(Open) \in Nat /\ Limit \in Nat
  BY OpenType, LoyaltyAssumption
<1>2. PICK k \in 0..Len(Open) : Unearned = SubSeq(Open, 1, k)
  BY <1>1 DEF Unearned
<1> QED
  BY <1>1, <1>2

-------------------------------------------------------------------------------
(* The inductive invariant of the points.  Its parts are stated of the values a   *)
(* step starts from or ends in: s is what a worker holds, a the accounts, b the   *)
(* bonuses, E the earned invoices.                                                *)

Work == [at : {"account", "create", "earn", "referrals", "referrer",
               "createReferrer", "bonus", "reward"},
         batch : Seq(Invoice), read : Nat, pending : SUBSET Referral]
Accounts == [Contact -> {NoAccount} \union Account]
Bonuses == [Referral -> Nat]

\* A total that was read has not shrunk since.
Reads(a, c, n) == a[c].open /\ n <= a[c].earned

Referring == {"referrer", "createReferrer", "bonus", "reward"}

\* What a worker between two calls can rely on.
Sound(s, a, b) ==
    s.at # "poll" =>
        /\ s.batch # <<>>
        /\ s.at = "earn" => Reads(a, Owner[Head(s.batch)], s.read)
        /\ s.at \in Referring =>
              s.pending # {} /\ \A r \in s.pending : Referred[r] = Owner[Head(s.batch)]
        /\ s.at = "bonus" => Reads(a, Referrer[One(s.pending)], s.read)
        /\ s.at = "reward" => b[One(s.pending)] > 0

\* The worker holding s may still pay the bonus of r, for the invoice it earned last.
Owes(s, r) ==
    \/ s.at = "referrals" /\ Referred[r] = Owner[Head(s.batch)]
    \/ s.at \in Referring \ {"reward"} /\ r \in s.pending
    \/ s.at = "reward" /\ r \in s.pending /\ r # One(s.pending)
Owing(r) == {w \in Worker : Owes(worker[w], r)}

EarnedBy(c, E) == {i \in E : Owner[i] = c}
PaidTo(c, b) == {r \in Referral : Referrer[r] = c /\ b[r] > 0}
Weighted(b) == [r \in Referral |-> b[r] * Bonus[r]]
Total(c, E, b) ==
    SumFunctionOnSet(Points, EarnedBy(c, E)) + SumFunctionOnSet(Weighted(b), PaidTo(c, b))

Entered(E, b) == IsFiniteSet(E) /\ IsFiniteSet({r \in Referral : b[r] > 0})

\* Every bonus, paid or still owed, has an invoice of the referred contact behind it.
Counted(r) ==
    /\ referral[r] = "rewarded" => bonus[r] > 0
    /\ IsFiniteSet(Owing(r))
    /\ bonus[r] + Cardinality(Owing(r)) <= Cardinality(EarnedBy(Referred[r], earn))

PInv ==
    /\ TypeOK
    /\ \A w \in Worker : Sound(worker[w], account, bonus)
    /\ \A p \in Request : request[p] # Rest => account[request[p].by].open
    /\ \A c \in Contact : ~ account[c].open => spent[c] = 0
    /\ Entered(earn, bonus)
    /\ BalanceIsLedger
    /\ TierIsDeserved
    /\ \A r \in Referral : Counted(r)

LEMMA CreditedIs ==
    /\ \A c \in Contact : Credited(c) = Total(c, earn, bonus)
    /\ \A c \in Contact : Credited(c)' = Total(c, earn', bonus')
  BY DEF Credited, BonusPaid, Total, EarnedBy, PaidTo, Weighted

LEMMA Weigh ==
    ASSUME NEW c \in Contact, NEW E \in SUBSET Invoice, NEW b \in Bonuses, Entered(E, b)
    PROVE  /\ Weights(Points, EarnedBy(c, E)) /\ Weights(Weighted(b), PaidTo(c, b))
           /\ Total(c, E, b) \in Nat
<1>1. IsFiniteSet(EarnedBy(c, E)) /\ IsFiniteSet(PaidTo(c, b))
  <2>1. EarnedBy(c, E) \subseteq E /\ PaidTo(c, b) \subseteq {r \in Referral : b[r] > 0}
    BY DEF EarnedBy, PaidTo
  <2> QED
    BY <2>1, FS_Subset DEF Entered
<1>2. \A i \in EarnedBy(c, E) : Points[i] \in Nat
  BY LoyaltyAssumption DEF EarnedBy
<1>3. \A r \in PaidTo(c, b) : Weighted(b)[r] \in Nat
  BY LoyaltyAssumption DEF PaidTo, Weighted, Bonuses
<1>4. Weights(Points, EarnedBy(c, E)) /\ Weights(Weighted(b), PaidTo(c, b))
  BY <1>1, <1>2, <1>3 DEF Weights
<1>5. /\ SumFunctionOnSet(Points, EarnedBy(c, E)) \in Nat
      /\ SumFunctionOnSet(Weighted(b), PaidTo(c, b)) \in Nat
  BY <1>4, SumType
<1> QED
  BY <1>4, <1>5 DEF Total

\* One more earned invoice.
LEMMA EarnsMore ==
    ASSUME NEW E \in SUBSET Invoice, NEW b \in Bonuses, Entered(E, b), NEW i \in Invoice, i \notin E
    PROVE  /\ Entered(E \union {i}, b)
           /\ Total(Owner[i], E \union {i}, b) = Total(Owner[i], E, b) + Points[i]
           /\ \A c \in Contact \ {Owner[i]} : Total(c, E \union {i}, b) = Total(c, E, b)
<1> DEFINE F == E \union {i}
           o == Owner[i]
<1>0. o \in Contact /\ Points[i] \in Nat
  BY LoyaltyAssumption
<1>1. F \in SUBSET Invoice /\ Entered(F, b)
  BY FS_AddElement DEF Entered
<1>2. EarnedBy(o, F) = EarnedBy(o, E) \union {i} /\ i \notin EarnedBy(o, E)
  BY DEF EarnedBy
<1>3. \A c \in Contact \ {o} : EarnedBy(c, F) = EarnedBy(c, E)
  BY DEF EarnedBy
<1>4. Weights(Points, EarnedBy(o, E) \union {i})
  BY <1>0, <1>1, <1>2, Weigh
<1>5. /\ SumFunctionOnSet(Points, EarnedBy(o, F)) = SumFunctionOnSet(Points, EarnedBy(o, E)) + Points[i]
      /\ SumFunctionOnSet(Points, EarnedBy(o, E)) \in Nat
  BY <1>2, <1>4, SumAdd
<1>6. SumFunctionOnSet(Weighted(b), PaidTo(o, b)) \in Nat
  BY <1>0, Weigh, SumType
<1>7. \A c \in Contact \ {o} : Total(c, F, b) = Total(c, E, b)
  BY <1>3 DEF Total
<1> HIDE DEF F, o
<1>8. Total(o, F, b) = Total(o, E, b) + Points[i]
  BY <1>0, <1>5, <1>6 DEF Total
<1> QED
  BY <1>1, <1>7, <1>8 DEF F, o

\* One more bonus of referral r.
LEMMA PaysMore ==
    ASSUME NEW E \in SUBSET Invoice, NEW b \in Bonuses, Entered(E, b), NEW r \in Referral,
           NEW d \in Bonuses, d[r] = b[r] + 1, \A x \in Referral \ {r} : d[x] = b[x]
    PROVE  /\ Entered(E, d)
           /\ Total(Referrer[r], E, d) = Total(Referrer[r], E, b) + Bonus[r]
           /\ \A c \in Contact \ {Referrer[r]} : Total(c, E, d) = Total(c, E, b)
<1> DEFINE o == Referrer[r]
<1>0. o \in Contact /\ Bonus[r] \in Nat /\ b[r] \in Nat /\ d[r] = b[r] + 1
      /\ \A x \in Referral \ {r} : d[x] = b[x]
  BY LoyaltyAssumption DEF Bonuses
<1>1. Entered(E, d)
  <2>1. {x \in Referral : d[x] > 0} = {x \in Referral : b[x] > 0} \union {r}
    BY <1>0 DEF Bonuses
  <2>2. IsFiniteSet({x \in Referral : b[x] > 0} \union {r})
    BY FS_AddElement DEF Entered
  <2>3. IsFiniteSet({x \in Referral : d[x] > 0})
    BY <2>1, <2>2
  <2> QED
    BY <2>3 DEF Entered
<1>2. PaidTo(o, d) = PaidTo(o, b) \union {r}
  BY <1>0 DEF PaidTo, Bonuses
<1>3. \A c \in Contact \ {o} : PaidTo(c, d) = PaidTo(c, b)
  BY <1>0 DEF PaidTo
<1>4. Weighted(d)[r] = Weighted(b)[r] + Bonus[r]
  <2>1. (b[r] + 1) * Bonus[r] = b[r] * Bonus[r] + Bonus[r]
    BY <1>0
  <2> QED
    BY <1>0, <2>1 DEF Weighted
<1>5. \A x \in Referral \ {r} : Weighted(d)[x] = Weighted(b)[x]
  BY <1>0 DEF Weighted
<1>6. \A c \in Contact \ {o} : Total(c, E, d) = Total(c, E, b)
  <2> SUFFICES ASSUME NEW c \in Contact \ {o} PROVE Total(c, E, d) = Total(c, E, b)
    OBVIOUS
  <2>1. \A x \in PaidTo(c, b) : Weighted(b)[x] = Weighted(d)[x]
    BY <1>5 DEF PaidTo
  <2>2. Weights(Weighted(b), PaidTo(c, b))
    BY Weigh
  <2>3. SumFunctionOnSet(Weighted(b), PaidTo(c, b)) = SumFunctionOnSet(Weighted(d), PaidTo(c, b))
    BY <2>1, <2>2, SumSame
  <2> QED
    BY <1>3, <2>3 DEF Total
<1>7. Total(o, E, d) = Total(o, E, b) + Bonus[r]
  <2> DEFINE S == PaidTo(o, b)
             R == S \ {r}
  <2>1. Weights(Weighted(b), S) /\ Weights(Weighted(d), PaidTo(o, d))
    BY <1>0, <1>1, Weigh
  <2>2. Weights(Weighted(b), R) /\ \A x \in R : Weighted(b)[x] = Weighted(d)[x]
    BY <1>5, <2>1, FS_Subset DEF Weights, PaidTo
  <2>3. /\ SumFunctionOnSet(Weighted(b), R) = SumFunctionOnSet(Weighted(d), R)
        /\ SumFunctionOnSet(Weighted(b), R) \in Nat
    BY <2>2, SumSame, SumType
  <2>4. SumFunctionOnSet(Weighted(d), PaidTo(o, d))
          = Weighted(d)[r] + SumFunctionOnSet(Weighted(d), R)
    <3>1. r \in PaidTo(o, d) /\ PaidTo(o, d) \ {r} = R
      BY <1>2
    <3> DEFINE V == PaidTo(o, d)
    <3>2. Weights(Weighted(d), V) /\ r \in V
      BY <2>1, <3>1
    <3> HIDE DEF V
    <3>3. SumFunctionOnSet(Weighted(d), V) = Weighted(d)[r] + SumFunctionOnSet(Weighted(d), V \ {r})
      BY <3>2, SumTake
    <3> QED
      BY <3>1, <3>3 DEF V
  <2>5. SumFunctionOnSet(Weighted(b), S) = Weighted(b)[r] + SumFunctionOnSet(Weighted(b), R)
    <3>1. CASE r \in S
      <4>1. Weights(Weighted(b), S) /\ R = S \ {r}
        BY <2>1
      <4> HIDE DEF S, R
      <4>2. SumFunctionOnSet(Weighted(b), S)
              = Weighted(b)[r] + SumFunctionOnSet(Weighted(b), S \ {r})
        BY <3>1, <4>1, SumTake
      <4> QED
        BY <4>1, <4>2
    <3>2. CASE r \notin S
      <4>1. b[r] = 0
        BY <1>0, <3>2 DEF PaidTo
      <4>2. Weighted(b)[r] = 0 /\ R = S
        BY <1>0, <3>2, <4>1 DEF Weighted
      <4>3. SumFunctionOnSet(Weighted(b), R) \in Nat
        BY <2>3
      <4> HIDE DEF S, R
      <4> QED
        BY <4>2, <4>3
    <3> QED
      BY <3>1, <3>2
  <2>6. Weighted(b)[r] \in Nat
    BY <1>0 DEF Weighted
  <2>7. SumFunctionOnSet(Points, EarnedBy(o, E)) \in Nat
    BY <1>0, Weigh, SumType
  <2> HIDE DEF S, R
  <2>8. SumFunctionOnSet(Weighted(d), PaidTo(o, d)) = SumFunctionOnSet(Weighted(b), S) + Bonus[r]
        /\ SumFunctionOnSet(Weighted(b), S) \in Nat
    BY <1>0, <1>4, <2>3, <2>4, <2>5, <2>6
  <2> QED
    BY <1>0, <2>7, <2>8 DEF Total, S
<1> QED
  BY <1>1, <1>6, <1>7

LEMMA OpenAccount ==
    ASSUME NEW o \in {NoAccount} \union Account, o.open
    PROVE  o \in Account /\ o.balance \in Nat /\ o.earned \in Nat /\ o.tier \in Tier
<1>1. o \in Account
  BY DEF NoAccount
<1> QED
  BY <1>1 DEF Account

LEMMA AccountSet ==
    ASSUME NEW o \in Account, NEW v \in Nat
    PROVE  /\ [o EXCEPT !.balance = v] \in Account
           /\ [o EXCEPT !.balance = v].balance = v /\ [o EXCEPT !.balance = v].earned = o.earned
           /\ [o EXCEPT !.balance = v].tier = o.tier
           /\ [o EXCEPT !.earned = v] \in Account
           /\ [o EXCEPT !.earned = v].earned = v /\ [o EXCEPT !.earned = v].balance = o.balance
  BY DEF Account

\* What the increments of a transaction leave of the accounts.
LEMMA Credits ==
    ASSUME account \in Accounts, NEW c \in Contact, account[c].open,
           NEW points \in Nat, NEW total \in Nat, Credit(c, points, total)
    PROVE  /\ account' \in Accounts
           /\ account'[c].open
           /\ account'[c].balance = account[c].balance + points
           /\ account'[c].earned = account[c].earned + points
           /\ account'[c].tier = TierFor(total + points)
           /\ \A o \in Contact \ {c} : account'[o] = account[o]
<1> DEFINE o == account[c]
           t == TierFor(total + points)
           x == [o EXCEPT !.balance = @ + points]
           y == [x EXCEPT !.earned = @ + points]
           n == [y EXCEPT !.tier = t]
<1>1. o \in Account
  BY OpenAccount DEF Accounts
<1>2. t \in Tier
  BY DEF TierFor, Tier
<1>3. account' = [account EXCEPT ![c] = n]
  BY DEF Credit, Accounts
<1> HIDE DEF o, t
<1>4. x \in Account /\ x.balance = o.balance + points /\ x.earned = o.earned
  <2>1. o.balance + points \in Nat
    BY <1>1 DEF Account
  <2> QED
    BY <1>1, <2>1, AccountSet
<1> HIDE DEF x
<1>5. y \in Account /\ y.balance = x.balance /\ y.earned = x.earned + points
  <2>1. x.earned + points \in Nat
    BY <1>4 DEF Account
  <2> QED
    BY <1>4, <2>1, AccountSet
<1> HIDE DEF y
<1>6. n \in Account /\ n.balance = y.balance /\ n.earned = y.earned /\ n.tier = t
  BY <1>2, <1>5 DEF Account
<1> HIDE DEF n
<1>7. n.open
  BY <1>6 DEF Account
<1>8. account'[c] = n /\ account' \in Accounts /\ \A z \in Contact \ {c} : account'[z] = account[z]
  BY <1>3, <1>6 DEF Accounts
<1> QED
  BY <1>4, <1>5, <1>6, <1>7, <1>8 DEF o, t

\* Accounts are never closed and lifetime points never go down.
Grown(a, z) ==
    \A c \in Contact : a[c].open => z[c].open /\ a[c].earned <= z[c].earned

LEMMA StaysSound ==
    ASSUME NEW a \in Accounts, NEW z \in Accounts, Grown(a, z),
           NEW b \in Bonuses, NEW d \in Bonuses, \A r \in Referral : b[r] <= d[r],
           NEW s \in {Poll} \union Work, Sound(s, a, b)
    PROVE  Sound(s, z, d)
<1>1. CASE s.at = "poll"
  BY <1>1 DEF Sound
<1>2. CASE s.at # "poll"
  <2>1. s \in Work /\ s.batch # <<>> /\ s.batch \in Seq(Invoice) /\ s.read \in Nat
        /\ s.pending \in SUBSET Referral
    BY <1>2 DEF Sound, Poll, Work
  <2>2. Head(s.batch) \in Invoice
    BY <2>1
  <2>3. Owner[Head(s.batch)] \in Contact
    BY <2>2, LoyaltyAssumption
  <2>4. \A c \in Contact : Reads(a, c, s.read) => Reads(z, c, s.read)
    <3> TAKE c \in Contact
    <3> SUFFICES ASSUME Reads(a, c, s.read) PROVE Reads(z, c, s.read)
      OBVIOUS
    <3>1. a[c].open /\ z[c].open /\ a[c].earned <= z[c].earned /\ s.read <= a[c].earned
      BY DEF Reads, Grown
    <3>2. a[c].earned \in Nat /\ z[c].earned \in Nat
      BY <3>1, OpenAccount DEF Accounts
    <3> QED
      BY <2>1, <3>1, <3>2 DEF Reads
  <2>5. s.at = "earn" => Reads(z, Owner[Head(s.batch)], s.read)
    BY <1>2, <2>3, <2>4 DEF Sound
  <2>6. s.at \in Referring => One(s.pending) \in Referral
    BY <1>2, <2>1 DEF Sound, One
  <2>7. s.at = "bonus" => Reads(z, Referrer[One(s.pending)], s.read)
    BY <1>2, <2>4, <2>6, LoyaltyAssumption DEF Sound, Referring
  <2>8. s.at = "reward" => d[One(s.pending)] > 0
    <3> SUFFICES ASSUME s.at = "reward" PROVE d[One(s.pending)] > 0
      OBVIOUS
    <3>1. One(s.pending) \in Referral /\ b[One(s.pending)] > 0
      BY <1>2, <2>6 DEF Sound, Referring
    <3> QED
      BY <3>1 DEF Bonuses
  <2> QED
    BY <1>2, <2>1, <2>5, <2>7, <2>8 DEF Sound
<1> QED
  BY <1>1, <1>2

\* Worker w goes on to s.
LEMMA Becoming ==
    ASSUME PInv, NEW w \in Worker, NEW s \in {Poll} \union Work, Becomes(w, s)
    PROVE  /\ worker' \in [Worker -> {Poll} \union Work]
           /\ worker'[w] = s /\ \A v \in Worker \ {w} : worker'[v] = worker[v]
           /\ \A r \in Referral : Owing(r)' = (Owing(r) \ {w}) \union {v \in {w} : Owes(s, r)}
<1>1. /\ worker' \in [Worker -> {Poll} \union Work]
      /\ worker'[w] = s /\ \A v \in Worker \ {w} : worker'[v] = worker[v]
  BY DEF PInv, TypeOK, Becomes, Work
<1>2. ASSUME NEW r \in Referral
      PROVE  Owing(r)' = (Owing(r) \ {w}) \union {v \in {w} : Owes(s, r)}
  <2>1. Owing(r)' = {v \in Worker : Owes(worker'[v], r)}
    BY DEF Owing, Owes
  <2> QED
    BY <1>1, <2>1 DEF Owing
<1> QED
  BY <1>1, <1>2

\* A step in the course of which no worker begins to owe a bonus keeps the count,
\* of referrals whose bonuses stay as they are.
LEMMA CountKept ==
    ASSUME PInv, NEW r \in Referral, Owing(r)' \subseteq Owing(r),
           bonus'[r] = bonus[r], earn \subseteq earn', IsFiniteSet(earn'),
           referral'[r] = "rewarded" => bonus[r] > 0
    PROVE  Counted(r)'
<1>1. Counted(r)
  BY DEF PInv
<1>2. IsFiniteSet(Owing(r)') /\ Cardinality(Owing(r)') <= Cardinality(Owing(r))
      /\ Cardinality(Owing(r)') \in Nat /\ Cardinality(Owing(r)) \in Nat
  BY <1>1, FS_Subset, FS_CardinalityType DEF Counted
<1> DEFINE E == EarnedBy(Referred[r], earn)
           F == EarnedBy(Referred[r], earn')
<1>3. Cardinality(E) <= Cardinality(F) /\ Cardinality(E) \in Nat /\ Cardinality(F) \in Nat
  <2>1. E \subseteq F /\ F \subseteq earn'
    BY DEF EarnedBy
  <2> HIDE DEF E, F
  <2>2. IsFiniteSet(F)
    BY <2>1, FS_Subset
  <2> QED
    BY <2>1, <2>2, FS_Subset, FS_CardinalityType
<1>4. bonus[r] \in Nat
  BY DEF PInv, TypeOK
<1>5. bonus[r] + Cardinality(Owing(r)) <= Cardinality(E)
  BY <1>1 DEF Counted
<1>6. bonus'[r] + Cardinality(Owing(r)') <= Cardinality(F)
  <2> HIDE DEF E, F
  <2> QED
    BY <1>2, <1>3, <1>4, <1>5
<1>7. (Owing(r))' = Owing(r)' /\ EarnedBy(Referred[r], earn)' = F
  BY DEF EarnedBy
<1> QED
  BY <1>2, <1>6, <1>7 DEF Counted

\* A worker's step keeps the invariant if it keeps the ledger and the count.
LEMMA WorkerKeeps ==
    ASSUME PInv, NEW w \in Worker, NEW s \in {Poll} \union Work, Becomes(w, s),
           UNCHANGED <<paid, spent, request>>, crashes' \in 0..MaxCrashes,
           account' \in Accounts, Grown(account, account'),
           bonus' \in Bonuses, \A r \in Referral : bonus[r] <= bonus'[r],
           earn' \in SUBSET Invoice, Entered(earn', bonus'),
           referral' \in [Referral -> {"absent", "pending", "rewarded"}],
           Sound(s, account', bonus'), BalanceIsLedger', TierIsDeserved',
           \A r \in Referral : Counted(r)'
    PROVE  PInv'
<1>1. /\ worker' \in [Worker -> {Poll} \union Work]
      /\ worker'[w] = s /\ \A v \in Worker \ {w} : worker'[v] = worker[v]
  BY Becoming
<1>2. account \in Accounts /\ bonus \in Bonuses /\ worker \in [Worker -> {Poll} \union Work]
  BY DEF PInv, TypeOK, Accounts, Bonuses, Work
<1>3. \A v \in Worker : Sound(worker'[v], account', bonus')
  <2> SUFFICES ASSUME NEW v \in Worker, v # w PROVE Sound(worker'[v], account', bonus')
    BY <1>1
  <2>1. Sound(worker[v], account, bonus) /\ worker[v] \in {Poll} \union Work
    BY <1>2 DEF PInv
  <2>2. Sound(worker[v], account', bonus')
    BY <1>2, <2>1, StaysSound
  <2> QED
    BY <1>1, <2>2
<1>4. \A p \in Request : request'[p] # Rest => account'[request'[p].by].open
  <2> SUFFICES ASSUME NEW p \in Request, request[p] # Rest PROVE account'[request[p].by].open
    OBVIOUS
  <2>1. account[request[p].by].open /\ request[p].by \in Contact
    BY DEF PInv, TypeOK
  <2> QED
    BY <2>1 DEF Grown
<1>5. \A c \in Contact : ~ account'[c].open => spent'[c] = 0
  BY DEF PInv, Grown
<1>6. TypeOK'
  BY <1>1 DEF PInv, TypeOK, Accounts, Bonuses, Work
<1>7. (\A v \in Worker : Sound(worker[v], account, bonus))'
  BY <1>3 DEF Sound, Reads
<1>8. Entered(earn, bonus)'
  BY DEF Entered
<1> QED
  BY <1>4, <1>5, <1>6, <1>7, <1>8 DEF PInv

LEMMA CreditedType ==
    ASSUME PInv, NEW c \in Contact PROVE Credited(c) \in Nat
<1>1. earn \in SUBSET Invoice /\ bonus \in Bonuses /\ Entered(earn, bonus)
  BY DEF PInv, TypeOK, Bonuses
<1> QED
  BY <1>1, CreditedIs, Weigh

\* Opening an account keeps the ledger.
LEMMA Opens ==
    ASSUME PInv, NEW c \in Contact, ~ account[c].open,
           account' = [account EXCEPT ![c] = NewAccount], UNCHANGED <<earn, bonus, spent>>
    PROVE  /\ account' \in Accounts /\ Grown(account, account')
           /\ account'[c].open /\ account'[c].earned = 0
           /\ BalanceIsLedger' /\ TierIsDeserved'
<1>1. account \in Accounts
  BY DEF PInv, TypeOK, Accounts
<1>2. NewAccount \in Account /\ NewAccount.open /\ NewAccount.balance = 0
      /\ NewAccount.earned = 0 /\ NewAccount.tier = "bronze"
  BY DEF NewAccount, Account, Tier
<1>3. account'[c] = NewAccount /\ \A o \in Contact \ {c} : account'[o] = account[o]
  BY <1>1 DEF Accounts
<1>4. account' \in Accounts
  BY <1>1, <1>2 DEF Accounts
<1>5. Grown(account, account')
  <2> SUFFICES ASSUME NEW o \in Contact, account[o].open
               PROVE  account'[o].open /\ account[o].earned <= account'[o].earned
    BY DEF Grown
  <2>1. account'[o] = account[o] /\ account[o].earned \in Nat
    BY <1>1, <1>3, OpenAccount DEF Accounts
  <2> QED
    BY <2>1
<1>6. \A o \in Contact : Credited(o)' = Credited(o)
  BY CreditedIs
<1>7. Credited(c) = 0 /\ spent[c] = 0
  BY DEF PInv, BalanceIsLedger
<1>8. BalanceIsLedger'
  <2> SUFFICES ASSUME NEW o \in Contact
               PROVE  IF account'[o].open
                      THEN account'[o].earned = Credited(o)' /\ account'[o].balance + spent'[o] = Credited(o)'
                      ELSE Credited(o)' = 0
    BY DEF BalanceIsLedger
  <2>1. CASE o = c
    BY <1>2, <1>3, <1>6, <1>7, <2>1
  <2>2. CASE o # c
    BY <1>3, <1>6, <2>2 DEF PInv, BalanceIsLedger
  <2> QED
    BY <2>1, <2>2
<1>9. TierIsDeserved'
  BY <1>2, <1>3 DEF PInv, TierIsDeserved
<1> QED
  BY <1>2, <1>3, <1>4, <1>5, <1>8, <1>9

\* So does a credit, with a total that has not shrunk and an entry of those points.
LEMMA CreditsLedger ==
    ASSUME PInv, NEW c \in Contact, NEW points \in Nat, NEW total \in Nat,
           Reads(account, c, total), Credit(c, points, total), UNCHANGED spent,
           Credited(c)' = Credited(c) + points,
           \A o \in Contact \ {c} : Credited(o)' = Credited(o)
    PROVE  /\ account' \in Accounts /\ Grown(account, account')
           /\ BalanceIsLedger' /\ TierIsDeserved'
<1>1. account \in Accounts /\ account[c].open /\ total <= account[c].earned
  BY DEF PInv, TypeOK, Accounts, Reads
<1>2. /\ account' \in Accounts
      /\ account'[c].open
      /\ account'[c].balance = account[c].balance + points
      /\ account'[c].earned = account[c].earned + points
      /\ account'[c].tier = TierFor(total + points)
      /\ \A o \in Contact \ {c} : account'[o] = account[o]
  BY <1>1, Credits
<1>3. account[c].balance \in Nat /\ account[c].earned \in Nat /\ spent[c] \in Nat
  BY <1>1, OpenAccount DEF Accounts, PInv, TypeOK
<1>4. Grown(account, account')
  <2> SUFFICES ASSUME NEW o \in Contact, account[o].open
               PROVE  account'[o].open /\ account[o].earned <= account'[o].earned
    BY DEF Grown
  <2>1. CASE o = c
    BY <1>2, <1>3, <2>1
  <2>2. CASE o # c
    <3>1. account'[o] = account[o] /\ account[o].earned \in Nat
      BY <1>1, <1>2, <2>2, OpenAccount DEF Accounts
    <3> QED
      BY <3>1
  <2> QED
    BY <2>1, <2>2
<1>5. BalanceIsLedger'
  <2> SUFFICES ASSUME NEW o \in Contact
               PROVE  IF account'[o].open
                      THEN account'[o].earned = Credited(o)' /\ account'[o].balance + spent'[o] = Credited(o)'
                      ELSE Credited(o)' = 0
    BY DEF BalanceIsLedger
  <2>1. CASE o = c
    <3>1. account[c].earned = Credited(c) /\ account[c].balance + spent[c] = Credited(c)
      BY <1>1 DEF PInv, BalanceIsLedger
    <3>2. account'[c].earned = Credited(c)' /\ account'[c].balance + spent'[c] = Credited(c)'
      BY <1>2, <1>3, <3>1
    <3> QED
      BY <1>2, <2>1, <3>2
  <2>2. CASE o # c
    BY <1>2, <2>2 DEF PInv, BalanceIsLedger
  <2> QED
    BY <2>1, <2>2
<1>6. TierIsDeserved'
  <2> SUFFICES ASSUME NEW o \in Contact, account'[o].open
               PROVE  account'[o].tier \in
                          {"bronze"}
                          \union (IF account'[o].earned >= Silver THEN {"silver"} ELSE {})
                          \union (IF account'[o].earned >= Gold THEN {"gold"} ELSE {})
    BY DEF TierIsDeserved
  <2>1. CASE o = c
    <3>1. total + points <= account'[c].earned /\ account'[c].earned \in Nat
      BY <1>1, <1>2, <1>3
    <3>2. Silver \in Nat /\ Gold \in Nat
      BY LoyaltyAssumption
    <3>3. (total + points >= Silver => account'[c].earned >= Silver)
          /\ (total + points >= Gold => account'[c].earned >= Gold)
      BY <3>1, <3>2
    <3> QED
      BY <1>2, <2>1, <3>3 DEF TierFor
  <2>2. CASE o # c
    BY <1>2, <2>2 DEF PInv, TierIsDeserved
  <2> QED
    BY <2>1, <2>2
<1> QED
  BY <1>2, <1>4, <1>5, <1>6

\* What a busy worker holds.
LEMMA Busy ==
    ASSUME PInv, NEW w \in Worker, worker[w].at # "poll"
    PROVE  /\ worker[w] \in Work /\ Sound(worker[w], account, bonus)
           /\ worker[w].batch \in Seq(Invoice) /\ worker[w].batch # <<>>
           /\ worker[w].read \in Nat /\ worker[w].pending \in SUBSET Referral
           /\ Current(w) \in Invoice /\ Owner[Current(w)] \in Contact
           /\ Points[Current(w)] \in Nat
           /\ Current(w) = Head(worker[w].batch) /\ InHand(w) = One(worker[w].pending)
           /\ worker[w].at \in Referring =>
                /\ InHand(w) \in worker[w].pending /\ InHand(w) \in Referral
                /\ Referrer[InHand(w)] \in Contact /\ Bonus[InHand(w)] \in Nat
                /\ Referred[InHand(w)] = Owner[Current(w)]
<1>1. worker[w] \in Work /\ Sound(worker[w], account, bonus)
  BY DEF PInv, TypeOK, Poll, Work
<1>2. /\ worker[w].batch \in Seq(Invoice) /\ worker[w].batch # <<>>
      /\ worker[w].read \in Nat /\ worker[w].pending \in SUBSET Referral
  BY <1>1 DEF Work, Sound
<1>3. Current(w) \in Invoice
  BY <1>2 DEF Current
<1>4. Current(w) = Head(worker[w].batch) /\ InHand(w) = One(worker[w].pending)
  BY DEF Current, InHand, One
<1>5. worker[w].at \in Referring =>
        InHand(w) \in worker[w].pending /\ Referred[InHand(w)] = Owner[Current(w)]
  BY <1>1, <1>4 DEF Sound, One
<1> QED
  BY <1>1, <1>2, <1>3, <1>4, <1>5, LoyaltyAssumption

\* A worker done with an invoice owes nothing.
LEMMA NextOne ==
    ASSUME PInv, NEW w \in Worker, worker[w].at # "poll", NextInvoice(w)
    PROVE  \E s \in {Poll} \union Work :
              /\ Becomes(w, s)
              /\ \A a, b : Sound(s, a, b)
              /\ \A r \in Referral : ~ Owes(s, r)
<1> DEFINE q == worker[w].batch
           n == [at |-> "account", batch |-> Tail(q), read |-> 0, pending |-> {}]
<1>1. q \in Seq(Invoice) /\ q # <<>>
  BY Busy
<1>2. CASE Len(q) = 1
  <2>1. Becomes(w, Poll)
    BY <1>2 DEF NextInvoice
  <2>2. (\A a, b : Sound(Poll, a, b)) /\ \A r \in Referral : ~ Owes(Poll, r)
    BY DEF Poll, Sound, Owes, Referring
  <2> QED
    BY <2>1, <2>2
<1>3. CASE Len(q) # 1
  <2>1. Becomes(w, n)
    BY <1>3 DEF NextInvoice
  <2>2. Tail(q) \in Seq(Invoice) /\ Tail(q) # <<>>
    <3> HIDE DEF q
    <3>1. Len(q) \in Nat /\ Len(q) # 0 /\ Len(q) # 1
      BY <1>1, <1>3
    <3>2. Tail(q) \in Seq(Invoice) /\ Len(Tail(q)) = Len(q) - 1
      BY <1>1
    <3>3. Len(Tail(q)) # 0 /\ Len(<<>>) = 0
      BY <3>1, <3>2
    <3>4. Tail(q) # <<>>
      BY <3>3, Zenon
    <3> QED
      BY <3>2, <3>4
  <2> HIDE DEF q
  <2>3. n \in Work
    BY <2>2 DEF Work
  <2>4. (\A a, b : Sound(n, a, b)) /\ \A r \in Referral : ~ Owes(n, r)
    BY <2>2 DEF Sound, Owes, Referring
  <2> QED
    BY <2>1, <2>3, <2>4 DEF q
<1> QED
  BY <1>2, <1>3

\* Going on with the same invoice.
Steps == {"account", "create", "earn", "referrals", "referrer",
          "createReferrer", "bonus", "reward"}

OnTo(s, step) == [s EXCEPT !.at = step]
OnReading(s, step, n) == [s EXCEPT !.at = step, !.read = n]
OnListing(s, step, R) == [s EXCEPT !.at = step, !.pending = R]

LEMMA Stepping ==
    ASSUME NEW s \in Work, NEW step \in Steps
    PROVE  /\ OnTo(s, step) \in Work
           /\ OnTo(s, step).at = step
           /\ OnTo(s, step).batch = s.batch
           /\ OnTo(s, step).read = s.read
           /\ OnTo(s, step).pending = s.pending
  BY DEF Work, Steps, OnTo

LEMMA SteppingWith ==
    ASSUME NEW s \in Work, NEW step \in Steps, NEW n \in Nat
    PROVE  /\ OnReading(s, step, n) \in Work
           /\ OnReading(s, step, n).at = step
           /\ OnReading(s, step, n).batch = s.batch
           /\ OnReading(s, step, n).read = n
           /\ OnReading(s, step, n).pending = s.pending
  BY DEF Work, Steps, OnReading

LEMMA SteppingOn ==
    ASSUME NEW s \in Work, NEW step \in Steps, NEW R \in SUBSET Referral
    PROVE  /\ OnListing(s, step, R) \in Work
           /\ OnListing(s, step, R).at = step
           /\ OnListing(s, step, R).batch = s.batch
           /\ OnListing(s, step, R).pending = R
  BY DEF Work, Steps, OnListing

\* A step that leaves the ledger and the referrals alone, and after which the worker
\* owes no more than before.
LEMMA QuietStep ==
    ASSUME PInv, NEW w \in Worker, NEW s \in {Poll} \union Work, Becomes(w, s),
           UNCHANGED <<paid, ledgerVars, referral, request>>, crashes' \in 0..MaxCrashes,
           Sound(s, account, bonus), \A r \in Referral : Owes(s, r) => Owes(worker[w], r)
    PROVE  PInv'
<1>1. account \in Accounts /\ bonus \in Bonuses /\ earn \in SUBSET Invoice
      /\ UNCHANGED <<account, bonus, earn, spent, referral>>
  BY DEF PInv, TypeOK, Accounts, Bonuses, ledgerVars
<1>2. Grown(account, account') /\ \A r \in Referral : bonus[r] <= bonus'[r]
  <2>1. \A c \in Contact : account[c].open => account[c].earned \in Nat
    BY <1>1, OpenAccount DEF Accounts
  <2> QED
    BY <1>1, <2>1 DEF Grown, Bonuses
<1>3. BalanceIsLedger' /\ TierIsDeserved'
  BY <1>1, CreditedIs DEF PInv, BalanceIsLedger, TierIsDeserved
<1>4. \A r \in Referral : Counted(r)'
  <2> SUFFICES ASSUME NEW r \in Referral PROVE Counted(r)'
    OBVIOUS
  <2>1. Owing(r)' \subseteq Owing(r)
    BY Becoming DEF Owing
  <2>2. IsFiniteSet(earn) /\ (referral[r] = "rewarded" => bonus[r] > 0)
    BY DEF PInv, Entered, Counted
  <2> QED
    BY <1>1, <2>1, <2>2, CountKept
<1>5. Entered(earn', bonus') /\ referral' \in [Referral -> {"absent", "pending", "rewarded"}]
  BY <1>1 DEF PInv, Entered, TypeOK
<1> QED
  BY <1>1, <1>2, <1>3, <1>4, <1>5, WorkerKeeps DEF ledgerVars

LEMMA Passing ==
    ASSUME PInv, NEW w \in Worker, worker[w].at # "poll", NextInvoice(w),
           UNCHANGED <<paid, ledgerVars, referral, request, crashes>>
    PROVE  PInv'
<1>1. PICK s \in {Poll} \union Work :
         Becomes(w, s) /\ (\A a, b : Sound(s, a, b)) /\ \A r \in Referral : ~ Owes(s, r)
  BY NextOne
<1>2. crashes' \in 0..MaxCrashes
  BY DEF PInv, TypeOK
<1> QED
  BY <1>1, <1>2, QuietStep DEF ledgerVars

LEMMA ListUnearnedKeeps == ASSUME PInv, NEW w \in Worker, ListUnearned(w) PROVE PInv'
<1> DEFINE s == [at |-> "account", batch |-> Unearned, read |-> 0, pending |-> {}]
<1>1. Unearned \in Seq(Invoice)
  BY UnearnedType DEF PInv, TypeOK
<1>2. Becomes(w, s) /\ Unearned # <<>> /\ UNCHANGED <<paid, ledgerVars, referral, request, crashes>>
  BY DEF ListUnearned
<1>3. s \in Work
  BY <1>1 DEF Work
<1>4. Sound(s, account, bonus) /\ \A r \in Referral : ~ Owes(s, r)
  BY <1>2 DEF Sound, Owes, Referring
<1>5. crashes' \in 0..MaxCrashes
  BY <1>2 DEF PInv, TypeOK
<1> HIDE DEF s
<1> QED
  BY <1>2, <1>3, <1>4, <1>5, QuietStep DEF ledgerVars

LEMMA GetAccountKeeps == ASSUME PInv, NEW w \in Worker, GetAccount(w) PROVE PInv'
<1> DEFINE c == Owner[Current(w)]
<1>1. worker[w].at = "account" /\ UNCHANGED <<paid, ledgerVars, referral, request, crashes>>
      /\ crashes' \in 0..MaxCrashes
  BY DEF GetAccount, At, PInv, TypeOK
<1>2. /\ worker[w] \in Work /\ worker[w].batch # <<>> /\ c \in Contact
      /\ Current(w) = Head(worker[w].batch)
  BY <1>1, Busy
<1>3. CASE NextInvoice(w)
  BY <1>1, <1>3, Passing DEF ledgerVars
<1>4. CASE account[c].open /\ GoReading(w, "earn", c)
  <2> DEFINE s == OnReading(worker[w], "earn", account[c].earned)
  <2>1. account[c].earned \in Nat
    BY <1>2, <1>4, OpenAccount DEF PInv, TypeOK
  <2>2. s \in Work /\ s.at = "earn" /\ s.batch = worker[w].batch /\ s.read = account[c].earned
    <3>1. "earn" \in Steps
      BY DEF Steps
    <3> QED
      BY <1>2, <2>1, <3>1, SteppingWith
  <2>3. Becomes(w, s)
    BY <1>4 DEF GoReading, OnReading
  <2> HIDE DEF s
  <2>4. Sound(s, account, bonus) /\ \A r \in Referral : ~ Owes(s, r)
    BY <1>2, <1>4, <2>1, <2>2 DEF Sound, Owes, Referring, Reads
  <2> QED
    BY <1>1, <2>2, <2>3, <2>4, QuietStep DEF ledgerVars
<1>5. CASE ~ account[c].open /\ GoTo(w, "create")
  <2> DEFINE s == OnTo(worker[w], "create")
  <2>1. s \in Work /\ s.at = "create" /\ s.batch = worker[w].batch
    BY <1>2, Stepping DEF Steps
  <2>2. Becomes(w, s)
    BY <1>5 DEF GoTo, OnTo
  <2> HIDE DEF s
  <2>3. Sound(s, account, bonus) /\ \A r \in Referral : ~ Owes(s, r)
    BY <1>2, <2>1 DEF Sound, Owes, Referring
  <2> QED
    BY <1>1, <2>1, <2>2, <2>3, QuietStep DEF ledgerVars
<1> QED
  BY <1>3, <1>4, <1>5 DEF GetAccount

\* Both workers' ways to open an account: for an invoice, or for a referrer.
LEMMA OpeningKeeps ==
    ASSUME PInv, NEW w \in Worker, worker[w].at # "poll", NEW c \in Contact, ~ account[c].open,
           account' = [account EXCEPT ![c] = NewAccount],
           NEW s \in Work, Becomes(w, s), s.batch = worker[w].batch,
           \/ s.at = "earn" /\ c = Owner[Current(w)]
           \/ s.at = "bonus" /\ worker[w].at \in Referring \ {"reward"}
              /\ s.pending = worker[w].pending /\ c = Referrer[InHand(w)],
           s.read = 0,
           UNCHANGED <<paid, earn, bonus, spent, referral, request, crashes>>
    PROVE  PInv'
<1>1. /\ account' \in Accounts /\ Grown(account, account')
      /\ account'[c].open /\ account'[c].earned = 0
      /\ BalanceIsLedger' /\ TierIsDeserved'
  BY Opens
<1>2. bonus \in Bonuses /\ earn \in SUBSET Invoice /\ Entered(earn, bonus) /\ crashes' \in 0..MaxCrashes
      /\ referral' \in [Referral -> {"absent", "pending", "rewarded"}]
  BY DEF PInv, TypeOK, Bonuses
<1>3. \A r \in Referral : Owes(s, r) => Owes(worker[w], r)
  BY DEF Owes, Referring
<1>4. Sound(s, account', bonus')
  <2>1. /\ worker[w].batch # <<>> /\ Current(w) = Head(worker[w].batch)
        /\ InHand(w) = One(worker[w].pending) /\ Sound(worker[w], account, bonus)
    BY Busy
  <2>2. Reads(account', c, s.read)
    BY <1>1 DEF Reads
  <2>3. CASE s.at = "earn"
    BY <2>1, <2>2, <2>3 DEF Sound, Referring
  <2>4. CASE s.at = "bonus"
    BY <2>1, <2>2, <2>4 DEF Sound, Referring
  <2> QED
    BY <2>3, <2>4
<1>5. \A r \in Referral : Counted(r)'
  <2> SUFFICES ASSUME NEW r \in Referral PROVE Counted(r)'
    OBVIOUS
  <2>1. Owing(r)' \subseteq Owing(r)
    BY <1>3, Becoming DEF Owing
  <2>2. IsFiniteSet(earn) /\ (referral[r] = "rewarded" => bonus[r] > 0)
    BY DEF PInv, Entered, Counted
  <2> QED
    BY <2>1, <2>2, CountKept
<1>6. \A r \in Referral : bonus[r] <= bonus'[r]
  BY <1>2 DEF Bonuses
<1> QED
  BY <1>1, <1>2, <1>4, <1>5, <1>6, WorkerKeeps

LEMMA CreateAccountKeeps == ASSUME PInv, NEW w \in Worker, CreateAccount(w) PROVE PInv'
<1> DEFINE c == Owner[Current(w)]
           s == OnReading(worker[w], "earn", 0)
<1>1. worker[w].at = "create" /\ UNCHANGED <<paid, earn, bonus, spent, referral, request, crashes>>
  BY DEF CreateAccount, At
<1>2. worker[w] \in Work /\ c \in Contact
  BY <1>1, Busy
<1>3. CASE NextInvoice(w) /\ UNCHANGED account
  BY <1>1, <1>3, Passing DEF ledgerVars
<1>4. CASE ~ account[c].open /\ account' = [account EXCEPT ![c] = NewAccount] /\ Becomes(w, s)
  <2>1. s \in Work /\ s.at = "earn" /\ s.batch = worker[w].batch /\ s.read = 0
    <3>1. "earn" \in Steps /\ 0 \in Nat
      BY DEF Steps
    <3> QED
      BY <1>2, <3>1, SteppingWith
  <2> HIDE DEF s
  <2> QED
    BY <1>1, <1>2, <1>4, <2>1, OpeningKeeps
<1> QED
  BY <1>3, <1>4 DEF CreateAccount, OnReading

LEMMA CreateReferrerKeeps == ASSUME PInv, NEW w \in Worker, CreateReferrerAccount(w) PROVE PInv'
<1> DEFINE c == Referrer[InHand(w)]
           s == OnReading(worker[w], "bonus", 0)
<1>1. worker[w].at = "createReferrer"
      /\ UNCHANGED <<paid, earn, bonus, spent, referral, request, crashes>>
  BY DEF CreateReferrerAccount, At
<1>2. worker[w] \in Work /\ c \in Contact /\ worker[w].at \in Referring \ {"reward"}
  BY <1>1, Busy DEF Referring
<1>3. CASE NextInvoice(w) /\ UNCHANGED account
  BY <1>1, <1>3, Passing DEF ledgerVars
<1>4. CASE ~ account[c].open /\ account' = [account EXCEPT ![c] = NewAccount] /\ Becomes(w, s)
  <2>1. s \in Work /\ s.at = "bonus" /\ s.batch = worker[w].batch /\ s.read = 0
        /\ s.pending = worker[w].pending
    <3>1. "bonus" \in Steps /\ 0 \in Nat
      BY DEF Steps
    <3> QED
      BY <1>2, <3>1, SteppingWith
  <2> HIDE DEF s
  <2> QED
    BY <1>1, <1>2, <1>4, <2>1, OpeningKeeps
<1> QED
  BY <1>3, <1>4 DEF CreateReferrerAccount, OnReading

\* A first earning: one more invoice behind the bonuses of its owner, and one worker
\* that may pay one of each.
LEMMA EarnCounts ==
    ASSUME PInv, NEW w \in Worker, worker[w].at = "earn",
           Current(w) \notin earn, earn' = earn \union {Current(w)},
           Becomes(w, OnTo(worker[w], "referrals")), UNCHANGED <<bonus, referral>>,
           NEW r \in Referral
    PROVE  Counted(r)'
<1> DEFINE s == OnTo(worker[w], "referrals")
           i == Current(w)
           c == Referred[r]
           E == EarnedBy(c, earn)
           F == EarnedBy(c, earn')
<1>1. /\ worker[w] \in Work /\ i \in Invoice /\ i = Head(worker[w].batch)
  BY Busy
<1>2. s \in Work /\ s.at = "referrals" /\ s.batch = worker[w].batch
  BY <1>1, Stepping DEF Steps
<1> HIDE DEF s
<1>3. IsFiniteSet(earn) /\ IsFiniteSet(earn')
  BY FS_AddElement DEF PInv, Entered
<1>4. referral'[r] = "rewarded" => bonus[r] > 0
  BY DEF PInv, Counted
<1>5. CASE Owner[i] = c
  <2>1. Owing(r)' \subseteq Owing(r) \union {w}
    BY <1>2, Becoming DEF s
  <2>2. F = E \union {i} /\ i \notin E /\ E \subseteq earn
    BY <1>5 DEF EarnedBy
  <2>3. /\ IsFiniteSet(Owing(r)) /\ bonus[r] + Cardinality(Owing(r)) <= Cardinality(E)
        /\ bonus[r] \in Nat
    BY DEF PInv, Counted, TypeOK
  <2>4. /\ IsFiniteSet(Owing(r)') /\ Cardinality(Owing(r)') <= Cardinality(Owing(r)) + 1
        /\ Cardinality(Owing(r)') \in Nat /\ Cardinality(Owing(r)) \in Nat
    <3> DEFINE O == Owing(r)
               P == Owing(r)'
               Q == O \union {w}
    <3> HIDE DEF O, P
    <3>1. IsFiniteSet(O) /\ Cardinality(O) \in Nat
      BY <2>3, FS_CardinalityType DEF O
    <3>2. IsFiniteSet(Q) /\ Cardinality(Q) <= Cardinality(O) + 1
      <4>1. IsFiniteSet(Q) /\ (Cardinality(Q) = Cardinality(O) \/ Cardinality(Q) = Cardinality(O) + 1)
        BY <3>1, FS_AddElement
      <4> QED
        BY <3>1, <4>1
    <3> HIDE DEF Q
    <3>3. P \subseteq Q
      BY <2>1 DEF P, Q, O
    <3>4. IsFiniteSet(P) /\ Cardinality(P) <= Cardinality(Q) /\ Cardinality(P) \in Nat /\ Cardinality(Q) \in Nat
      BY <3>2, <3>3, FS_Subset, FS_CardinalityType
    <3>5. Cardinality(P) <= Cardinality(O) + 1
      BY <3>1, <3>2, <3>4
    <3> QED
      BY <3>1, <3>4, <3>5 DEF O, P
  <2>5. Cardinality(F) = Cardinality(E) + 1 /\ Cardinality(E) \in Nat
    <3> HIDE DEF E, F, i
    <3>1. IsFiniteSet(E)
      BY <1>3, <2>2, FS_Subset
    <3> QED
      BY <2>2, <3>1, FS_AddElement, FS_CardinalityType
  <2>6. bonus'[r] + Cardinality(Owing(r)') <= Cardinality(F)
    <3> HIDE DEF E, F
    <3> QED
      BY <2>3, <2>4, <2>5
  <2>7. EarnedBy(Referred[r], earn)' = F
    BY DEF EarnedBy
  <2> QED
    BY <1>4, <2>4, <2>6, <2>7 DEF Counted
<1>6. CASE Owner[i] # c
  <2>1. ~ Owes(s, r)
    BY <1>1, <1>2, <1>6 DEF Owes, Referring
  <2>2. Owing(r)' \subseteq Owing(r)
    BY <1>2, <2>1, Becoming DEF s
  <2> QED
    BY <1>3, <1>4, <2>2, CountKept
<1> QED
  BY <1>5, <1>6

LEMMA EarnKeeps == ASSUME PInv, NEW w \in Worker, Earn(w) PROVE PInv'
<1> DEFINE i == Current(w)
           s == OnTo(worker[w], "referrals")
<1>1. worker[w].at = "earn" /\ UNCHANGED <<paid, bonus, spent, referral, request, crashes>>
  BY DEF Earn, At
<1>2. /\ worker[w] \in Work /\ i \in Invoice /\ Owner[i] \in Contact /\ Points[i] \in Nat
      /\ worker[w].batch # <<>> /\ Sound(worker[w], account, bonus)
      /\ worker[w].read \in Nat /\ i = Head(worker[w].batch)
  BY <1>1, Busy
<1>3. CASE NextInvoice(w) /\ UNCHANGED <<account, earn>>
  BY <1>1, <1>3, Passing DEF ledgerVars
<1>4. CASE /\ i \notin earn /\ Credit(Owner[i], Points[i], worker[w].read)
           /\ earn' = earn \union {i} /\ GoTo(w, "referrals")
  <2>1. s \in Work /\ s.at = "referrals" /\ s.batch = worker[w].batch
    BY <1>2, Stepping DEF Steps
  <2>2. Becomes(w, s)
    BY <1>4 DEF GoTo, OnTo
  <2>3. earn \in SUBSET Invoice /\ bonus \in Bonuses /\ Entered(earn, bonus)
        /\ crashes' \in 0..MaxCrashes /\ referral' \in [Referral -> {"absent", "pending", "rewarded"}]
    BY <1>1 DEF PInv, TypeOK, Bonuses
  <2> PICK o \in Contact, p \in Nat, n \in Nat : o = Owner[i] /\ p = Points[i] /\ n = worker[w].read
    BY <1>2
  <2>4. Entered(earn', bonus') /\ Credited(o)' = Credited(o) + p
        /\ \A c \in Contact \ {o} : Credited(c)' = Credited(c)
    <3>1. bonus' = bonus /\ earn' = earn \union {i}
      BY <1>1, <1>4
    <3>2. /\ Entered(earn \union {i}, bonus)
          /\ Total(o, earn \union {i}, bonus) = Total(o, earn, bonus) + p
          /\ \A c \in Contact \ {o} : Total(c, earn \union {i}, bonus) = Total(c, earn, bonus)
      <4> HIDE DEF i
      <4> QED
        BY <1>2, <1>4, <2>3, EarnsMore
    <3> HIDE DEF i
    <3> QED
      BY <3>1, <3>2, CreditedIs
  <2>5. Reads(account, o, n)
    BY <1>1, <1>2 DEF Sound
  <2>6. /\ account' \in Accounts /\ Grown(account, account') /\ BalanceIsLedger' /\ TierIsDeserved'
    <3>1. Credit(o, p, n)
      BY <1>2, <1>4
    <3> QED
      BY <1>1, <2>4, <2>5, <3>1, CreditsLedger
  <2>7. \A r \in Referral : Counted(r)'
    BY <1>1, <1>4, <2>2, EarnCounts
  <2>8. Sound(s, account', bonus')
    BY <1>2, <2>1 DEF Sound, Referring
  <2>9. earn' \in SUBSET Invoice /\ \A r \in Referral : bonus[r] <= bonus'[r]
    BY <1>1, <1>2, <1>4, <2>3 DEF Bonuses
  <2> HIDE DEF s
  <2> QED
    BY <1>1, <2>1, <2>2, <2>3, <2>4, <2>6, <2>7, <2>8, <2>9, WorkerKeeps
<1> QED
  BY <1>3, <1>4 DEF Earn

LEMMA ListPendingKeeps == ASSUME PInv, NEW w \in Worker, ListPending(w) PROVE PInv'
<1> DEFINE R == {r \in Referral : Referred[r] = Owner[Current(w)] /\ referral[r] = "pending"}
           s == OnListing(worker[w], "referrer", R)
<1>1. worker[w].at = "referrals" /\ UNCHANGED <<paid, ledgerVars, referral, request, crashes>>
      /\ crashes' \in 0..MaxCrashes
  BY DEF ListPending, At, PInv, TypeOK
<1>2. worker[w] \in Work /\ worker[w].batch # <<>> /\ Current(w) = Head(worker[w].batch)
  BY <1>1, Busy
<1>3. CASE NextInvoice(w)
  BY <1>1, <1>3, Passing DEF ledgerVars
<1>4. CASE R # {} /\ Becomes(w, s)
  <2>1. R \in SUBSET Referral /\ "referrer" \in Steps
    BY DEF Steps
  <2>2. s \in Work /\ s.at = "referrer" /\ s.batch = worker[w].batch /\ s.pending = R
    <3> HIDE DEF R
    <3> QED
      BY <1>2, <2>1, SteppingOn
  <2> HIDE DEF s
  <2>3. Sound(s, account, bonus)
    BY <1>2, <1>4, <2>2 DEF Sound, Referring
  <2>4. \A r \in Referral : Owes(s, r) => Owes(worker[w], r)
    BY <1>1, <1>2, <2>2 DEF Owes, Referring
  <2> QED
    BY <1>1, <1>4, <2>2, <2>3, <2>4, QuietStep DEF ledgerVars
<1> QED
  BY <1>3, <1>4 DEF ListPending, OnListing

LEMMA GetReferrerKeeps == ASSUME PInv, NEW w \in Worker, GetReferrerAccount(w) PROVE PInv'
<1> DEFINE c == Referrer[InHand(w)]
<1>1. worker[w].at = "referrer" /\ UNCHANGED <<paid, ledgerVars, referral, request, crashes>>
      /\ crashes' \in 0..MaxCrashes
  BY DEF GetReferrerAccount, At, PInv, TypeOK
<1>2. /\ worker[w] \in Work /\ Sound(worker[w], account, bonus) /\ c \in Contact
      /\ InHand(w) = One(worker[w].pending)
  BY <1>1, Busy DEF Referring
<1>3. CASE account[c].open /\ GoReading(w, "bonus", c)
  <2> DEFINE s == OnReading(worker[w], "bonus", account[c].earned)
  <2>1. account[c].earned \in Nat /\ "bonus" \in Steps
    BY <1>2, <1>3, OpenAccount DEF PInv, TypeOK, Steps
  <2>2. /\ s \in Work /\ s.at = "bonus" /\ s.batch = worker[w].batch /\ s.read = account[c].earned
        /\ s.pending = worker[w].pending
    BY <1>2, <2>1, SteppingWith
  <2>3. Becomes(w, s)
    BY <1>3 DEF GoReading, OnReading
  <2> HIDE DEF s
  <2>4. Reads(account, c, s.read)
    BY <1>3, <2>1, <2>2 DEF Reads
  <2>5. Sound(s, account, bonus)
    BY <1>1, <1>2, <2>2, <2>4 DEF Sound, Referring
  <2>6. \A r \in Referral : Owes(s, r) => Owes(worker[w], r)
    BY <1>1, <2>2 DEF Owes, Referring
  <2> QED
    BY <1>1, <2>2, <2>3, <2>5, <2>6, QuietStep DEF ledgerVars
<1>4. CASE ~ account[c].open /\ GoTo(w, "createReferrer")
  <2> DEFINE s == OnTo(worker[w], "createReferrer")
  <2>1. s \in Work /\ s.at = "createReferrer" /\ s.batch = worker[w].batch
        /\ s.pending = worker[w].pending
    BY <1>2, Stepping DEF Steps
  <2>2. Becomes(w, s)
    BY <1>4 DEF GoTo, OnTo
  <2> HIDE DEF s
  <2>3. Sound(s, account, bonus)
    BY <1>1, <1>2, <2>1 DEF Sound, Referring
  <2>4. \A r \in Referral : Owes(s, r) => Owes(worker[w], r)
    BY <1>1, <2>1 DEF Owes, Referring
  <2> QED
    BY <1>1, <2>1, <2>2, <2>3, <2>4, QuietStep DEF ledgerVars
<1> QED
  BY <1>3, <1>4 DEF GetReferrerAccount

\* A bonus paid is one that its worker owes no longer.
LEMMA BonusCounts ==
    ASSUME PInv, NEW w \in Worker, worker[w].at = "bonus", NEW q \in Referral, q = InHand(w),
           bonus' = [bonus EXCEPT ![q] = @ + 1], Becomes(w, OnTo(worker[w], "reward")),
           UNCHANGED <<earn, referral>>, NEW r \in Referral
    PROVE  Counted(r)'
<1> DEFINE s == OnTo(worker[w], "reward")
<1>1. /\ worker[w] \in Work /\ q = One(worker[w].pending) /\ q \in worker[w].pending
  BY Busy DEF Referring
<1>2. s \in Work /\ s.at = "reward" /\ s.batch = worker[w].batch /\ s.pending = worker[w].pending
  BY <1>1, Stepping DEF Steps
<1> HIDE DEF s
<1>3. /\ IsFiniteSet(earn) /\ bonus[r] \in Nat /\ IsFiniteSet(Owing(r))
      /\ bonus[r] + Cardinality(Owing(r)) <= Cardinality(EarnedBy(Referred[r], earn))
      /\ (referral[r] = "rewarded" => bonus[r] > 0)
      /\ bonus \in Bonuses
  BY DEF PInv, Entered, Counted, TypeOK, Bonuses
<1>4. \A x \in Referral : Owes(s, x) => Owes(worker[w], x) /\ x # q
  BY <1>1, <1>2 DEF Owes, Referring
<1>5. CASE r # q
  <2>1. Owing(r)' \subseteq Owing(r)
    BY <1>2, <1>4, Becoming DEF s, Owing
  <2>2. bonus'[r] = bonus[r]
    BY <1>3, <1>5 DEF Bonuses
  <2> QED
    BY <1>3, <2>1, <2>2, CountKept
<1>6. CASE r = q
  <2>1. Owing(r)' = Owing(r) \ {w}
    BY <1>2, <1>4, <1>6, Becoming DEF s
  <2>2. w \in Owing(r)
    BY <1>1, <1>6 DEF Owing, Owes, Referring
  <2>3. bonus'[r] = bonus[r] + 1
    BY <1>3, <1>6 DEF Bonuses
  <2>4. IsFiniteSet(Owing(r)') /\ Cardinality(Owing(r)') = Cardinality(Owing(r)) - 1
        /\ Cardinality(Owing(r)) \in Nat
    BY <1>3, <2>1, <2>2, FS_RemoveElement, FS_CardinalityType
  <2>5. EarnedBy(Referred[r], earn)' = EarnedBy(Referred[r], earn)
    BY DEF EarnedBy
  <2>6. bonus'[r] > 0
    BY <1>3, <2>3
  <2>7. bonus'[r] + Cardinality(Owing(r)') = bonus[r] + Cardinality(Owing(r))
    BY <1>3, <2>3, <2>4
  <2> QED
    BY <1>3, <2>4, <2>5, <2>6, <2>7 DEF Counted
<1> QED
  BY <1>5, <1>6

LEMMA PayBonusKeeps == ASSUME PInv, NEW w \in Worker, PayBonus(w) PROVE PInv'
<1> DEFINE s == OnTo(worker[w], "reward")
<1>1. worker[w].at = "bonus" /\ UNCHANGED <<paid, earn, spent, referral, request, crashes>>
  BY DEF PayBonus, At
<1>2. /\ worker[w] \in Work /\ InHand(w) \in Referral /\ Referrer[InHand(w)] \in Contact
      /\ Bonus[InHand(w)] \in Nat /\ InHand(w) = One(worker[w].pending)
      /\ worker[w].batch # <<>> /\ Sound(worker[w], account, bonus)
      /\ worker[w].read \in Nat /\ InHand(w) \in worker[w].pending
  BY <1>1, Busy DEF Referring
<1>3. PICK q \in Referral, o \in Contact, p \in Nat, n \in Nat :
         q = InHand(w) /\ o = Referrer[q] /\ p = Bonus[q] /\ n = worker[w].read
  BY <1>2
<1>4. Credit(o, p, n) /\ bonus' = [bonus EXCEPT ![q] = @ + 1] /\ Becomes(w, s)
  BY <1>3 DEF PayBonus, GoTo, OnTo
<1>5. s \in Work /\ s.at = "reward" /\ s.batch = worker[w].batch /\ s.pending = worker[w].pending
  BY <1>2, Stepping DEF Steps
<1>6. earn \in SUBSET Invoice /\ bonus \in Bonuses /\ Entered(earn, bonus)
      /\ crashes' \in 0..MaxCrashes /\ referral' \in [Referral -> {"absent", "pending", "rewarded"}]
  BY <1>1 DEF PInv, TypeOK, Bonuses
<1>7. bonus' \in Bonuses /\ bonus'[q] > 0 /\ \A r \in Referral : bonus[r] <= bonus'[r]
  BY <1>4, <1>6 DEF Bonuses
<1>8. /\ Entered(earn', bonus')
      /\ Credited(o)' = Credited(o) + p
      /\ \A c \in Contact \ {o} : Credited(c)' = Credited(c)
  <2>1. /\ Entered(earn, bonus')
        /\ Total(o, earn, bonus') = Total(o, earn, bonus) + p
        /\ \A c \in Contact \ {o} : Total(c, earn, bonus') = Total(c, earn, bonus)
    <3>1. bonus'[q] = bonus[q] + 1 /\ \A x \in Referral \ {q} : bonus'[x] = bonus[x]
      BY <1>4, <1>6 DEF Bonuses
    <3> QED
      BY <1>3, <1>6, <1>7, <3>1, PaysMore
  <2> QED
    BY <1>1, <2>1, CreditedIs
<1>9. Reads(account, o, n)
  BY <1>1, <1>2, <1>3 DEF Sound
<1>10. /\ account' \in Accounts /\ Grown(account, account') /\ BalanceIsLedger' /\ TierIsDeserved'
  BY <1>1, <1>4, <1>8, <1>9, CreditsLedger
<1>11. \A r \in Referral : Counted(r)'
  BY <1>1, <1>3, <1>4, BonusCounts
<1>12. Sound(s, account', bonus')
  BY <1>1, <1>2, <1>3, <1>5, <1>7 DEF Sound, Referring
<1> HIDE DEF s
<1> QED
  BY <1>1, <1>4, <1>5, <1>6, <1>7, <1>8, <1>10, <1>11, <1>12, WorkerKeeps

LEMMA MarkRewardedKeeps == ASSUME PInv, NEW w \in Worker, MarkRewarded(w) PROVE PInv'
<1> DEFINE h == InHand(w)
           R == worker[w].pending \ {h}
           t == OnListing(worker[w], "referrer", R)
<1>1. worker[w].at = "reward" /\ UNCHANGED <<paid, ledgerVars, request, crashes>>
      /\ referral' = [referral EXCEPT ![h] = "rewarded"]
  BY DEF MarkRewarded, At
<1>2. /\ worker[w] \in Work /\ h \in Referral /\ h = One(worker[w].pending)
      /\ worker[w].batch # <<>> /\ Sound(worker[w], account, bonus)
      /\ worker[w].pending \in SUBSET Referral
  BY <1>1, Busy DEF Referring
<1>3. PICK s \in {Poll} \union Work :
         /\ Becomes(w, s)
         /\ Sound(s, account, bonus)
         /\ \A r \in Referral : Owes(s, r) => Owes(worker[w], r)
  <2>1. CASE NextInvoice(w)
    BY <1>1, <2>1, NextOne
  <2>2. CASE R # {} /\ Becomes(w, t)
    <3>1. t \in Work /\ t.at = "referrer" /\ t.batch = worker[w].batch /\ t.pending = R
      <4>1. R \in SUBSET Referral /\ "referrer" \in Steps
        BY <1>2 DEF Steps
      <4> HIDE DEF R
      <4> QED
        BY <1>2, <4>1, SteppingOn
    <3> HIDE DEF t
    <3>2. Sound(t, account, bonus)
      BY <1>1, <1>2, <2>2, <3>1 DEF Sound, Referring
    <3>3. \A r \in Referral : Owes(t, r) => Owes(worker[w], r)
      BY <1>1, <1>2, <3>1 DEF Owes, Referring
    <3> QED
      BY <2>2, <3>1, <3>2, <3>3
  <2> QED
    BY <2>1, <2>2 DEF MarkRewarded, OnListing
<1>4. /\ account \in Accounts /\ bonus \in Bonuses /\ earn \in SUBSET Invoice
      /\ UNCHANGED <<account, bonus, earn, spent>>
  BY <1>1 DEF PInv, TypeOK, Accounts, Bonuses, ledgerVars
<1>5. Grown(account, account') /\ \A r \in Referral : bonus[r] <= bonus'[r]
  <2>1. \A c \in Contact : account[c].open => account[c].earned \in Nat
    BY <1>4, OpenAccount DEF Accounts
  <2> QED
    BY <1>4, <2>1 DEF Grown, Bonuses
<1>6. BalanceIsLedger' /\ TierIsDeserved'
  BY <1>4, CreditedIs DEF PInv, BalanceIsLedger, TierIsDeserved
<1>7. \A r \in Referral : Counted(r)'
  <2> SUFFICES ASSUME NEW r \in Referral PROVE Counted(r)'
    OBVIOUS
  <2>1. Owing(r)' \subseteq Owing(r)
    BY <1>3, Becoming DEF Owing
  <2>2. IsFiniteSet(earn) /\ (referral[r] = "rewarded" => bonus[r] > 0)
    BY DEF PInv, Entered, Counted
  <2>3. bonus[h] > 0
    BY <1>1, <1>2 DEF Sound
  <2>4. referral'[r] = "rewarded" => bonus[r] > 0
    BY <1>1, <1>2, <2>2, <2>3 DEF PInv, TypeOK
  <2> QED
    BY <1>4, <2>1, <2>2, <2>4, CountKept
<1>8. Entered(earn', bonus') /\ referral' \in [Referral -> {"absent", "pending", "rewarded"}]
      /\ crashes' \in 0..MaxCrashes
  BY <1>1, <1>2, <1>4 DEF PInv, Entered, TypeOK
<1>9. Sound(s, account', bonus')
  BY <1>3, <1>4
<1> QED
  BY <1>1, <1>3, <1>4, <1>5, <1>6, <1>7, <1>8, <1>9, WorkerKeeps DEF ledgerVars

LEMMA CrashKeeps == ASSUME PInv, NEW w \in Worker, Crash(w) PROVE PInv'
<1>1. /\ Becomes(w, Poll) /\ UNCHANGED <<paid, ledgerVars, referral, request>>
      /\ crashes' \in 0..MaxCrashes
  BY LoyaltyAssumption DEF Crash, PInv, TypeOK
<1>2. Sound(Poll, account, bonus) /\ \A r \in Referral : ~ Owes(Poll, r)
  BY DEF Poll, Sound, Owes, Referring
<1> QED
  BY <1>1, <1>2, QuietStep DEF ledgerVars

\* A step that touches neither the workers nor what they read nor the entries.
LEMMA OthersKeep ==
    ASSUME PInv, UNCHANGED <<worker, earn, bonus, crashes>>,
           paid' \in Seq(Invoice), account' \in Accounts, Grown(account, account'),
           spent' \in [Contact -> Nat], \A c \in Contact : ~ account'[c].open => spent'[c] = 0,
           referral' \in [Referral -> {"absent", "pending", "rewarded"}],
           \A r \in Referral : referral'[r] = "rewarded" => referral[r] = "rewarded",
           request' \in [Request -> {Rest} \union [at : {"spend"}, by : Contact, points : Reward]],
           \A p \in Request : request'[p] # Rest => account'[request'[p].by].open,
           BalanceIsLedger', TierIsDeserved'
    PROVE  PInv'
<1>1. account \in Accounts /\ bonus \in Bonuses /\ worker \in [Worker -> {Poll} \union Work]
  BY DEF PInv, TypeOK, Accounts, Bonuses, Work
<1>2. \A w \in Worker : Sound(worker[w], account', bonus)
  <2> SUFFICES ASSUME NEW w \in Worker PROVE Sound(worker[w], account', bonus)
    OBVIOUS
  <2>1. Sound(worker[w], account, bonus) /\ worker[w] \in {Poll} \union Work
    BY <1>1 DEF PInv
  <2>2. \A r \in Referral : bonus[r] <= bonus[r]
    BY <1>1 DEF Bonuses
  <2> QED
    BY <1>1, <2>1, <2>2, StaysSound
<1>3. (\A w \in Worker : Sound(worker[w], account, bonus))'
  BY <1>2 DEF Sound, Reads
<1>4. ASSUME NEW r \in Referral PROVE Counted(r)'
  <2>1. Owing(r)' = Owing(r) /\ EarnedBy(Referred[r], earn)' = EarnedBy(Referred[r], earn)
    BY DEF Owing, Owes, EarnedBy
  <2> QED
    BY <2>1 DEF PInv, Counted
<1>5. TypeOK'
  BY DEF PInv, TypeOK, Accounts
<1>6. Entered(earn, bonus)'
  BY DEF PInv, Entered
<1> QED
  BY <1>3, <1>4, <1>5, <1>6 DEF PInv

LEMMA LedgerSame ==
    ASSUME PInv, UNCHANGED ledgerVars
    PROVE  /\ UNCHANGED <<earn, bonus, account, spent>>
           /\ account' \in Accounts /\ Grown(account, account')
           /\ spent' \in [Contact -> Nat] /\ \A c \in Contact : ~ account'[c].open => spent'[c] = 0
           /\ BalanceIsLedger' /\ TierIsDeserved'
<1>1. UNCHANGED <<earn, bonus, account, spent>>
  BY DEF ledgerVars
<1>2. account \in Accounts
  BY DEF PInv, TypeOK, Accounts
<1>3. Grown(account, account')
  <2>1. \A c \in Contact : account[c].open => account[c].earned \in Nat
    BY <1>2, OpenAccount DEF Accounts
  <2> QED
    BY <1>1, <2>1 DEF Grown
<1>4. BalanceIsLedger' /\ TierIsDeserved'
  BY <1>1, CreditedIs DEF PInv, BalanceIsLedger, TierIsDeserved
<1> QED
  BY <1>1, <1>2, <1>3, <1>4 DEF PInv, TypeOK

LEMMA PayInvoiceKeeps == ASSUME PInv, NEW i \in Invoice, PayInvoice(i) PROVE PInv'
<1>1. UNCHANGED <<ledgerVars, referral, worker, request, crashes>> /\ paid' = Append(paid, i)
  BY DEF PayInvoice
<1>2. paid' \in Seq(Invoice) /\ referral \in [Referral -> {"absent", "pending", "rewarded"}]
      /\ request \in [Request -> {Rest} \union [at : {"spend"}, by : Contact, points : Reward]]
      /\ \A p \in Request : request[p] # Rest => account[request[p].by].open
  BY <1>1 DEF PInv, TypeOK
<1>3. UNCHANGED ledgerVars
  BY <1>1
<1> QED
  BY <1>1, <1>2, <1>3, LedgerSame, OthersKeep

LEMMA CreateReferralKeeps == ASSUME PInv, NEW r \in Referral, CreateReferral(r) PROVE PInv'
<1>1. UNCHANGED <<paid, ledgerVars, worker, request, crashes>>
      /\ referral' = [referral EXCEPT ![r] = "pending"]
  BY DEF CreateReferral
<1>2. /\ referral' \in [Referral -> {"absent", "pending", "rewarded"}]
      /\ \A q \in Referral : referral'[q] = "rewarded" => referral[q] = "rewarded"
  BY <1>1 DEF PInv, TypeOK
<1>3. paid \in Seq(Invoice)
      /\ request \in [Request -> {Rest} \union [at : {"spend"}, by : Contact, points : Reward]]
      /\ \A p \in Request : request[p] # Rest => account[request[p].by].open
  BY DEF PInv, TypeOK
<1>4. UNCHANGED ledgerVars
  BY <1>1
<1> QED
  BY <1>1, <1>2, <1>3, <1>4, LedgerSame, OthersKeep

LEMMA RedeemKeeps == ASSUME PInv, NEW p \in Request, Redeem(p) PROVE PInv'
<1>1. PICK c \in Contact, n \in Reward :
         account[c].open /\ request' = [request EXCEPT ![p] = [at |-> "spend", by |-> c, points |-> n]]
  BY DEF Redeem
<1>2. UNCHANGED <<paid, ledgerVars, referral, worker, crashes>>
  BY DEF Redeem
<1>3. request \in [Request -> {Rest} \union [at : {"spend"}, by : Contact, points : Reward]]
      /\ paid \in Seq(Invoice) /\ referral \in [Referral -> {"absent", "pending", "rewarded"}]
      /\ \A q \in Request : request[q] # Rest => account[request[q].by].open
  BY DEF PInv, TypeOK
<1> DEFINE s == [at |-> "spend", by |-> c, points |-> n]
<1>4. s \in [at : {"spend"}, by : Contact, points : Reward] /\ s.by = c
  OBVIOUS
<1>5. request' = [request EXCEPT ![p] = s]
  BY <1>1
<1> HIDE DEF s
<1>6. request' \in [Request -> {Rest} \union [at : {"spend"}, by : Contact, points : Reward]]
      /\ \A q \in Request : request'[q] # Rest => account[request'[q].by].open
  BY <1>1, <1>3, <1>4, <1>5
<1>7. UNCHANGED ledgerVars
  BY <1>2
<1> QED
  BY <1>2, <1>3, <1>6, <1>7, LedgerSame, OthersKeep

LEMMA SpendKeeps == ASSUME PInv, NEW p \in Request, Spend(p) PROVE PInv'
<1> DEFINE R == [at : {"spend"}, by : Contact, points : Reward]
<1>1. UNCHANGED <<paid, earn, bonus, referral, worker, crashes>> /\ request[p] # Rest
      /\ request' = [request EXCEPT ![p] = Rest]
  BY DEF Spend
<1>2. /\ request \in [Request -> {Rest} \union R] /\ paid \in Seq(Invoice)
      /\ referral \in [Referral -> {"absent", "pending", "rewarded"}]
      /\ account \in Accounts /\ spent \in [Contact -> Nat]
      /\ \A q \in Request : request[q] # Rest => account[request[q].by].open
      /\ \A c \in Contact : ~ account[c].open => spent[c] = 0
  BY DEF PInv, TypeOK, Accounts
<1>3. PICK c \in Contact, n \in Nat \ {0} : c = request[p].by /\ n = request[p].points
  BY <1>1, <1>2, LoyaltyAssumption
<1>4. account[c].open /\ account[c] \in Account /\ account[c].balance \in Nat /\ account[c].earned \in Nat
  BY <1>1, <1>2, <1>3, OpenAccount DEF Accounts
<1>5. request' \in [Request -> {Rest} \union R]
  BY <1>1, <1>2
<1>6. CASE UNCHANGED <<account, spent>>
  <2>1. UNCHANGED ledgerVars
    BY <1>1, <1>6 DEF ledgerVars
  <2>2. \A q \in Request : request'[q] # Rest => account[request'[q].by].open
    BY <1>1, <1>2
  <2> QED
    BY <1>1, <1>2, <1>5, <2>1, <2>2, LedgerSame, OthersKeep
<1>7. CASE /\ account[c].balance >= n
           /\ account' = [account EXCEPT ![c].balance = @ - n]
           /\ spent' = [spent EXCEPT ![c] = @ + n]
  <2> DEFINE z == [account[c] EXCEPT !.balance = account[c].balance - n]
  <2>1. account[c].balance - n \in Nat
    BY <1>4, <1>7
  <2>2. z \in Account /\ z.balance = account[c].balance - n /\ z.earned = account[c].earned
        /\ z.tier = account[c].tier
    BY <1>4, <2>1, AccountSet
  <2>3. account' = [account EXCEPT ![c] = z]
    BY <1>7
  <2>4. z.open
    BY <1>4, <2>2 DEF Account
  <2> HIDE DEF z
  <2>5. account'[c] = z /\ account' \in Accounts /\ \A o \in Contact \ {c} : account'[o] = account[o]
    BY <1>2, <2>2, <2>3 DEF Accounts
  <2>6. spent' \in [Contact -> Nat] /\ spent'[c] = spent[c] + n
        /\ \A o \in Contact \ {c} : spent'[o] = spent[o]
    BY <1>2, <1>7
  <2>7. Grown(account, account')
    <3> SUFFICES ASSUME NEW o \in Contact, account[o].open
                 PROVE  account'[o].open /\ account[o].earned <= account'[o].earned
      BY DEF Grown
    <3>1. account[o].earned \in Nat
      BY <1>2, OpenAccount DEF Accounts
    <3>2. account'[o].open /\ account'[o].earned = account[o].earned
      BY <2>2, <2>4, <2>5
    <3> QED
      BY <3>1, <3>2
  <2>8. \A o \in Contact : ~ account'[o].open => spent'[o] = 0
    BY <1>2, <2>4, <2>5, <2>6
  <2>9. BalanceIsLedger'
    <3> SUFFICES ASSUME NEW o \in Contact
                 PROVE  IF account'[o].open
                        THEN account'[o].earned = Credited(o)' /\ account'[o].balance + spent'[o] = Credited(o)'
                        ELSE Credited(o)' = 0
      BY DEF BalanceIsLedger
    <3>1. Credited(o)' = Credited(o)
      BY <1>1, CreditedIs
    <3>2. CASE o = c
      <4>1. account[c].earned = Credited(c) /\ account[c].balance + spent[c] = Credited(c)
        BY <1>4 DEF PInv, BalanceIsLedger
      <4>2. (account[c].balance - n) + (spent[c] + n) = account[c].balance + spent[c]
        BY <1>2, <1>4
      <4> QED
        BY <2>2, <2>4, <2>5, <2>6, <3>1, <3>2, <4>1, <4>2
    <3>3. CASE o # c
      BY <2>5, <2>6, <3>1, <3>3 DEF PInv, BalanceIsLedger
    <3> QED
      BY <3>2, <3>3
  <2>10. TierIsDeserved'
    BY <1>4, <2>2, <2>5 DEF PInv, TierIsDeserved
  <2>11. \A q \in Request : request'[q] # Rest => account'[request'[q].by].open
    BY <1>1, <1>2, <2>7 DEF Grown
  <2>12. UNCHANGED <<worker, earn, bonus, crashes>> /\ paid' \in Seq(Invoice)
         /\ referral' \in [Referral -> {"absent", "pending", "rewarded"}]
         /\ \A r \in Referral : referral'[r] = "rewarded" => referral[r] = "rewarded"
    BY <1>1, <1>2
  <2> QED
    BY <1>5, <2>5, <2>6, <2>7, <2>8, <2>9, <2>10, <2>11, <2>12, OthersKeep
<1> QED
  BY <1>3, <1>6, <1>7 DEF Spend

LEMMA PInit == Init => PInv
<1> SUFFICES ASSUME Init PROVE PInv
  OBVIOUS
<1>1. TypeOK
  <2>1. 0 \in 0..MaxCrashes
    BY LoyaltyAssumption
  <2>2. <<>> \in Seq(Invoice)
    OBVIOUS
  <2> QED
    BY <2>1, <2>2 DEF Init, TypeOK
<1>2. \A w \in Worker : worker[w] = Poll
  BY DEF Init
<1>3. \A w \in Worker : Sound(worker[w], account, bonus)
  BY <1>2 DEF Sound, Poll
<1>4. \A c \in Contact : ~ account[c].open /\ spent[c] = 0
  BY DEF Init, NoAccount
<1>5. \A p \in Request : request[p] = Rest
  BY DEF Init
<1>6. Entered(earn, bonus) /\ earn = {} /\ \A r \in Referral : bonus[r] = 0
  <2>1. earn = {} /\ \A r \in Referral : bonus[r] = 0
    BY DEF Init
  <2>2. {r \in Referral : bonus[r] > 0} = {}
    BY <2>1
  <2> QED
    BY <2>1, <2>2, FS_EmptySet DEF Entered
<1>7. \A c \in Contact : Credited(c) = 0
  <2> SUFFICES ASSUME NEW c \in Contact PROVE Credited(c) = 0
    OBVIOUS
  <2>1. EarnedBy(c, earn) = {} /\ PaidTo(c, bonus) = {}
    BY <1>6 DEF EarnedBy, PaidTo
  <2>2. Total(c, earn, bonus) = 0
    BY <2>1, SumEmpty DEF Total
  <2> QED
    BY <2>2, CreditedIs
<1>8. BalanceIsLedger /\ TierIsDeserved
  BY <1>4, <1>7 DEF BalanceIsLedger, TierIsDeserved
<1>9. \A r \in Referral : Counted(r)
  <2> SUFFICES ASSUME NEW r \in Referral PROVE Counted(r)
    OBVIOUS
  <2>1. Owing(r) = {}
    BY <1>2 DEF Owing, Owes, Poll, Referring
  <2>2. EarnedBy(Referred[r], earn) = {}
    BY <1>6 DEF EarnedBy
  <2>3. referral[r] # "rewarded" /\ bonus[r] = 0
    BY DEF Init
  <2> QED
    BY <2>1, <2>2, <2>3, FS_EmptySet DEF Counted
<1> QED
  BY <1>1, <1>3, <1>4, <1>5, <1>6, <1>8, <1>9 DEF PInv

LEMMA PStutters == ASSUME PInv, UNCHANGED vars PROVE PInv'
<1>1. UNCHANGED <<paid, ledgerVars, referral, worker, request, crashes>>
  BY DEF vars
<1>2. /\ request \in [Request -> {Rest} \union [at : {"spend"}, by : Contact, points : Reward]]
      /\ paid \in Seq(Invoice) /\ referral \in [Referral -> {"absent", "pending", "rewarded"}]
      /\ \A q \in Request : request[q] # Rest => account[request[q].by].open
  BY DEF PInv, TypeOK
<1> QED
  BY <1>1, <1>2, LedgerSame, OthersKeep

LEMMA PNext == PInv /\ [Next]_vars => PInv'
<1> SUFFICES ASSUME PInv, [Next]_vars PROVE PInv'
  OBVIOUS
<1>1. ASSUME NEW i \in Invoice, PayInvoice(i) PROVE PInv'
  BY <1>1, PayInvoiceKeeps
<1>2. ASSUME NEW r \in Referral, CreateReferral(r) PROVE PInv'
  BY <1>2, CreateReferralKeeps
<1>3. ASSUME NEW w \in Worker, WorkerStep(w) PROVE PInv'
  <2>1. CASE ListUnearned(w)
    BY <2>1, ListUnearnedKeeps
  <2>2. CASE GetAccount(w)
    BY <2>2, GetAccountKeeps
  <2>3. CASE CreateAccount(w)
    BY <2>3, CreateAccountKeeps
  <2>4. CASE Earn(w)
    BY <2>4, EarnKeeps
  <2>5. CASE ListPending(w)
    BY <2>5, ListPendingKeeps
  <2>6. CASE GetReferrerAccount(w)
    BY <2>6, GetReferrerKeeps
  <2>7. CASE CreateReferrerAccount(w)
    BY <2>7, CreateReferrerKeeps
  <2>8. CASE PayBonus(w)
    BY <2>8, PayBonusKeeps
  <2>9. CASE MarkRewarded(w)
    BY <2>9, MarkRewardedKeeps
  <2> QED
    BY <1>3, <2>1, <2>2, <2>3, <2>4, <2>5, <2>6, <2>7, <2>8, <2>9 DEF WorkerStep
<1>4. ASSUME NEW w \in Worker, Crash(w) PROVE PInv'
  BY <1>4, CrashKeeps
<1>5. ASSUME NEW p \in Request, Redeem(p) PROVE PInv'
  BY <1>5, RedeemKeeps
<1>6. ASSUME NEW p \in Request, Spend(p) PROVE PInv'
  BY <1>6, SpendKeeps
<1>7. CASE UNCHANGED vars
  BY <1>7, PStutters
<1> QED
  BY <1>1, <1>2, <1>3, <1>4, <1>5, <1>6, <1>7 DEF Next

LEMMA PInvariant == Spec => []PInv
<1> QED
  BY PInit, PNext, PTL DEF Spec

\* Accounts, ledger, referrals, workers and requests have their types: balances and
\* totals are natural numbers, and a busy worker holds invoices and referrals.
THEOREM LoyaltyTypeCorrect == Spec => []TypeOK
<1>1. PInv => TypeOK
  BY DEF PInv
<1> QED
  BY <1>1, PInvariant, PTL

\* For any number of customers, invoices, workers, crashes and redemptions, an
\* account's points are the sum of its ledger's entries (applyPoints).
THEOREM BalanceRight == Spec => []BalanceIsLedger
<1>1. PInv => BalanceIsLedger
  BY DEF PInv
<1> QED
  BY <1>1, PInvariant, PTL

\* However workers overlap and crash in processEarnings, no referral is rewarded
\* without its bonus, and none gets more bonuses than the referred contact earned on.
THEOREM BonusesAreCounted == Spec => []BonusPerEarning
<1>1. PInv => BonusPerEarning
  <2> SUFFICES ASSUME PInv, NEW r \in Referral
               PROVE  /\ referral[r] = "rewarded" => bonus[r] > 0
                      /\ bonus[r] <= Cardinality({i \in earn : Owner[i] = Referred[r]})
    BY DEF BonusPerEarning
  <2>1. Counted(r) /\ bonus[r] \in Nat /\ IsFiniteSet(earn)
    BY DEF PInv, TypeOK, Entered
  <2> DEFINE E == EarnedBy(Referred[r], earn)
  <2>2. IsFiniteSet(E)
    BY <2>1, FS_Subset DEF EarnedBy
  <2>3. Cardinality(Owing(r)) \in Nat /\ Cardinality(E) \in Nat
        /\ bonus[r] + Cardinality(Owing(r)) <= Cardinality(E)
    BY <2>1, <2>2, FS_CardinalityType DEF Counted
  <2>4. bonus[r] <= Cardinality(E)
    <3> HIDE DEF E
    <3> QED
      BY <2>1, <2>3
  <2> QED
    BY <2>1, <2>4 DEF Counted, EarnedBy
<1> QED
  BY <1>1, PInvariant, PTL

\* Whatever total a worker computed a tier from, no account has a tier its lifetime
\* points do not deserve (tierFor).
THEOREM TiersAreDeserved == Spec => []TierIsDeserved
<1>1. PInv => TierIsDeserved
  BY DEF PInv
<1> QED
  BY <1>1, PInvariant, PTL
================================================================================

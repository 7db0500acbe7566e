----------------------------- MODULE WorkflowProofs ----------------------------
(***************************************************************************)
(* What holds of a workflow's versions and runs, for graphs of any size    *)
(* and any number of requests and workers.                                 *)
(***************************************************************************)
EXTENDS WorkflowRuns, FiniteSetTheorems, NaturalsInduction, WellFoundedInduction, TLAPS

(* Induction over the natural numbers, on a set rather than a predicate.          *)

NatLess == {ss \in Nat \X Nat : ss[1] < ss[2]}

LEMMA LessWellFounded == IsWellFoundedOn(NatLess, Nat)
  BY NatLessThanWellFounded DEF OpToRel, NatLess

LEMMA NatSet ==
    ASSUME NEW T \in SUBSET Nat, 0 \in T, \A n \in T : n + 1 \in T
    PROVE  T = Nat
<1> SUFFICES ASSUME T # Nat PROVE FALSE
  OBVIOUS
<1> DEFINE U == Nat \ T
<1>1. U # {} /\ U \subseteq Nat
  OBVIOUS
<1>2. PICK x \in U : \A y \in U : ~ (<<y, x>> \in NatLess)
  BY <1>1, WFMin, LessWellFounded
<1>3. x - 1 \in Nat /\ x - 1 < x
  BY DEF U
<1>4. <<x - 1, x>> \in NatLess
  BY <1>3 DEF NatLess
<1>5. x - 1 \in T
  BY <1>2, <1>3, <1>4
<1> QED
  BY <1>5, <1>1

-------------------------------------------------------------------------------
(* The walk of a segment.  Walks(f, g, x, A): f follows the walk's equation for   *)
(* the sets of visited nodes in A, which has with a set the sets the walk goes to. *)

Walks(f, g, x, A) ==
    f = [seen \in A |->
            [n \in Node \union {None} |->
                IF n = None \/ n \in seen THEN <<>>
                ELSE IF g.kind[n] = "delay" THEN <<n>>
                ELSE <<n>> \o f[seen \union {n}][NextOf(g, x, n)]]]

Left(seen) == Cardinality(Node \ seen)

LEMMA LeftType ==
    ASSUME NEW seen \in SUBSET Node
    PROVE  /\ Left(seen) \in Nat /\ Left(seen) <= Cardinality(Node) /\ Cardinality(Node) \in Nat
           /\ \A n \in Node \ seen : seen \union {n} \in SUBSET Node /\ Left(seen \union {n}) = Left(seen) - 1
           /\ Left(seen) = 0 => seen = Node
<1>1. IsFiniteSet(Node) /\ IsFiniteSet(Node \ seen)
  BY WorkflowAssumption, FS_Subset
<1>2. Left(seen) \in Nat /\ Left(seen) <= Cardinality(Node) /\ Cardinality(Node) \in Nat
  BY <1>1, FS_Subset, FS_CardinalityType DEF Left
<1>3. ASSUME NEW n \in Node \ seen
      PROVE  seen \union {n} \in SUBSET Node /\ Left(seen \union {n}) = Left(seen) - 1
  <2>1. Node \ (seen \union {n}) = (Node \ seen) \ {n}
    OBVIOUS
  <2> DEFINE S == Node \ seen
  <2>2. Cardinality(S \ {n}) = Cardinality(S) - 1
    BY <1>1, <1>3, FS_RemoveElement
  <2> QED
    BY <1>3, <2>1, <2>2 DEF Left
<1>4. Left(seen) = 0 => seen = Node
  <2>1. Left(seen) = 0 => Node \ seen = {}
    BY <1>1, FS_EmptySet DEF Left
  <2> QED
    BY <2>1
<1> QED
  BY <1>2, <1>3, <1>4

\* Every next node is a node or none.
Fits(g, x) == \A n \in Node : NextOf(g, x, n) \in Node \union {None}

LEMMA GraphFits ==
    ASSUME NEW g \in Draft, NEW x \in Context
    PROVE  Fits(g, x)
  BY WorkflowAssumption DEF Fits, NextOf

\* There is a walk: from the sets that leave few nodes to all of them.
LEMMA WalkExists ==
    ASSUME NEW g, NEW x
    PROVE  \E f : Walks(f, g, x, SUBSET Node)
<1> DEFINE A(k) == {seen \in SUBSET Node : Left(seen) <= k}
           T == {k \in Nat : \E f : Walks(f, g, x, A(k))}
           Goes(f, seen) == [n \in Node \union {None} |->
                                IF n = None \/ n \in seen THEN <<>>
                                ELSE IF g.kind[n] = "delay" THEN <<n>>
                                ELSE <<n>> \o f[seen \union {n}][NextOf(g, x, n)]]
<1>1. 0 \in T
  <2> DEFINE f == [seen \in A(0) |-> [n \in Node \union {None} |-> <<>>]]
  <2>1. \A seen \in A(0) : seen = Node
    BY LeftType
  <2>2. \A seen \in A(0) : Goes(f, seen) = [n \in Node \union {None} |-> <<>>]
    BY <2>1
  <2>3. Walks(f, g, x, A(0))
    BY <2>2 DEF Walks
  <2> QED
    BY <2>3
<1>2. ASSUME NEW k \in T PROVE k + 1 \in T
  <2>1. PICK f : Walks(f, g, x, A(k))
    BY <1>2
  <2> DEFINE h == [seen \in A(k + 1) |-> Goes(f, seen)]
  <2>2. ASSUME NEW seen \in A(k + 1), NEW n \in Node \ seen
        PROVE  seen \union {n} \in A(k) /\ seen \union {n} \in A(k + 1)
    <3>1. seen \union {n} \in SUBSET Node /\ Left(seen \union {n}) = Left(seen) - 1 /\ Left(seen) \in Nat
      BY <2>2, LeftType
    <3> QED
      BY <3>1
  <2>3. \A seen \in A(k) : seen \in A(k + 1) /\ h[seen] = f[seen]
    <3> TAKE seen \in A(k)
    <3>1. seen \in A(k + 1)
      BY LeftType
    <3>2. f[seen] = Goes(f, seen)
      BY <2>1 DEF Walks
    <3> QED
      BY <3>1, <3>2
  <2>4. \A seen \in A(k + 1) : Goes(f, seen) = Goes(h, seen)
    <3> TAKE seen \in A(k + 1)
    <3>1. \A n \in Node \ seen : h[seen \union {n}] = f[seen \union {n}]
      BY <2>2, <2>3
    <3> HIDE DEF h
    <3> QED
      BY <3>1
  <2>5. Walks(h, g, x, A(k + 1))
    BY <2>4 DEF Walks
  <2>6. k + 1 \in Nat
    BY <1>2
  <2> HIDE DEF h, A
  <2> QED
    BY <2>5, <2>6
<1>3. T = Nat
  <2> HIDE DEF T
  <2>1. T \in SUBSET Nat
    BY DEF T
  <2> QED
    BY <1>1, <1>2, <2>1, NatSet
<1>4. A(Cardinality(Node)) = SUBSET Node /\ Cardinality(Node) \in Nat
  BY LeftType
<1>5. Cardinality(Node) \in T
  <2> HIDE DEF T
  <2> QED
    BY <1>3, <1>4
<1> QED
  BY <1>4, <1>5

LEMMA TraceWalks ==
    ASSUME NEW g, NEW x
    PROVE  \E f : Walks(f, g, x, SUBSET Node) /\ \A start : Trace(g, x, start) = f[{}][start]
<1> DEFINE c == CHOOSE f : Walks(f, g, x, SUBSET Node)
<1>1. Walks(c, g, x, SUBSET Node)
  BY WalkExists
<1>2. \A start : Trace(g, x, start) = c[{}][start]
  BY DEF Trace, Walks
<1> QED
  BY <1>1, <1>2

\* A walk from n that avoids seen is a path of the graph: it starts at n, each node is
\* the next of the one before, none but the last is a delay, and it ends at a delay,
\* at the end of the graph, or where it goes to a node that was visited.
IsPath(s, g, x, n, seen) ==
    /\ s \in Seq(Node)
    /\ n = None \/ n \in seen => s = <<>>
    /\ n \notin seen \union {None} =>
          /\ s # <<>> /\ s[1] = n
          /\ \A i \in 1..(Len(s) - 1) :
                s[i + 1] = NextOf(g, x, s[i]) /\ g.kind[s[i]] # "delay"
          /\ \/ g.kind[s[Len(s)]] = "delay"
             \/ NextOf(g, x, s[Len(s)]) \in {None} \union seen \union {s[i] : i \in DOMAIN s}

\* One node more in front.
LEMMA PathGrows ==
    ASSUME NEW g, NEW x, NEW seen \in SUBSET Node, NEW n \in Node \ seen,
           g.kind[n] # "delay", NextOf(g, x, n) \in Node \union {None},
           NEW s, IsPath(s, g, x, NextOf(g, x, n), seen \union {n})
    PROVE  IsPath(<<n>> \o s, g, x, n, seen)
<1> DEFINE t == <<n>> \o s
           m == NextOf(g, x, n)
<1>1. s \in Seq(Node) /\ t \in Seq(Node) /\ Len(t) = Len(s) + 1 /\ t[1] = n /\ t # <<>>
      /\ Len(s) \in Nat /\ \A i \in 1..Len(s) : t[i + 1] = s[i]
  BY DEF IsPath
<1>2. n # None
  BY WorkflowAssumption
<1> HIDE DEF t
<1>3. CASE m = None \/ m \in seen \union {n}
  <2>1. s = <<>>
    BY <1>3 DEF IsPath
  <2>2. Len(t) = 1
    BY <1>1, <2>1
  <2>3. t[Len(t)] = n /\ n \in {t[i] : i \in DOMAIN t}
    BY <1>1, <2>2
  <2>4. NextOf(g, x, t[Len(t)]) \in {None} \union seen \union {t[i] : i \in DOMAIN t}
    BY <1>3, <2>3
  <2>5. \A i \in 1..(Len(t) - 1) : FALSE
    BY <2>2
  <2>6. IsPath(t, g, x, n, seen)
    BY <1>1, <1>2, <2>4, <2>5 DEF IsPath
  <2> QED
    BY <2>6 DEF t
<1>4. CASE m \notin (seen \union {n}) \union {None}
  <2>1. /\ s # <<>> /\ s[1] = m
        /\ \A i \in 1..(Len(s) - 1) :
              s[i + 1] = NextOf(g, x, s[i]) /\ g.kind[s[i]] # "delay"
        /\ \/ g.kind[s[Len(s)]] = "delay"
           \/ NextOf(g, x, s[Len(s)]) \in {None} \union (seen \union {n}) \union {s[i] : i \in DOMAIN s}
    BY <1>4 DEF IsPath
  <2>2. Len(s) >= 1 /\ t[Len(t)] = s[Len(s)]
    BY <1>1, <2>1
  <2>3. ASSUME NEW i \in 1..(Len(t) - 1)
        PROVE  t[i + 1] = NextOf(g, x, t[i]) /\ g.kind[t[i]] # "delay"
    <3>1. CASE i = 1
      BY <1>1, <2>1, <2>2, <3>1
    <3>2. CASE i # 1
      <4>1. i - 1 \in 1..(Len(s) - 1) /\ i - 1 \in 1..Len(s) /\ i \in 1..Len(s)
        BY <1>1, <3>2
      <4>2. t[i + 1] = s[i] /\ t[i] = s[i - 1]
        <5>1. (i - 1) + 1 = i
          OBVIOUS
        <5> QED
          BY <1>1, <4>1, <5>1
      <4>3. s[(i - 1) + 1] = NextOf(g, x, s[i - 1]) /\ (i - 1) + 1 = i /\ g.kind[s[i - 1]] # "delay"
        BY <2>1, <4>1
      <4> QED
        BY <4>2, <4>3
    <3> QED
      BY <3>1, <3>2
  <2>4. {n} \union {s[i] : i \in DOMAIN s} \subseteq {t[i] : i \in DOMAIN t}
    <3>1. n \in {t[i] : i \in DOMAIN t}
      BY <1>1
    <3>2. ASSUME NEW i \in DOMAIN s PROVE s[i] \in {t[j] : j \in DOMAIN t}
      <4>1. i \in 1..Len(s) /\ i + 1 \in DOMAIN t /\ t[i + 1] = s[i]
        BY <1>1
      <4> QED
        BY <4>1
    <3> QED
      BY <3>1, <3>2
  <2>5. \/ g.kind[t[Len(t)]] = "delay"
        \/ NextOf(g, x, t[Len(t)]) \in {None} \union seen \union {t[i] : i \in DOMAIN t}
    BY <2>1, <2>2, <2>4
  <2>6. IsPath(t, g, x, n, seen)
    BY <1>1, <1>2, <2>3, <2>5 DEF IsPath
  <2> QED
    BY <2>6 DEF t
<1> QED
  BY <1>3, <1>4 DEF t

LEMMA WalkIsPath ==
    ASSUME NEW g, NEW x, Fits(g, x), NEW f, Walks(f, g, x, SUBSET Node),
           NEW seen \in SUBSET Node, NEW n \in Node \union {None}
    PROVE  IsPath(f[seen][n], g, x, n, seen)
<1> DEFINE P(k) == \A e \in SUBSET Node : Left(e) = k =>
                      \A m \in Node \union {None} : IsPath(f[e][m], g, x, m, e)
           T == {k \in Nat : P(k)}
<1>0. \A e \in SUBSET Node : \A m \in Node \union {None} :
         f[e][m] = IF m = None \/ m \in e THEN <<>>
                   ELSE IF g.kind[m] = "delay" THEN <<m>>
                   ELSE <<m>> \o f[e \union {m}][NextOf(g, x, m)]
  <2> TAKE e \in SUBSET Node
  <2>1. f[e] = [m \in Node \union {None} |->
                   IF m = None \/ m \in e THEN <<>>
                   ELSE IF g.kind[m] = "delay" THEN <<m>>
                   ELSE <<m>> \o f[e \union {m}][NextOf(g, x, m)]]
    BY DEF Walks
  <2> QED
    BY <2>1
<1>1. ASSUME NEW e \in SUBSET Node, NEW m \in {None} \union e PROVE IsPath(f[e][m], g, x, m, e)
  <2>1. f[e][m] = <<>>
    BY <1>0
  <2>2. <<>> \in Seq(Node)
    OBVIOUS
  <2>3. m = None \/ m \in e
    OBVIOUS
  <2> QED
    BY <2>1, <2>2, <2>3 DEF IsPath
<1>2. 0 \in T
  <2>1. \A e \in SUBSET Node : Left(e) = 0 => e = Node
    BY LeftType
  <2>2. P(0)
    BY <1>1, <2>1
  <2> QED
    BY <2>2
<1>3. ASSUME NEW k \in T PROVE k + 1 \in T
  <2> SUFFICES ASSUME NEW e \in SUBSET Node, Left(e) = k + 1, NEW m \in Node \union {None}
               PROVE  IsPath(f[e][m], g, x, m, e)
    OBVIOUS
  <2>1. CASE m = None \/ m \in e
    BY <1>1, <2>1
  <2>2. CASE m \in Node \ e /\ g.kind[m] = "delay"
    <3>1. f[e][m] = <<m>>
      BY <1>0, <2>2, WorkflowAssumption
    <3> DEFINE s == <<m>>
    <3>2. s \in Seq(Node) /\ s # <<>> /\ s[1] = m /\ Len(s) = 1
      BY <2>2
    <3>3. \A i \in 1..(Len(s) - 1) : FALSE
      BY <3>2
    <3>4. g.kind[s[Len(s)]] = "delay"
      BY <2>2, <3>2
    <3> HIDE DEF s
    <3>5. IsPath(s, g, x, m, e)
      BY <2>2, <3>2, <3>3, <3>4, WorkflowAssumption DEF IsPath
    <3> QED
      BY <3>1, <3>5 DEF s
  <2>3. CASE m \in Node \ e /\ g.kind[m] # "delay"
    <3>1. f[e][m] = <<m>> \o f[e \union {m}][NextOf(g, x, m)]
      BY <1>0, <2>3, WorkflowAssumption
    <3>2. e \union {m} \in SUBSET Node /\ Left(e \union {m}) = k
      <4>1. e \union {m} \in SUBSET Node /\ Left(e \union {m}) = Left(e) - 1
        BY <2>3, LeftType
      <4>2. k \in Nat
        BY <1>3
      <4> QED
        BY <4>1, <4>2
    <3>3. NextOf(g, x, m) \in Node \union {None}
      BY <2>3 DEF Fits
    <3>4. IsPath(f[e \union {m}][NextOf(g, x, m)], g, x, NextOf(g, x, m), e \union {m})
      BY <1>3, <3>2, <3>3
    <3> DEFINE s == f[e \union {m}][NextOf(g, x, m)]
    <3> HIDE DEF s
    <3>5. IsPath(<<m>> \o s, g, x, m, e)
      BY <2>3, <3>3, <3>4, PathGrows DEF s
    <3> QED
      BY <3>1, <3>5 DEF s
  <2> QED
    BY <2>1, <2>2, <2>3
<1>4. T = Nat
  <2> HIDE DEF T
  <2>1. T \in SUBSET Nat
    BY DEF T
  <2> QED
    BY <1>2, <1>3, <2>1, NatSet
<1>5. Left(seen) \in T
  <2>1. Left(seen) \in Nat
    BY LeftType
  <2> HIDE DEF T
  <2> QED
    BY <1>4, <2>1
<1> QED
  BY <1>5

\* What a segment executes.
LEMMA TraceIsPath ==
    ASSUME NEW g, NEW x, Fits(g, x), NEW start \in Node
    PROVE  IsPath(Trace(g, x, start), g, x, start, {})
<1>1. PICK f : Walks(f, g, x, SUBSET Node) /\ \A n : Trace(g, x, n) = f[{}][n]
  BY TraceWalks
<1>2. IsPath(f[{}][start], g, x, start, {})
  BY <1>1, WalkIsPath
<1> QED
  BY <1>1, <1>2

\* On every graph a version may have, valid or not, a segment is finite and a path: it
\* starts where it is told to, follows the branches that the variables choose, goes
\* through no delay, and ends at one, at the end, or where it would come back to itself
\* (traceExecutionSegment).
THEOREM SegmentIsAPath ==
    \A g \in Draft, x \in Context, start \in Node :
        IsPath(Trace(g, x, start), g, x, start, {})
  BY GraphFits, TraceIsPath

-------------------------------------------------------------------------------
(* The step rows of a segment, and of segments put together.                      *)

StepRow == [node : Node, status : {"pending", "running", "succeeded", "failed"}]
End(rows) == rows[Len(rows)]
NodesOf(rows) == {rows[i].node : i \in DOMAIN rows}

\* Rows that go on from one node to the next, all but the last of them over.
Chained(rows, g, x) ==
    \A i \in 1..(Len(rows) - 1) :
        rows[i + 1].node = NextOf(g, x, rows[i].node) /\ rows[i].status = "succeeded"

\* What StepsFollowPath says of the rows of one run.
PathOK(rows, g, x) ==
    rows # <<>> =>
        /\ rows[1].node = Trigger(g)
        /\ Chained(rows, g, x)
        /\ End(rows).status # "succeeded" => g.kind[End(rows).node] = "delay"

\* Everything was executed.
Whole(rows, g, x) ==
    /\ rows # <<>> /\ End(rows).status = "succeeded"
    /\ NextOf(g, x, End(rows).node) \in {None} \union NodesOf(rows)

LEMMA Segment ==
    ASSUME NEW g, NEW x, Fits(g, x), NEW start \in Node,
           NEW nodes, nodes = Trace(g, x, start), NEW rows, rows = StepRows(g, nodes)
    PROVE  /\ rows \in Seq(StepRow) /\ rows # <<>> /\ rows[1].node = start
           /\ Chained(rows, g, x)
           /\ HasDelay(g, nodes) =>
                End(rows).status = "pending" /\ g.kind[End(rows).node] = "delay"
           /\ ~ HasDelay(g, nodes) => Whole(rows, g, x)
<1>1. IsPath(nodes, g, x, start, {}) /\ start # None
  BY TraceIsPath, WorkflowAssumption
<1>2. /\ nodes \in Seq(Node) /\ nodes # <<>> /\ nodes[1] = start
      /\ \A i \in 1..(Len(nodes) - 1) :
            nodes[i + 1] = NextOf(g, x, nodes[i]) /\ g.kind[nodes[i]] # "delay"
      /\ \/ g.kind[nodes[Len(nodes)]] = "delay"
         \/ NextOf(g, x, nodes[Len(nodes)]) \in {None} \union {nodes[i] : i \in DOMAIN nodes}
  BY <1>1 DEF IsPath
<1>3. Len(nodes) \in Nat \ {0} /\ DOMAIN nodes = 1..Len(nodes) /\ \A i \in 1..Len(nodes) : nodes[i] \in Node
  BY <1>2
<1> DEFINE Row(i) == [node |-> nodes[i],
                      status |-> IF g.kind[nodes[i]] = "delay" THEN "pending" ELSE "succeeded"]
<1>4. \A i \in 1..Len(nodes) :
         /\ Row(i) \in StepRow /\ Row(i).node = nodes[i]
         /\ g.kind[nodes[i]] = "delay" => Row(i).status = "pending"
         /\ g.kind[nodes[i]] # "delay" => Row(i).status = "succeeded"
  BY <1>3 DEF StepRow
<1>5. rows = [i \in 1..Len(nodes) |-> Row(i)]
  BY <1>3 DEF StepRows
<1> HIDE DEF Row
<1>6. rows \in Seq(StepRow) /\ Len(rows) = Len(nodes) /\ rows # <<>>
      /\ \A i \in 1..Len(nodes) : rows[i] = Row(i)
  BY <1>3, <1>4, <1>5
<1>7. rows[1].node = start
  BY <1>2, <1>3, <1>4, <1>6
<1>8. Chained(rows, g, x)
  <2> SUFFICES ASSUME NEW i \in 1..(Len(nodes) - 1)
               PROVE  rows[i + 1].node = NextOf(g, x, rows[i].node) /\ rows[i].status = "succeeded"
    BY <1>6 DEF Chained
  <2>1. i \in 1..Len(nodes) /\ i + 1 \in 1..Len(nodes)
    BY <1>3
  <2> QED
    BY <1>2, <1>4, <1>6, <2>1
<1>9. End(rows) = Row(Len(nodes)) /\ Len(nodes) \in 1..Len(nodes)
  BY <1>3, <1>6 DEF End
<1>10. HasDelay(g, nodes) <=> g.kind[nodes[Len(nodes)]] = "delay"
  <2>1. ASSUME NEW i \in DOMAIN nodes, g.kind[nodes[i]] = "delay" PROVE i = Len(nodes)
    <3>1. i \in 1..Len(nodes) /\ i \notin 1..(Len(nodes) - 1)
      BY <1>2, <1>3, <2>1
    <3> QED
      BY <1>3, <3>1
  <2> QED
    BY <1>3, <1>9, <2>1 DEF HasDelay
<1>11. ASSUME ~ HasDelay(g, nodes) PROVE Whole(rows, g, x)
  <2>1. \A i \in DOMAIN nodes : nodes[i] \in NodesOf(rows)
    <3> TAKE i \in DOMAIN nodes
    <3>1. i \in DOMAIN rows /\ rows[i].node = nodes[i]
      BY <1>3, <1>4, <1>6
    <3> QED
      BY <3>1 DEF NodesOf
  <2>2. NextOf(g, x, nodes[Len(nodes)]) \in {None} \union {nodes[i] : i \in DOMAIN nodes}
    BY <1>2, <1>10, <1>11
  <2>3. End(rows).node = nodes[Len(nodes)] /\ End(rows).status = "succeeded"
    BY <1>4, <1>9, <1>10, <1>11
  <2> QED
    BY <1>6, <2>1, <2>2, <2>3 DEF Whole
<1> QED
  BY <1>4, <1>6, <1>7, <1>8, <1>9, <1>10, <1>11

\* A segment behind rows that are over and lead to its first node.
Behind(old, rows) == old \o rows

LEMMA Joined ==
    ASSUME NEW g, NEW x, NEW old \in Seq(StepRow), old # <<>>, PathOK(old, g, x),
           End(old).status = "succeeded",
           NEW rows \in Seq(StepRow), rows # <<>>, rows[1].node = NextOf(g, x, End(old).node),
           Chained(rows, g, x),
           End(rows).status # "succeeded" => g.kind[End(rows).node] = "delay",
           NEW all, all = Behind(old, rows)
    PROVE  /\ all \in Seq(StepRow) /\ Len(all) >= Len(old) /\ Len(old) \in 1..Len(all)
           /\ PathOK(all, g, x) /\ End(all) = End(rows)
           /\ Whole(rows, g, x) => Whole(all, g, x)
           /\ \A i \in 1..Len(old) : all[i] = old[i]
<1>1. /\ all \in Seq(StepRow) /\ Len(old) \in Nat \ {0} /\ Len(rows) \in Nat \ {0}
      /\ Len(all) = Len(old) + Len(rows)
      /\ \A i \in 1..Len(old) : all[i] = old[i]
      /\ \A i \in 1..Len(rows) : all[Len(old) + i] = rows[i]
  <2>1. Len(old) \in Nat \ {0} /\ Len(rows) \in Nat \ {0}
    OBVIOUS
  <2>2. all \in Seq(StepRow) /\ Len(all) = Len(old) + Len(rows)
    BY DEF Behind
  <2>3. \A i \in 1..Len(old) : all[i] = old[i]
    BY DEF Behind
  <2>4. \A i \in 1..Len(rows) : all[Len(old) + i] = rows[i]
    BY DEF Behind
  <2> QED
    BY <2>1, <2>2, <2>3, <2>4
<1>2. End(all) = End(rows)
  <2>1. Len(rows) \in 1..Len(rows)
    BY <1>1
  <2> QED
    BY <1>1, <2>1 DEF End
<1>3. Chained(all, g, x)
  <2> SUFFICES ASSUME NEW i \in 1..(Len(all) - 1)
               PROVE  all[i + 1].node = NextOf(g, x, all[i].node) /\ all[i].status = "succeeded"
    BY DEF Chained
  <2>1. CASE i < Len(old)
    <3>1. i \in 1..(Len(old) - 1) /\ i \in 1..Len(old) /\ i + 1 \in 1..Len(old)
      BY <1>1, <2>1
    <3> QED
      BY <1>1, <3>1 DEF PathOK, Chained
  <2>2. CASE i = Len(old)
    <3>1. all[i] = End(old) /\ all[i + 1] = rows[1]
      BY <1>1, <2>2 DEF End
    <3> QED
      BY <3>1
  <2>3. CASE i > Len(old)
    <3>1. PICK j \in 1..(Len(rows) - 1) : i = Len(old) + j
      <4>1. i - Len(old) \in 1..(Len(rows) - 1) /\ i = Len(old) + (i - Len(old))
        BY <1>1, <2>3
      <4> QED
        BY <4>1
    <3>2. j \in 1..Len(rows) /\ j + 1 \in 1..Len(rows) /\ i + 1 = Len(old) + (j + 1)
      BY <1>1, <3>1
    <3>3. all[i] = rows[j] /\ all[i + 1] = rows[j + 1]
      BY <1>1, <3>1, <3>2
    <3> QED
      BY <3>1, <3>3 DEF Chained
  <2> QED
    BY <1>1, <2>1, <2>2, <2>3
<1>4. PathOK(all, g, x)
  <2>1. all[1] = old[1] /\ 1 \in 1..Len(old)
    BY <1>1
  <2> QED
    BY <1>2, <1>3, <2>1 DEF PathOK
<1>5. ASSUME Whole(rows, g, x) PROVE Whole(all, g, x)
  <2>1. NodesOf(rows) \subseteq NodesOf(all)
    <3> SUFFICES ASSUME NEW i \in DOMAIN rows PROVE rows[i].node \in NodesOf(all)
      BY DEF NodesOf
    <3>1. i \in 1..Len(rows) /\ Len(old) + i \in DOMAIN all
      BY <1>1
    <3>2. all[Len(old) + i] = rows[i]
      BY <1>1, <3>1
    <3> QED
      BY <3>1, <3>2 DEF NodesOf
  <2>2. all # <<>>
    BY <1>1
  <2> QED
    BY <1>2, <1>5, <2>1, <2>2 DEF Whole
<1> QED
  BY <1>1, <1>2, <1>4, <1>5

\* The status of the last row changes.
SetRow(rows, i, status) == [rows EXCEPT ![i].status = status]

LEMMA EndSet ==
    ASSUME NEW g, NEW x, NEW old \in Seq(StepRow), old # <<>>, PathOK(old, g, x),
           NEW i, i = Len(old), NEW status \in {"pending", "running", "succeeded", "failed"},
           status = "succeeded" \/ g.kind[End(old).node] = "delay",
           NEW new, new = SetRow(old, i, status)
    PROVE  /\ new \in Seq(StepRow) /\ new # <<>> /\ Len(new) = Len(old)
           /\ End(new).status = status /\ End(new).node = End(old).node
           /\ new[i].status = status /\ new[i].node = old[i].node
           /\ PathOK(new, g, x)
<1>1. Len(old) \in Nat \ {0} /\ i \in 1..Len(old) /\ DOMAIN old = 1..Len(old)
      /\ \A j \in 1..Len(old) : old[j] \in StepRow
  OBVIOUS
<1> DEFINE z == [old[i] EXCEPT !.status = status]
<1>2. z \in StepRow /\ z.status = status /\ z.node = old[i].node
  BY <1>1 DEF StepRow
<1>3. new = [old EXCEPT ![i] = z]
  BY DEF SetRow
<1> HIDE DEF z
<1>4. /\ new \in Seq(StepRow) /\ new # <<>> /\ Len(new) = Len(old) /\ new[i] = z
      /\ \A j \in 1..Len(old) : j # i => new[j] = old[j]
  BY <1>1, <1>2, <1>3
<1>5. End(new) = z /\ End(old) = old[i]
  BY <1>4 DEF End
<1>6. new[1].node = old[1].node
  BY <1>1, <1>2, <1>4
<1>7. Chained(new, g, x)
  <2> SUFFICES ASSUME NEW j \in 1..(Len(old) - 1)
               PROVE  new[j + 1].node = NextOf(g, x, new[j].node) /\ new[j].status = "succeeded"
    BY <1>4 DEF Chained
  <2>1. j \in 1..Len(old) /\ j + 1 \in 1..Len(old) /\ j # i
    BY <1>1
  <2>2. new[j] = old[j] /\ new[j + 1].node = old[j + 1].node
    BY <1>2, <1>4, <2>1
  <2> QED
    BY <2>2 DEF PathOK, Chained
<1> QED
  BY <1>2, <1>4, <1>5, <1>6, <1>7 DEF PathOK

-------------------------------------------------------------------------------
(* The inductive invariant.  Its parts are stated of values: s is what a request  *)
(* or a worker is about to do, G the versions, R the runs.                        *)

Fresh == [status |-> "none", steps |-> <<>>]
Started == [status : {"running", "succeeded", "failed"}, version : Nat, context : Context,
            steps : Seq(StepRow)]
Asking ==
    [at : {"insertVersion"}, version : Nat, graph : Draft]
    \union [at : {"setCurrent"}, version : Nat]
    \union [at : {"insertRun"}, run : Run, version : Nat, context : Context]
    \union [at : {"insertSteps", "finish"}, run : Run]
Resuming ==
    [at : {"complete", "insertSteps", "finish", "failStep", "failRun"}, run : Run, step : Nat]

\* The row of a run: a path of its version, complete if it succeeded.
RowOK(row, G) ==
    row.status # "none" =>
        /\ row \in Started
        /\ row.version \in 1..Len(G)
        /\ PathOK(row.steps, G[row.version], row.context)
        /\ row.status = "succeeded" => Whole(row.steps, G[row.version], row.context)

Holding == {"insertRun", "insertSteps", "finish", "complete", "failStep", "failRun"}
Holds(s, r) == s.at \in Holding /\ s.run = r

\* What a request can rely on.
RequestOK(s, G, R) ==
    /\ s.at = "insertVersion" => s.version \in 1..(Len(G) + 1) /\ ValidGraph(s.graph)
    /\ s.at = "setCurrent" => s.version \in 1..Len(G)
    /\ s.at = "insertRun" => s.version \in 1..Len(G) /\ R[s.run].status = "none"
    /\ s.at = "insertSteps" => R[s.run].status = "running" /\ R[s.run].steps = <<>>
    /\ s.at = "finish" =>
          /\ R[s.run].status = "running"
          /\ Whole(R[s.run].steps, G[R[s.run].version], R[s.run].context)

\* What a worker can rely on: its run is running, and no step of it is pending.
ResumeOK(s, G, R) ==
    s.at # "rest" =>
        LET row == R[s.run]
            g == G[row.version]
        IN  /\ row.status = "running"
            /\ s.step \in 1..Len(row.steps)
            /\ End(row.steps).status # "pending"
            /\ s.at \in {"complete", "insertSteps"} => s.step = Len(row.steps)
            /\ s.at = "complete" => End(row.steps).status = "running"
            /\ s.at = "insertSteps" =>
                  /\ End(row.steps).status = "succeeded"
                  /\ NextOf(g, row.context, End(row.steps).node) # None
            /\ s.at = "finish" => Whole(row.steps, g, row.context)

\* One at a time has a run in hand.
Free(r) ==
    /\ \A p \in Request : ~ Holds(req[p], r)
    /\ \A w \in Worker : ~ Holds(worker[w], r)
Alone(r) ==
    /\ \A p, q \in Request : Holds(req[p], r) /\ Holds(req[q], r) => p = q
    /\ \A v, w \in Worker : Holds(worker[v], r) /\ Holds(worker[w], r) => v = w
    /\ \A p \in Request, w \in Worker : ~ (Holds(req[p], r) /\ Holds(worker[w], r))

WTypes ==
    /\ graph \in Seq(Draft) /\ current \in 0..Len(graph) /\ crashes \in 0..MaxCrashes
    /\ run \in [Run -> {Fresh} \union Started]
    /\ req \in [Request -> {Rest} \union Asking]
    /\ worker \in [Worker -> {Rest} \union Resuming]

WInv ==
    /\ WTypes
    /\ \A v \in 1..Len(graph) : ValidGraph(graph[v])
    /\ \A r \in Run : RowOK(run[r], graph)
    /\ \A p \in Request : RequestOK(req[p], graph, run)
    /\ \A w \in Worker : ResumeOK(worker[w], graph, run)
    /\ \A r \in Run : Alone(r)

LEMMA WInit == Init => WInv
<1> SUFFICES ASSUME Init PROVE WInv
  OBVIOUS
<1>1. graph = <<>> /\ current = 0 /\ crashes = 0 /\ (\A r \in Run : run[r] = Fresh)
      /\ run \in [Run -> {Fresh}] /\ req \in [Request -> {Rest}] /\ worker \in [Worker -> {Rest}]
  BY DEF Init, Fresh
<1>2. WTypes
  BY <1>1, WorkflowAssumption DEF WTypes
<1>3. \A r \in Run : RowOK(run[r], graph)
  BY <1>1 DEF RowOK, Fresh
<1>4. \A p \in Request : RequestOK(req[p], graph, run)
  BY <1>1 DEF RequestOK, Rest
<1>5. \A w \in Worker : ResumeOK(worker[w], graph, run)
  BY <1>1 DEF ResumeOK, Rest
<1>6. \A r \in Run : Alone(r)
  BY <1>1 DEF Alone, Holds, Holding, Rest
<1> QED
  BY <1>1, <1>2, <1>3, <1>4, <1>5, <1>6 DEF WInv

\* Versions are only added.
Extends(G, H) ==
    /\ G \in Seq(Draft) /\ H \in Seq(Draft) /\ Len(G) <= Len(H)
    /\ \A v \in 1..Len(G) : H[v] = G[v]

LEMMA RowStays ==
    ASSUME NEW G, NEW H, Extends(G, H), NEW row, RowOK(row, G)
    PROVE  RowOK(row, H)
  BY DEF Extends, RowOK

\* Another step leaves a request or a worker what it relies on, if it leaves its run.
LEMMA RequestStays ==
    ASSUME NEW G, NEW H, Extends(G, H), NEW R, NEW Z, NEW s \in {Rest} \union Asking,
           RequestOK(s, G, R), \A r \in Run : Holds(s, r) => Z[r] = R[r] /\ RowOK(R[r], G)
    PROVE  RequestOK(s, H, Z)
<1>1. Len(G) \in Nat /\ Len(H) \in Nat /\ Len(G) <= Len(H)
  BY DEF Extends
<1>2. CASE s.at \notin {"insertRun", "insertSteps", "finish"}
  BY <1>1, <1>2 DEF RequestOK
<1>3. CASE s.at \in {"insertRun", "insertSteps", "finish"}
  <2>1. s.run \in Run
    BY <1>3 DEF Asking, Rest
  <2>2. Z[s.run] = R[s.run] /\ RowOK(R[s.run], G)
    BY <1>3, <2>1 DEF Holds, Holding
  <2>3. R[s.run].status # "none" => H[R[s.run].version] = G[R[s.run].version]
    BY <2>2 DEF RowOK, Extends
  <2> QED
    BY <1>1, <1>3, <2>2, <2>3 DEF RequestOK
<1> QED
  BY <1>2, <1>3

LEMMA ResumeStays ==
    ASSUME NEW G, NEW H, Extends(G, H), NEW R, NEW Z, NEW s \in {Rest} \union Resuming,
           ResumeOK(s, G, R), \A r \in Run : Holds(s, r) => Z[r] = R[r] /\ RowOK(R[r], G)
    PROVE  ResumeOK(s, H, Z)
<1>1. CASE s.at = "rest"
  BY <1>1 DEF ResumeOK
<1>2. CASE s.at # "rest"
  <2>1. s.run \in Run /\ s.at \in Holding
    BY <1>2 DEF Resuming, Rest, Holding
  <2>2. Z[s.run] = R[s.run] /\ RowOK(R[s.run], G) /\ R[s.run].status = "running"
    BY <1>2, <2>1 DEF Holds, ResumeOK
  <2>3. H[R[s.run].version] = G[R[s.run].version]
    BY <2>2 DEF RowOK, Extends
  <2> QED
    BY <1>2, <2>2, <2>3 DEF ResumeOK
<1> QED
  BY <1>1, <1>2

-------------------------------------------------------------------------------
(* Steps.  A run that is over is not touched, and the others only by who has them *)
(* in hand.                                                                       *)

OnlyOpen == \A r \in Run : run[r].status \in {"succeeded", "failed"} => run'[r] = run[r]

\* The versions after a step, and what it may do to them.
GraphStep ==
    /\ Extends(graph, graph') /\ \A v \in 1..Len(graph') : ValidGraph(graph'[v])
    /\ current' \in 0..Len(graph') /\ crashes' \in 0..MaxCrashes

\* Rows after a step: as they were, or in the hands of s, not over, and good again.
RunStep(s) ==
    /\ run' \in [Run -> {Fresh} \union Started]
    /\ \A r \in Run : \/ run'[r] = run[r]
                      \/ /\ Holds(s, r) \/ Free(r)
                         /\ run[r].status \in {"none", "running"}
                         /\ RowOK(run'[r], graph')

LEMMA RequestKeeps ==
    ASSUME WInv, NEW p \in Request, NEW s \in {Rest} \union Asking,
           req' = [req EXCEPT ![p] = s], worker' = worker,
           GraphStep, RunStep(req[p]), RequestOK(s, graph', run'),
           \A r \in Run : Holds(s, r) => Holds(req[p], r) \/ Free(r),
           \A r \in Run : Free(r) => run'[r] = run[r]
    PROVE  WInv' /\ OnlyOpen
<1>1. /\ req \in [Request -> {Rest} \union Asking] /\ worker \in [Worker -> {Rest} \union Resuming]
      /\ req'[p] = s /\ \A q \in Request \ {p} : req'[q] = req[q]
  BY DEF WInv, WTypes
<1>2. WTypes'
  BY <1>1 DEF WTypes, GraphStep, RunStep, Extends
<1>3. \A r \in Run : RowOK(run'[r], graph')
  BY RowStays DEF WInv, GraphStep, RunStep
<1>4. ASSUME NEW q \in Request, q # p PROVE RequestOK(req[q], graph', run')
  <2>1. \A r \in Run : Holds(req[q], r) => run'[r] = run[r] /\ RowOK(run[r], graph)
    BY <1>4 DEF WInv, RunStep, Alone, Free
  <2>2. RequestOK(req[q], graph, run) /\ Extends(graph, graph') /\ req[q] \in {Rest} \union Asking
    BY <1>1 DEF WInv, GraphStep
  <2> QED
    BY <2>1, <2>2, RequestStays
<1>5. ASSUME NEW w \in Worker PROVE ResumeOK(worker[w], graph', run')
  <2>1. \A r \in Run : Holds(worker[w], r) => run'[r] = run[r] /\ RowOK(run[r], graph)
    BY DEF WInv, RunStep, Alone, Free
  <2>2. ResumeOK(worker[w], graph, run) /\ Extends(graph, graph') /\ worker[w] \in {Rest} \union Resuming
    BY <1>1 DEF WInv, GraphStep
  <2> QED
    BY <2>1, <2>2, ResumeStays
<1>6. ASSUME NEW r \in Run PROVE Alone(r)'
  <2>1. \A q \in Request : Holds(req'[q], r) => Holds(req[q], r) \/ (q = p /\ Free(r))
    BY <1>1
  <2>2. Alone(r)
    BY DEF WInv
  <2>3. \A q, q2 \in Request : Holds(req'[q], r) /\ Holds(req'[q2], r) => q = q2
    BY <2>1, <2>2 DEF Alone, Free
  <2>4. \A q \in Request, w \in Worker : ~ (Holds(req'[q], r) /\ Holds(worker[w], r))
    BY <2>1, <2>2 DEF Alone, Free
  <2> QED
    BY <2>2, <2>3, <2>4 DEF Alone, Holds
<1>7. OnlyOpen
  BY DEF OnlyOpen, RunStep
<1>8. (\A q \in Request : RequestOK(req[q], graph, run))'
  BY <1>1, <1>4 DEF RequestOK
<1>9. (\A w \in Worker : ResumeOK(worker[w], graph, run))'
  BY <1>5 DEF ResumeOK
<1>10. (\A r \in Run : RowOK(run[r], graph))'
  BY <1>3 DEF RowOK
<1>11. (\A v \in 1..Len(graph) : ValidGraph(graph[v]))'
  BY DEF GraphStep, ValidGraph
<1> QED
  BY <1>2, <1>6, <1>7, <1>8, <1>9, <1>10, <1>11 DEF WInv

LEMMA ResumeKeeps ==
    ASSUME WInv, NEW w \in Worker, NEW s \in {Rest} \union Resuming,
           worker' = [worker EXCEPT ![w] = s], UNCHANGED <<req, graph, current>>,
           crashes' \in 0..MaxCrashes, RunStep(worker[w]), ResumeOK(s, graph, run'),
           \A r \in Run : Holds(s, r) => Holds(worker[w], r) \/ Free(r),
           \A r \in Run : Free(r) /\ ~ Holds(s, r) => run'[r] = run[r]
    PROVE  WInv' /\ OnlyOpen
<1>1. /\ req \in [Request -> {Rest} \union Asking] /\ worker \in [Worker -> {Rest} \union Resuming]
      /\ worker'[w] = s /\ \A v \in Worker \ {w} : worker'[v] = worker[v]
  BY DEF WInv, WTypes
<1>2. WTypes'
  BY <1>1 DEF WInv, WTypes, RunStep
<1>3. \A r \in Run : RowOK(run'[r], graph)
  BY DEF WInv, RunStep
<1>4. Extends(graph, graph)
  BY DEF Extends, WInv, WTypes
<1>5. ASSUME NEW q \in Request PROVE RequestOK(req[q], graph, run')
  <2>1. \A r \in Run : Holds(req[q], r) => run'[r] = run[r] /\ RowOK(run[r], graph)
    BY DEF WInv, RunStep, Alone, Free
  <2>2. RequestOK(req[q], graph, run) /\ req[q] \in {Rest} \union Asking
    BY <1>1 DEF WInv
  <2> QED
    BY <1>4, <2>1, <2>2, RequestStays
<1>6. ASSUME NEW v \in Worker, v # w PROVE ResumeOK(worker[v], graph, run')
  <2>1. \A r \in Run : Holds(worker[v], r) => run'[r] = run[r] /\ RowOK(run[r], graph)
    BY <1>6 DEF WInv, RunStep, Alone, Free
  <2>2. ResumeOK(worker[v], graph, run) /\ worker[v] \in {Rest} \union Resuming
    BY <1>1 DEF WInv
  <2> QED
    BY <1>4, <2>1, <2>2, ResumeStays
<1>7. ASSUME NEW r \in Run PROVE Alone(r)'
  <2>1. \A v \in Worker : Holds(worker'[v], r) => Holds(worker[v], r) \/ (v = w /\ Free(r))
    BY <1>1
  <2>2. Alone(r)
    BY DEF WInv
  <2>3. \A v, v2 \in Worker : Holds(worker'[v], r) /\ Holds(worker'[v2], r) => v = v2
    BY <2>1, <2>2 DEF Alone, Free
  <2>4. \A q \in Request, v \in Worker : ~ (Holds(req[q], r) /\ Holds(worker'[v], r))
    BY <2>1, <2>2 DEF Alone, Free
  <2> QED
    BY <2>2, <2>3, <2>4 DEF Alone, Holds
<1>8. OnlyOpen
  BY DEF OnlyOpen, RunStep
<1>9. (\A q \in Request : RequestOK(req[q], graph, run))'
  BY <1>5 DEF RequestOK
<1>10. (\A v \in Worker : ResumeOK(worker[v], graph, run))'
  BY <1>1, <1>6 DEF ResumeOK
<1>11. (\A r \in Run : RowOK(run[r], graph))'
  BY <1>3 DEF RowOK
<1>12. (\A v \in 1..Len(graph) : ValidGraph(graph[v]))'
  BY DEF WInv, ValidGraph
<1> QED
  BY <1>2, <1>7, <1>8, <1>9, <1>10, <1>11, <1>12 DEF WInv

-------------------------------------------------------------------------------
(* The steps of a request *)

LEMMA RequestTypes ==
    ASSUME WInv, NEW p \in Request
    PROVE  /\ req[p] \in {Rest} \union Asking
           /\ req[p].at = "insertVersion" => req[p].version \in Nat /\ req[p].graph \in Draft
           /\ req[p].at = "setCurrent" => req[p].version \in Nat
           /\ req[p].at = "insertRun" =>
                 req[p].run \in Run /\ req[p].version \in Nat /\ req[p].context \in Context
           /\ req[p].at \in {"insertSteps", "finish"} => req[p].run \in Run
<1>1. req[p] \in {Rest} \union Asking
  BY DEF WInv, WTypes
<1> QED
  BY <1>1 DEF Asking, Rest

\* A run in hand.
LEMMA Running ==
    ASSUME WInv, NEW r \in Run, run[r].status # "none"
    PROVE  /\ run[r] \in Started /\ run[r].version \in 1..Len(graph)
           /\ graph[run[r].version] \in Draft /\ ValidGraph(graph[run[r].version])
           /\ run[r].context \in Context /\ run[r].steps \in Seq(StepRow)
           /\ Fits(graph[run[r].version], run[r].context)
           /\ PathOK(run[r].steps, graph[run[r].version], run[r].context)
<1>1. RowOK(run[r], graph) /\ graph \in Seq(Draft)
  BY DEF WInv, WTypes
<1>2. run[r] \in Started /\ run[r].version \in 1..Len(graph)
      /\ PathOK(run[r].steps, graph[run[r].version], run[r].context)
  BY <1>1 DEF RowOK
<1>3. run[r].context \in Context /\ run[r].steps \in Seq(StepRow)
  BY <1>2 DEF Started
<1>4. graph[run[r].version] \in Draft /\ ValidGraph(graph[run[r].version])
  BY <1>1, <1>2 DEF WInv
<1> QED
  BY <1>2, <1>3, <1>4, GraphFits

LEMMA SameGraph ==
    ASSUME WInv, UNCHANGED graph, current' \in 0..Len(graph), crashes' \in 0..MaxCrashes
    PROVE  GraphStep
<1>1. graph \in Seq(Draft) /\ Extends(graph, graph)
  BY DEF WInv, WTypes, Extends
<1> QED
  BY <1>1 DEF WInv, GraphStep

LEMMA SameRuns ==
    ASSUME WInv, UNCHANGED run, NEW s
    PROVE  RunStep(s) /\ \A r \in Run : Free(r) => run'[r] = run[r]
  BY DEF WInv, WTypes, RunStep

LEMMA SaveVersionKeeps == ASSUME WInv, NEW p \in Request, SaveVersion(p) PROVE WInv' /\ OnlyOpen
<1>1. PICK g \in Draft :
         /\ ValidGraph(g)
         /\ req' = [req EXCEPT ![p] = [at |-> "insertVersion", version |-> Len(graph) + 1, graph |-> g]]
  BY DEF SaveVersion
<1> DEFINE s == [at |-> "insertVersion", version |-> Len(graph) + 1, graph |-> g]
<1>2. UNCHANGED <<graph, current, run, worker, crashes>> /\ Len(graph) \in Nat
      /\ current' \in 0..Len(graph) /\ crashes' \in 0..MaxCrashes
  BY DEF SaveVersion, WInv, WTypes
<1>3. s \in Asking /\ s.at = "insertVersion" /\ s.version = Len(graph) + 1 /\ s.graph = g
  <2> DEFINE n == Len(graph) + 1
  <2>1. n \in Nat
    BY <1>2
  <2> HIDE DEF n
  <2>2. [at |-> "insertVersion", version |-> n, graph |-> g] \in Asking
    BY <2>1 DEF Asking
  <2> QED
    BY <2>2 DEF n
<1>4. req' = [req EXCEPT ![p] = s]
  BY <1>1
<1> HIDE DEF s
<1>5. RequestOK(s, graph', run')
  BY <1>1, <1>2, <1>3 DEF RequestOK
<1>6. \A r \in Run : ~ Holds(s, r)
  BY <1>3 DEF Holds, Holding
<1> QED
  BY <1>2, <1>3, <1>4, <1>5, <1>6, SameGraph, SameRuns, RequestKeeps

LEMMA Resting ==
    \A G, R : RequestOK(Rest, G, R) /\ ResumeOK(Rest, G, R) /\ \A r \in Run : ~ Holds(Rest, r)
  BY DEF RequestOK, ResumeOK, Rest, Holds, Holding

LEMMA InsertVersionKeeps == ASSUME WInv, NEW p \in Request, InsertVersion(p) PROVE WInv' /\ OnlyOpen
<1>1. req[p].at = "insertVersion" /\ UNCHANGED <<current, run, worker, crashes>>
  BY DEF InsertVersion
<1>2. /\ req[p].version \in Nat /\ req[p].graph \in Draft /\ ValidGraph(req[p].graph)
      /\ graph \in Seq(Draft) /\ Len(graph) \in Nat /\ current \in 0..Len(graph)
      /\ crashes \in 0..MaxCrashes
  BY <1>1, RequestTypes DEF WInv, WTypes, RequestOK
<1>3. CASE UNCHANGED graph /\ req' = [req EXCEPT ![p] = Rest]
  BY <1>1, <1>2, <1>3, SameGraph, SameRuns, Resting, RequestKeeps
<1>4. CASE /\ req[p].version = Len(graph) + 1
           /\ graph' = Append(graph, req[p].graph)
           /\ req' = [req EXCEPT ![p] = [at |-> "setCurrent", version |-> req[p].version]]
  <2> DEFINE n == req[p].version
             s == [at |-> "setCurrent", version |-> n]
  <2>1. s \in Asking /\ s.at = "setCurrent" /\ s.version = n
    <3>1. n \in Nat
      BY <1>2
    <3> HIDE DEF n
    <3> QED
      BY <3>1 DEF Asking
  <2>2. req' = [req EXCEPT ![p] = s]
    BY <1>4
  <2> HIDE DEF s
  <2>3. /\ graph' \in Seq(Draft) /\ Len(graph') = Len(graph) + 1
        /\ \A v \in 1..Len(graph) : graph'[v] = graph[v]
        /\ graph'[Len(graph) + 1] = req[p].graph
    BY <1>2, <1>4
  <2>4. GraphStep
    <3>1. Extends(graph, graph')
      BY <1>2, <2>3 DEF Extends
    <3>2. ASSUME NEW v \in 1..Len(graph') PROVE ValidGraph(graph'[v])
      <4>1. v \in 1..Len(graph) \/ v = Len(graph) + 1
        BY <1>2, <2>3
      <4> QED
        BY <1>2, <2>3, <4>1 DEF WInv
    <3> QED
      BY <1>1, <1>2, <2>3, <3>1, <3>2 DEF GraphStep
  <2>5. RequestOK(s, graph', run')
    BY <1>2, <1>4, <2>1, <2>3 DEF RequestOK
  <2>6. \A r \in Run : ~ Holds(s, r)
    BY <2>1 DEF Holds, Holding
  <2> QED
    BY <1>1, <2>1, <2>2, <2>4, <2>5, <2>6, SameRuns, RequestKeeps
<1> QED
  BY <1>3, <1>4 DEF InsertVersion

LEMMA SetCurrentKeeps == ASSUME WInv, NEW p \in Request, SetCurrentVersion(p) PROVE WInv' /\ OnlyOpen
<1>1. /\ req[p].at = "setCurrent" /\ UNCHANGED <<graph, run, worker, crashes>>
      /\ req' = [req EXCEPT ![p] = Rest] /\ current' = req[p].version
  BY DEF SetCurrentVersion
<1>2. current' \in 0..Len(graph) /\ crashes' \in 0..MaxCrashes
  BY <1>1 DEF WInv, WTypes, RequestOK
<1> QED
  BY <1>1, <1>2, SameGraph, SameRuns, Resting, RequestKeeps

LEMMA StartRunKeeps == ASSUME WInv, NEW p \in Request, StartRun(p) PROVE WInv' /\ OnlyOpen
<1>1. PICK r \in Run, c \in Context :
         /\ run[r].status = "none"
         /\ \A q \in Request : "run" \in DOMAIN req[q] => req[q].run # r
         /\ req' = [req EXCEPT ![p] = [at |-> "insertRun", run |-> r, version |-> current, context |-> c]]
  BY DEF StartRun
<1> DEFINE s == [at |-> "insertRun", run |-> r, version |-> current, context |-> c]
<1>2. UNCHANGED <<graph, current, run, worker, crashes>> /\ current # 0 /\ current \in 0..Len(graph)
      /\ crashes' \in 0..MaxCrashes /\ Len(graph) \in Nat
  BY DEF StartRun, WInv, WTypes
<1>3. s \in Asking /\ s.at = "insertRun" /\ s.run = r /\ s.version = current
  <2>1. current \in Nat
    BY <1>2
  <2> QED
    BY <2>1 DEF Asking
<1>4. req' = [req EXCEPT ![p] = s]
  BY <1>1
<1> HIDE DEF s
<1>5. RequestOK(s, graph', run')
  BY <1>1, <1>2, <1>3 DEF RequestOK
<1>6. Free(r)
  <2>1. ASSUME NEW q \in Request, Holds(req[q], r) PROVE FALSE
    <3>1. req[q] \in Asking /\ req[q].at \in Holding /\ req[q].run = r
      BY <2>1 DEF WInv, WTypes, Holds, Holding, Rest
    <3>2. "run" \in DOMAIN req[q]
      <4>1. req[q].at \in {"insertRun", "insertSteps", "finish"}
        BY <3>1 DEF Asking, Holding
      <4>2. \/ req[q] \in [at : {"insertRun"}, run : Run, version : Nat, context : Context]
            \/ req[q] \in [at : {"insertSteps", "finish"}, run : Run]
        BY <3>1, <4>1 DEF Asking
      <4> QED
        BY <4>2
    <3> QED
      BY <1>1, <3>1, <3>2
  <2>2. ASSUME NEW w \in Worker, Holds(worker[w], r) PROVE FALSE
    BY <1>1, <2>2 DEF WInv, ResumeOK, Holds, Holding
  <2> QED
    BY <2>1, <2>2 DEF Free
<1>7. \A x \in Run : Holds(s, x) => x = r
  BY <1>3 DEF Holds
<1> QED
  BY <1>2, <1>3, <1>4, <1>5, <1>6, <1>7, SameGraph, SameRuns, RequestKeeps

\* One row changes.
LEMMA RowChanges ==
    ASSUME WInv, NEW r \in Run, NEW row \in Started, run' = [run EXCEPT ![r] = row],
           NEW s, Holds(s, r) \/ Free(r), run[r].status \in {"none", "running"},
           UNCHANGED graph, RowOK(row, graph)
    PROVE  /\ RunStep(s) /\ run'[r] = row /\ \A x \in Run : x # r => run'[x] = run[x]
<1>1. run \in [Run -> {Fresh} \union Started]
  BY DEF WInv, WTypes
<1>2. run' \in [Run -> {Fresh} \union Started] /\ run'[r] = row
      /\ \A x \in Run : x # r => run'[x] = run[x]
  BY <1>1
<1>3. RowOK(run'[r], graph')
  BY <1>2 DEF RowOK
<1> QED
  BY <1>2, <1>3 DEF RunStep

LEMMA InsertRunKeeps == ASSUME WInv, NEW p \in Request, InsertRun(p) PROVE WInv' /\ OnlyOpen
<1> DEFINE r == req[p].run
           n == req[p].version
           c == req[p].context
           row == [status |-> "running", version |-> n, context |-> c, steps |-> <<>>]
           s == [at |-> "insertSteps", run |-> r]
<1>1. /\ req[p].at = "insertRun" /\ UNCHANGED <<graph, current, worker, crashes>>
      /\ run' = [run EXCEPT ![r] = row] /\ req' = [req EXCEPT ![p] = s]
  BY DEF InsertRun
<1>2. /\ r \in Run /\ n \in Nat /\ c \in Context /\ n \in 1..Len(graph) /\ run[r].status = "none"
      /\ current' \in 0..Len(graph) /\ crashes' \in 0..MaxCrashes
  BY <1>1, RequestTypes DEF WInv, WTypes, RequestOK
<1>3. s \in Asking /\ s.at = "insertSteps" /\ s.run = r
  <2> HIDE DEF r
  <2> QED
    BY <1>2 DEF Asking
<1>4. row \in Started /\ row.status = "running" /\ row.steps = <<>> /\ row.version = n
  <2>1. <<>> \in Seq(StepRow)
    OBVIOUS
  <2> HIDE DEF n, c
  <2> QED
    BY <1>2, <2>1 DEF Started
<1> HIDE DEF row, s
<1>5. RowOK(row, graph)
  BY <1>2, <1>4 DEF RowOK, PathOK
<1>6. Holds(req[p], r)
  BY <1>1 DEF Holds, Holding
<1>7. RunStep(req[p]) /\ run'[r] = row /\ \A x \in Run : x # r => run'[x] = run[x]
  <2>1. run[r].status \in {"none", "running"}
    BY <1>2
  <2> HIDE DEF r
  <2> QED
    BY <1>1, <1>2, <1>4, <1>5, <1>6, <2>1, RowChanges
<1>8. RequestOK(s, graph', run')
  BY <1>3, <1>4, <1>7 DEF RequestOK
<1>9. /\ \A x \in Run : Holds(s, x) => Holds(req[p], x) \/ Free(x)
      /\ \A x \in Run : Free(x) => run'[x] = run[x]
  BY <1>3, <1>6, <1>7 DEF Holds, Free
<1>10. GraphStep
  BY <1>1, <1>2, SameGraph
<1> HIDE DEF r
<1> QED
  BY <1>1, <1>3, <1>7, <1>8, <1>9, <1>10, RequestKeeps

\* A graph has its trigger.
LEMMA TriggerIsNode ==
    ASSUME NEW g \in Draft, ValidGraph(g)
    PROVE  Trigger(g) \in Node
<1>1. KindsOf(g, "trigger") # {}
  BY FS_EmptySet DEF ValidGraph
<1>2. \E n \in Node : g.kind[n] = "trigger"
  BY <1>1 DEF KindsOf
<1> QED
  BY <1>2 DEF Trigger

LEMMA StepsChange ==
    ASSUME NEW row \in Started, NEW rows \in Seq(StepRow)
    PROVE  LET new == [row EXCEPT !.steps = rows]
           IN  /\ new \in Started /\ new.steps = rows /\ new.status = row.status
               /\ new.version = row.version /\ new.context = row.context
  BY DEF Started

LEMMA StatusChange ==
    ASSUME NEW row \in Started, NEW status \in {"running", "succeeded", "failed"}
    PROVE  LET new == [row EXCEPT !.status = status]
           IN  /\ new \in Started /\ new.status = status /\ new.steps = row.steps
               /\ new.version = row.version /\ new.context = row.context
  BY DEF Started

LEMMA InsertFirstStepsKeeps ==
    ASSUME WInv, NEW p \in Request, InsertFirstSteps(p) PROVE WInv' /\ OnlyOpen
<1> DEFINE r == req[p].run
           g == graph[run[r].version]
           x == run[r].context
           nodes == Trace(g, x, Trigger(g))
           rows == StepRows(g, nodes)
           row == [run[r] EXCEPT !.steps = rows]
           s == IF HasDelay(g, nodes) THEN Rest ELSE [req[p] EXCEPT !.at = "finish"]
<1>1. /\ req[p].at = "insertSteps" /\ UNCHANGED <<graph, current, worker, crashes>>
      /\ run' = [run EXCEPT ![r] = row] /\ req' = [req EXCEPT ![p] = s]
  BY DEF InsertFirstSteps
<1>2. /\ r \in Run /\ run[r].status = "running" /\ run[r].steps = <<>>
      /\ current' \in 0..Len(graph) /\ crashes' \in 0..MaxCrashes
  BY <1>1, RequestTypes DEF WInv, WTypes, RequestOK
<1>3. /\ run[r] \in Started /\ run[r].version \in 1..Len(graph)
      /\ g \in Draft /\ ValidGraph(g) /\ x \in Context /\ Fits(g, x)
  <2> HIDE DEF r
  <2> QED
    BY <1>2, Running
<1>4. Trigger(g) \in Node
  <2> HIDE DEF g
  <2> QED
    BY <1>3, TriggerIsNode
<1>5. /\ rows \in Seq(StepRow) /\ rows # <<>> /\ rows[1].node = Trigger(g)
      /\ Chained(rows, g, x)
      /\ HasDelay(g, nodes) => End(rows).status = "pending" /\ g.kind[End(rows).node] = "delay"
      /\ ~ HasDelay(g, nodes) => Whole(rows, g, x)
  <2> HIDE DEF g, x
  <2> QED
    BY <1>3, <1>4, Segment
<1>6. PathOK(rows, g, x)
  BY <1>5 DEF PathOK, Whole
<1>7. /\ row \in Started /\ row.steps = rows /\ row.status = "running"
      /\ row.version = run[r].version /\ row.context = x
  <2> HIDE DEF r, rows
  <2> QED
    BY <1>2, <1>3, <1>5, StepsChange
<1>8. /\ s \in {Rest} \union Asking /\ (s = Rest \/ (s.at = "finish" /\ s.run = r))
      /\ s.at = "finish" => Whole(rows, g, x)
  <2>1. req[p] \in [at : {"insertSteps", "finish"}, run : Run]
    BY <1>1, RequestTypes DEF Asking, Rest
  <2>2. [req[p] EXCEPT !.at = "finish"] \in Asking /\ [req[p] EXCEPT !.at = "finish"].at = "finish"
        /\ [req[p] EXCEPT !.at = "finish"].run = r
    BY <2>1 DEF Asking
  <2> QED
    BY <1>5, <2>2 DEF Rest
<1> HIDE DEF row, s, rows, nodes
<1>9. RowOK(row, graph)
  BY <1>3, <1>6, <1>7 DEF RowOK
<1>10. Holds(req[p], r)
  BY <1>1 DEF Holds, Holding
<1>11. RunStep(req[p]) /\ run'[r] = row /\ \A y \in Run : y # r => run'[y] = run[y]
  <2>1. run[r].status \in {"none", "running"}
    BY <1>2
  <2> HIDE DEF r
  <2> QED
    BY <1>1, <1>2, <1>7, <1>9, <1>10, <2>1, RowChanges
<1>12. RequestOK(s, graph', run')
  BY <1>1, <1>7, <1>8, <1>11 DEF RequestOK, Rest
<1>13. /\ \A y \in Run : Holds(s, y) => Holds(req[p], y) \/ Free(y)
       /\ \A y \in Run : Free(y) => run'[y] = run[y]
  BY <1>8, <1>10, <1>11, Resting DEF Holds, Free
<1>14. GraphStep
  BY <1>1, <1>2, SameGraph
<1> HIDE DEF r
<1> QED
  BY <1>1, <1>8, <1>11, <1>12, <1>13, <1>14, RequestKeeps

LEMMA FinishStartedRunKeeps ==
    ASSUME WInv, NEW p \in Request, FinishStartedRun(p) PROVE WInv' /\ OnlyOpen
<1> DEFINE r == req[p].run
           row == [run[r] EXCEPT !.status = "succeeded"]
<1>1. /\ req[p].at = "finish" /\ UNCHANGED <<graph, current, worker, crashes>>
      /\ run' = [run EXCEPT ![r] = row] /\ req' = [req EXCEPT ![p] = Rest]
  BY DEF FinishStartedRun
<1>2. /\ r \in Run /\ run[r].status = "running"
      /\ Whole(run[r].steps, graph[run[r].version], run[r].context)
      /\ current' \in 0..Len(graph) /\ crashes' \in 0..MaxCrashes
  BY <1>1, RequestTypes DEF WInv, WTypes, RequestOK
<1>3. /\ run[r] \in Started /\ run[r].version \in 1..Len(graph)
      /\ PathOK(run[r].steps, graph[run[r].version], run[r].context)
  <2> HIDE DEF r
  <2> QED
    BY <1>2, Running
<1>4. /\ row \in Started /\ row.steps = run[r].steps
      /\ row.version = run[r].version /\ row.context = run[r].context
  <2> HIDE DEF r
  <2> QED
    BY <1>3, StatusChange
<1> HIDE DEF row
<1>5. RowOK(row, graph)
  BY <1>2, <1>3, <1>4 DEF RowOK
<1>6. Holds(req[p], r)
  BY <1>1 DEF Holds, Holding
<1>7. RunStep(req[p]) /\ \A y \in Run : y # r => run'[y] = run[y]
  <2>1. run[r].status \in {"none", "running"}
    BY <1>2
  <2> HIDE DEF r
  <2> QED
    BY <1>1, <1>2, <1>4, <1>5, <1>6, <2>1, RowChanges
<1>8. \A y \in Run : Free(y) => run'[y] = run[y]
  BY <1>6, <1>7 DEF Free
<1>9. GraphStep
  BY <1>1, <1>2, SameGraph
<1> QED
  BY <1>1, <1>7, <1>8, <1>9, Resting, RequestKeeps

-------------------------------------------------------------------------------
(* The steps of a worker *)

\* A worker's run and step, and what it relies on.
LEMMA WorkerTypes ==
    ASSUME WInv, NEW w \in Worker, worker[w].at # "rest"
    PROVE  LET r == worker[w].run
               rows == run[r].steps
               g == graph[run[r].version]
           IN  /\ worker[w] \in Resuming /\ Holds(worker[w], r)
               /\ r \in Run /\ worker[w].step \in Nat /\ run[r].status = "running"
               /\ run[r] \in Started /\ run[r].version \in 1..Len(graph)
               /\ g \in Draft /\ ValidGraph(g) /\ run[r].context \in Context
               /\ Fits(g, run[r].context) /\ rows \in Seq(StepRow)
               /\ PathOK(rows, g, run[r].context)
               /\ worker[w].step \in 1..Len(rows) /\ rows # <<>> /\ End(rows).status # "pending"
<1>1. worker[w] \in Resuming /\ ResumeOK(worker[w], graph, run)
  BY DEF WInv, WTypes, Rest
<1>2. /\ worker[w].run \in Run /\ worker[w].step \in Nat /\ Holds(worker[w], worker[w].run)
  BY <1>1 DEF Resuming, Holds, Holding
<1> DEFINE r == worker[w].run
<1>3. /\ run[r].status = "running" /\ worker[w].step \in 1..Len(run[r].steps)
      /\ End(run[r].steps).status # "pending"
  BY <1>1 DEF ResumeOK
<1>4. /\ run[r] \in Started /\ run[r].version \in 1..Len(graph)
      /\ graph[run[r].version] \in Draft /\ ValidGraph(graph[run[r].version])
      /\ run[r].context \in Context /\ run[r].steps \in Seq(StepRow)
      /\ Fits(graph[run[r].version], run[r].context)
      /\ PathOK(run[r].steps, graph[run[r].version], run[r].context)
  <2> HIDE DEF r
  <2> QED
    BY <1>2, <1>3, Running DEF r
<1>5. run[r].steps # <<>>
  <2>1. Len(<<>>) = 0
    OBVIOUS
  <2> QED
    BY <1>2, <1>3, <2>1
<1> QED
  BY <1>1, <1>2, <1>3, <1>4, <1>5

\* A worker that keeps its run and rewrites its row.
LEMMA RowResumes ==
    ASSUME WInv, NEW w \in Worker, worker[w].at # "rest",
           NEW row \in Started, run' = [run EXCEPT ![worker[w].run] = row],
           NEW s \in {Rest} \union Resuming, s = Rest \/ s.run = worker[w].run,
           worker' = [worker EXCEPT ![w] = s], UNCHANGED <<req, graph, current>>,
           crashes' \in 0..MaxCrashes, RowOK(row, graph),
           s # Rest => ResumeOK(s, graph, [run EXCEPT ![worker[w].run] = row])
    PROVE  WInv' /\ OnlyOpen
<1> DEFINE r == worker[w].run
<1>1. r \in Run /\ Holds(worker[w], r) /\ run[r].status = "running"
  BY WorkerTypes
<1>2. RunStep(worker[w]) /\ \A y \in Run : y # r => run'[y] = run[y]
  <2>1. run[r].status \in {"none", "running"}
    BY <1>1
  <2> HIDE DEF r
  <2> QED
    BY <1>1, <2>1, RowChanges DEF r
<1>3. ResumeOK(s, graph, run')
  BY Resting DEF ResumeOK
<1>4. /\ \A y \in Run : Holds(s, y) => Holds(worker[w], y) \/ Free(y)
      /\ \A y \in Run : Free(y) /\ ~ Holds(s, y) => run'[y] = run[y]
  BY <1>1, <1>2, Resting DEF Holds, Free
<1> QED
  BY <1>2, <1>3, <1>4, ResumeKeeps

\* One that leaves the row as it is.
LEMMA WorkerMoves ==
    ASSUME WInv, NEW w \in Worker, worker[w].at # "rest", UNCHANGED run,
           NEW s \in {Rest} \union Resuming, s = Rest \/ s.run = worker[w].run,
           worker' = [worker EXCEPT ![w] = s], UNCHANGED <<req, graph, current>>,
           crashes' \in 0..MaxCrashes, ResumeOK(s, graph, run)
    PROVE  WInv' /\ OnlyOpen
<1>1. RunStep(worker[w])
  BY SameRuns
<1>2. ResumeOK(s, graph, run') /\ \A y \in Run : run'[y] = run[y]
  OBVIOUS
<1>3. \A y \in Run : Holds(s, y) => Holds(worker[w], y)
  BY WorkerTypes, Resting DEF Holds
<1> QED
  BY <1>1, <1>2, <1>3, ResumeKeeps

\* A pending step is the last, and nobody has its run in hand.
LEMMA PendingIsFree ==
    ASSUME WInv, NEW r \in Run, run[r].status = "running",
           NEW i \in DOMAIN run[r].steps, run[r].steps[i].status = "pending"
    PROVE  i = Len(run[r].steps) /\ Free(r)
<1>1. /\ run[r].steps \in Seq(StepRow)
      /\ PathOK(run[r].steps, graph[run[r].version], run[r].context)
  BY Running
<1>2. run[r].steps # <<>> /\ Len(run[r].steps) \in Nat /\ i \in 1..Len(run[r].steps)
  BY <1>1
<1>3. i = Len(run[r].steps)
  <2>1. i \notin 1..(Len(run[r].steps) - 1)
    BY <1>1, <1>2 DEF PathOK, Chained
  <2> QED
    BY <1>2, <2>1
<1>4. End(run[r].steps).status = "pending"
  BY <1>3 DEF End
<1>5. ASSUME NEW p \in Request, Holds(req[p], r) PROVE FALSE
  <2>1. RequestOK(req[p], graph, run) /\ req[p].run = r /\ req[p] \in Asking
    BY <1>5 DEF WInv, WTypes, Holds, Holding, Rest
  <2>2. req[p].at \in {"insertRun", "insertSteps", "finish"}
    BY <1>5, <2>1 DEF Asking, Holds, Holding
  <2> QED
    BY <1>2, <1>4, <2>1, <2>2 DEF RequestOK, Whole
<1>6. ASSUME NEW w \in Worker, Holds(worker[w], r) PROVE FALSE
  <2>1. worker[w].at # "rest" /\ worker[w].run = r
    BY <1>6 DEF Holds, Holding
  <2> QED
    BY <1>4, <2>1, WorkerTypes
<1> QED
  BY <1>3, <1>5, <1>6 DEF Free

LEMMA ClaimKeeps == ASSUME WInv, NEW w \in Worker, Claim(w) PROVE WInv' /\ OnlyOpen
<1>1. PICK r \in Run : \E i \in DOMAIN run[r].steps :
         /\ run[r].status = "running" /\ run[r].steps[i].status = "pending"
         /\ run' = [run EXCEPT ![r].steps[i].status = "running"]
         /\ worker' = [worker EXCEPT ![w] = [at |-> "complete", run |-> r, step |-> i]]
  BY DEF Claim
<1>2. PICK i \in DOMAIN run[r].steps :
         /\ run[r].status = "running" /\ run[r].steps[i].status = "pending"
         /\ run' = [run EXCEPT ![r].steps[i].status = "running"]
         /\ worker' = [worker EXCEPT ![w] = [at |-> "complete", run |-> r, step |-> i]]
  BY <1>1
<1>3. /\ worker[w] = Rest /\ UNCHANGED <<graph, current, req, crashes>>
      /\ current' \in 0..Len(graph) /\ crashes' \in 0..MaxCrashes
  BY DEF Claim, WInv, WTypes
<1> DEFINE old == run[r].steps
           g == graph[run[r].version]
           x == run[r].context
           new == [old EXCEPT ![i].status = "running"]
           row == [run[r] EXCEPT !.steps = new]
           s == [at |-> "complete", run |-> r, step |-> i]
<1>4. i = Len(old) /\ Free(r)
  BY <1>2, PendingIsFree
<1>5. /\ run[r] \in Started /\ run[r].version \in 1..Len(graph) /\ old \in Seq(StepRow)
      /\ PathOK(old, g, x)
  BY <1>2, Running
<1>6. old # <<>> /\ i \in Nat /\ i \in 1..Len(old)
  BY <1>5
<1>7. g.kind[End(old).node] = "delay"
  BY <1>2, <1>4, <1>5, <1>6 DEF PathOK, End
<1>8. /\ new \in Seq(StepRow) /\ new # <<>> /\ Len(new) = Len(old)
      /\ End(new).status = "running" /\ PathOK(new, g, x)
  <2> DEFINE status == "running"
  <2>1. new = SetRow(old, i, status) /\ status = "running"
        /\ status \in {"pending", "running", "succeeded", "failed"}
    BY DEF SetRow
  <2> HIDE DEF old, g, x, new, status
  <2>2. status = "succeeded" \/ g.kind[End(old).node] = "delay"
    BY <1>7
  <2>3. /\ new \in Seq(StepRow) /\ new # <<>> /\ Len(new) = Len(old)
        /\ End(new).status = status /\ PathOK(new, g, x)
    BY <1>4, <1>5, <1>6, <2>1, <2>2, EndSet
  <2> QED
    BY <2>1, <2>3
<1>9. /\ row \in Started /\ row.steps = new /\ row.status = "running"
      /\ row.version = run[r].version /\ row.context = x
  <2> HIDE DEF new
  <2> QED
    BY <1>2, <1>5, <1>8, StepsChange
<1>10. run' = [run EXCEPT ![r] = row]
  <2>1. run \in [Run -> {Fresh} \union Started]
    BY DEF WInv, WTypes
  <2> QED
    BY <1>2, <2>1
<1>11. s \in Resuming /\ s.at = "complete" /\ s.run = r /\ s.step = i
  BY <1>6 DEF Resuming
<1>12. worker' = [worker EXCEPT ![w] = s]
  BY <1>2
<1> HIDE DEF row, s, new
<1>13. RowOK(row, graph)
  BY <1>5, <1>8, <1>9 DEF RowOK
<1>14. RunStep(worker[w]) /\ run'[r] = row /\ \A y \in Run : y # r => run'[y] = run[y]
  BY <1>2, <1>3, <1>4, <1>9, <1>10, <1>13, RowChanges
<1>15. ResumeOK(s, graph, run')
  BY <1>4, <1>6, <1>8, <1>9, <1>11, <1>14 DEF ResumeOK
<1>16. /\ \A y \in Run : Holds(s, y) => Free(y)
       /\ \A y \in Run : Free(y) /\ ~ Holds(s, y) => run'[y] = run[y]
  BY <1>4, <1>11, <1>14 DEF Holds, Holding
<1> QED
  BY <1>3, <1>11, <1>12, <1>14, <1>15, <1>16, ResumeKeeps

\* A worker writes the outcome of its step: the last one, and a delay.
SetIn(R, r, i, status) == [R EXCEPT ![r].steps[i].status = status]
Written(R, row, r, i, status) ==
    /\ R = [run EXCEPT ![r] = row] /\ RowOK(row, graph)
    /\ row.status = "running" /\ row.version = run[r].version /\ row.context = run[r].context
    /\ i = Len(row.steps) /\ row.steps # <<>> /\ i \in 1..Len(row.steps)
    /\ End(row.steps).status = status /\ End(row.steps).node = run[r].steps[i].node

LEMMA StepIsSet ==
    ASSUME WInv, NEW w \in Worker, worker[w].at # "rest",
           NEW r, r = worker[w].run, NEW i, i = worker[w].step,
           run[r].steps[i].status = "running", NEW status \in {"succeeded", "failed"},
           run' = SetIn(run, r, i, status)
    PROVE  \E row \in Started : Written(run', row, r, i, status)
<1> DEFINE old == run[r].steps
           g == graph[run[r].version]
           x == run[r].context
           new == SetRow(old, i, status)
           row == [run[r] EXCEPT !.steps = new]
<1>1. /\ r \in Run /\ run[r].status = "running" /\ run[r] \in Started
      /\ run[r].version \in 1..Len(graph) /\ old \in Seq(StepRow) /\ PathOK(old, g, x)
      /\ i \in 1..Len(old) /\ old # <<>> /\ Len(old) \in Nat
  <2>1. /\ r \in Run /\ run[r].status = "running" /\ run[r] \in Started
        /\ run[r].version \in 1..Len(graph) /\ old \in Seq(StepRow) /\ PathOK(old, g, x)
        /\ i \in 1..Len(old) /\ old # <<>>
    BY WorkerTypes
  <2>2. Len(old) \in Nat
    BY <2>1
  <2> QED
    BY <2>1, <2>2
<1>2. i = Len(old)
  <2>1. i \notin 1..(Len(old) - 1)
    BY <1>1 DEF PathOK, Chained
  <2> QED
    BY <1>1, <2>1
<1>3. End(old) = old[i] /\ g.kind[End(old).node] = "delay"
  BY <1>1, <1>2 DEF PathOK, End
<1>4. /\ new \in Seq(StepRow) /\ new # <<>> /\ Len(new) = Len(old)
      /\ End(new).status = status /\ End(new).node = End(old).node /\ PathOK(new, g, x)
  <2>1. new = SetRow(old, i, status) /\ status \in {"pending", "running", "succeeded", "failed"}
    OBVIOUS
  <2> HIDE DEF old, g, x, new
  <2> QED
    BY <1>1, <1>2, <1>3, <2>1, EndSet
<1>5. /\ row \in Started /\ row.steps = new /\ row.status = "running"
      /\ row.version = run[r].version /\ row.context = x
  <2> HIDE DEF new
  <2> QED
    BY <1>1, <1>4, StepsChange
<1>6. run' = [run EXCEPT ![r] = row]
  <2>1. run \in [Run -> {Fresh} \union Started]
    BY DEF WInv, WTypes
  <2> QED
    BY <1>1, <2>1 DEF SetRow, SetIn
<1> HIDE DEF row, new
<1>7. RowOK(row, graph)
  BY <1>1, <1>4, <1>5 DEF RowOK
<1>8. Written(run', row, r, i, status)
  BY <1>1, <1>2, <1>3, <1>4, <1>5, <1>6, <1>7 DEF Written
<1> QED
  BY <1>5, <1>8

\* What a worker is about to do next.
LEMMA AtType ==
    ASSUME NEW old \in Resuming, NEW at \in {"complete", "insertSteps", "finish", "failStep", "failRun"},
           NEW s, s = [old EXCEPT !.at = at]
    PROVE  s \in Resuming /\ s.at = at /\ s.run = old.run /\ s.step = old.step
  BY DEF Resuming

LEMMA CompleteStepKeeps == ASSUME WInv, NEW w \in Worker, CompleteStep(w) PROVE WInv' /\ OnlyOpen
<1> DEFINE r == worker[w].run
           i == worker[w].step
           at == IF AfterDelay(r, i) = None THEN "finish" ELSE "insertSteps"
           s == [worker[w] EXCEPT !.at = at]
<1>1. /\ worker[w].at = "complete" /\ SetStep(r, i, "succeeded") /\ worker' = [worker EXCEPT ![w] = s]
      /\ UNCHANGED <<graph, current, req, crashes>> /\ crashes' \in 0..MaxCrashes
  BY DEF CompleteStep, WInv, WTypes
<1>2. worker[w].at # "rest" /\ worker[w] \in Resuming /\ ResumeOK(worker[w], graph, run)
  BY <1>1, WorkerTypes DEF WInv
<1>3. r \in Run /\ run[r].steps \in Seq(StepRow) /\ run[r].version \in 1..Len(graph)
  BY <1>2, WorkerTypes
<1>4. run[r].steps[i].status = "running"
  BY <1>1, <1>2 DEF ResumeOK, End
<1>5. PICK row \in Started :
         /\ run' = [run EXCEPT ![r] = row] /\ RowOK(row, graph)
         /\ row.status = "running" /\ row.version = run[r].version /\ row.context = run[r].context
         /\ i = Len(row.steps) /\ row.steps # <<>> /\ i \in 1..Len(row.steps)
         /\ End(row.steps).status = "succeeded" /\ End(row.steps).node = run[r].steps[i].node
  <2>1. run' = [run EXCEPT ![r].steps[i].status = "succeeded"]
    BY <1>1, <1>4 DEF SetStep
  <2> DEFINE status == "succeeded"
  <2>2. run' = SetIn(run, r, i, status) /\ status \in {"succeeded", "failed"}
    BY <2>1 DEF SetIn
  <2> HIDE DEF status
  <2>3. \E row \in Started : Written(run', row, r, i, status)
    BY <1>2, <1>4, <2>2, StepIsSet
  <2> QED
    BY <2>3 DEF status, Written
<1>6. AfterDelay(r, i) = NextOf(graph[row.version], row.context, End(row.steps).node)
  BY <1>5 DEF AfterDelay
<1>7. at \in {"insertSteps", "finish"} /\ (at = "finish" <=> AfterDelay(r, i) = None)
  OBVIOUS
<1>8. s \in Resuming /\ s.at = at /\ s.run = r /\ s.step = i
  <2> HIDE DEF at
  <2> QED
    BY <1>2, <1>7, AtType
<1> HIDE DEF s, at
<1>9. at = "finish" => Whole(row.steps, graph[row.version], row.context)
  BY <1>5, <1>6, <1>7 DEF Whole
<1> DEFINE Z == [run EXCEPT ![r] = row]
<1>10. Z[r] = row
  BY <1>3 DEF WInv, WTypes
<1> HIDE DEF Z
<1>11. ResumeOK(s, graph, Z)
  BY <1>5, <1>6, <1>7, <1>8, <1>9, <1>10 DEF ResumeOK
<1> QED
  BY <1>1, <1>2, <1>5, <1>8, <1>11, RowResumes DEF Z

LEMMA InsertNextStepsKeeps == ASSUME WInv, NEW w \in Worker, InsertNextSteps(w) PROVE WInv' /\ OnlyOpen
<1> DEFINE r == worker[w].run
           g == graph[run[r].version]
           x == run[r].context
           old == run[r].steps
           start == AfterDelay(r, worker[w].step)
           nodes == Trace(g, x, start)
           rows == StepRows(g, nodes)
           all == old \o rows
           row == [run[r] EXCEPT !.steps = all]
           s == IF HasDelay(g, nodes) THEN Rest ELSE [worker[w] EXCEPT !.at = "finish"]
<1>1. /\ worker[w].at = "insertSteps" /\ worker' = [worker EXCEPT ![w] = s]
      /\ run' = [run EXCEPT ![r] = row]
      /\ UNCHANGED <<graph, current, req, crashes>> /\ crashes' \in 0..MaxCrashes
  BY DEF InsertNextSteps, WInv, WTypes
<1>2. worker[w].at # "rest" /\ ResumeOK(worker[w], graph, run)
  BY <1>1 DEF WInv
<1>3. /\ worker[w] \in Resuming /\ r \in Run /\ run[r].status = "running" /\ run[r] \in Started
      /\ run[r].version \in 1..Len(graph) /\ g \in Draft /\ x \in Context /\ Fits(g, x)
      /\ old \in Seq(StepRow) /\ PathOK(old, g, x) /\ old # <<>>
  BY <1>2, WorkerTypes
<1>4. /\ worker[w].step = Len(old) /\ End(old).status = "succeeded"
      /\ NextOf(g, x, End(old).node) # None
  BY <1>1, <1>2 DEF ResumeOK
<1>5. start = NextOf(g, x, End(old).node)
  BY <1>4 DEF AfterDelay, End
<1>6. start \in Node
  <2>1. End(old) \in StepRow
    <3>1. Len(old) \in 1..Len(old)
      BY <1>3
    <3> QED
      BY <1>3, <3>1 DEF End
  <2>2. End(old).node \in Node
    BY <2>1 DEF StepRow
  <2> QED
    BY <1>3, <1>4, <1>5, <2>2 DEF Fits
<1>7. /\ rows \in Seq(StepRow) /\ rows # <<>> /\ rows[1].node = start
      /\ Chained(rows, g, x)
      /\ HasDelay(g, nodes) => End(rows).status = "pending" /\ g.kind[End(rows).node] = "delay"
      /\ ~ HasDelay(g, nodes) => Whole(rows, g, x)
  <2> HIDE DEF g, x, start
  <2> QED
    BY <1>3, <1>6, Segment
<1>8. End(rows).status # "succeeded" => g.kind[End(rows).node] = "delay"
  BY <1>7 DEF Whole
<1>9. /\ all \in Seq(StepRow) /\ Len(old) \in 1..Len(all)
      /\ PathOK(all, g, x) /\ End(all) = End(rows)
      /\ Whole(rows, g, x) => Whole(all, g, x)
  <2>1. all = Behind(old, rows)
    BY DEF Behind
  <2>2. rows[1].node = NextOf(g, x, End(old).node)
    BY <1>5, <1>7
  <2> HIDE DEF g, x, start, nodes, rows, old, all
  <2> QED
    BY <1>3, <1>4, <1>7, <1>8, <2>1, <2>2, Joined
<1>10. /\ row \in Started /\ row.steps = all /\ row.status = "running"
       /\ row.version = run[r].version /\ row.context = x
  <2> HIDE DEF all
  <2> QED
    BY <1>3, <1>9, StepsChange
<1>11. /\ s \in {Rest} \union Resuming
       /\ s = Rest \/ (s.at = "finish" /\ s.run = r /\ s.step = Len(old))
       /\ s # Rest => Whole(all, g, x)
  <2>1. LET z == [worker[w] EXCEPT !.at = "finish"]
        IN z \in Resuming /\ z.at = "finish" /\ z.run = r /\ z.step = Len(old)
    BY <1>3, <1>4 DEF Resuming
  <2> QED
    BY <1>7, <1>9, <2>1 DEF Rest
<1> HIDE DEF row, s, all, rows, nodes, start
<1>12. RowOK(row, graph)
  BY <1>3, <1>9, <1>10, <1>11 DEF RowOK
<1> DEFINE Z == [run EXCEPT ![r] = row]
<1>13. Z[r] = row
  BY <1>3 DEF WInv, WTypes
<1> HIDE DEF Z
<1>14. s # Rest => ResumeOK(s, graph, Z)
  <2>1. s # Rest => End(all).status = "succeeded"
    BY <1>11 DEF Whole
  <2>2. s # Rest => Len(old) \in 1..Len(row.steps) /\ End(row.steps).status # "pending"
                    /\ Whole(row.steps, graph[row.version], row.context)
    BY <1>9, <1>10, <1>11, <2>1
  <2> HIDE DEF old
  <2> QED
    BY <1>10, <1>11, <1>13, <2>2 DEF ResumeOK
<1>15. s = Rest \/ s.run = worker[w].run
  BY <1>11
<1> HIDE DEF old, g, x
<1> QED
  BY <1>1, <1>2, <1>10, <1>11, <1>12, <1>14, <1>15, RowResumes DEF Z

LEMMA FinishRunKeeps == ASSUME WInv, NEW w \in Worker, FinishRun(w) PROVE WInv' /\ OnlyOpen
<1> DEFINE r == worker[w].run
           row == [run[r] EXCEPT !.status = "succeeded"]
<1>1. /\ worker[w].at = "finish" /\ worker' = [worker EXCEPT ![w] = Rest]
      /\ run' = [run EXCEPT ![r] = row]
      /\ UNCHANGED <<graph, current, req, crashes>> /\ crashes' \in 0..MaxCrashes
  BY DEF FinishRun, WInv, WTypes
<1>2. worker[w].at # "rest" /\ ResumeOK(worker[w], graph, run)
  BY <1>1 DEF WInv
<1>3. /\ run[r] \in Started /\ run[r].version \in 1..Len(graph)
      /\ PathOK(run[r].steps, graph[run[r].version], run[r].context)
  BY <1>2, WorkerTypes
<1>4. Whole(run[r].steps, graph[run[r].version], run[r].context)
  BY <1>1, <1>2 DEF ResumeOK
<1>5. /\ row \in Started /\ row.steps = run[r].steps
      /\ row.version = run[r].version /\ row.context = run[r].context
  <2> HIDE DEF r
  <2> QED
    BY <1>3, StatusChange
<1> HIDE DEF row
<1>6. RowOK(row, graph)
  BY <1>3, <1>4, <1>5 DEF RowOK
<1> QED
  BY <1>1, <1>2, <1>5, <1>6, RowResumes

LEMMA FailRunKeeps == ASSUME WInv, NEW w \in Worker, FailRun(w) PROVE WInv' /\ OnlyOpen
<1> DEFINE r == worker[w].run
           row == [run[r] EXCEPT !.status = "failed"]
<1>1. /\ worker[w].at = "failRun" /\ worker' = [worker EXCEPT ![w] = Rest]
      /\ run' = [run EXCEPT ![r] = row]
      /\ UNCHANGED <<graph, current, req, crashes>> /\ crashes' \in 0..MaxCrashes
  BY DEF FailRun, WInv, WTypes
<1>2. worker[w].at # "rest"
  BY <1>1
<1>3. /\ run[r] \in Started /\ run[r].version \in 1..Len(graph)
      /\ PathOK(run[r].steps, graph[run[r].version], run[r].context)
  BY <1>2, WorkerTypes
<1>5. /\ row \in Started /\ row.steps = run[r].steps /\ row.status = "failed"
      /\ row.version = run[r].version /\ row.context = run[r].context
  <2> HIDE DEF r
  <2> QED
    BY <1>3, StatusChange
<1> HIDE DEF row
<1>6. RowOK(row, graph)
  BY <1>3, <1>5 DEF RowOK
<1> QED
  BY <1>1, <1>2, <1>5, <1>6, RowResumes

LEMMA RejectKeeps == ASSUME WInv, NEW w \in Worker, Reject(w) PROVE WInv' /\ OnlyOpen
<1> DEFINE s == [worker[w] EXCEPT !.at = "failStep"]
<1>1. /\ worker[w].at # "rest" /\ worker' = [worker EXCEPT ![w] = s]
      /\ UNCHANGED <<graph, current, run, req>>
      /\ crashes \in 0..MaxCrashes /\ crashes < MaxCrashes /\ crashes' = crashes + 1
  BY DEF Reject, WInv, WTypes
<1>2. crashes' \in 0..MaxCrashes
  BY <1>1, WorkflowAssumption
<1>3. worker[w] \in Resuming /\ ResumeOK(worker[w], graph, run)
  BY <1>1, WorkerTypes DEF WInv
<1>4. s \in Resuming /\ s.at = "failStep" /\ s.run = worker[w].run /\ s.step = worker[w].step
  BY <1>3 DEF Resuming
<1> HIDE DEF s
<1>5. ResumeOK(s, graph, run)
  BY <1>1, <1>3, <1>4 DEF ResumeOK
<1> QED
  BY <1>1, <1>2, <1>4, <1>5, WorkerMoves

LEMMA FailStepKeeps == ASSUME WInv, NEW w \in Worker, FailStep(w) PROVE WInv' /\ OnlyOpen
<1> DEFINE r == worker[w].run
           i == worker[w].step
           s == [worker[w] EXCEPT !.at = "failRun"]
<1>1. /\ worker[w].at = "failStep" /\ SetStep(r, i, "failed") /\ worker' = [worker EXCEPT ![w] = s]
      /\ UNCHANGED <<graph, current, req, crashes>> /\ crashes' \in 0..MaxCrashes
  BY DEF FailStep, WInv, WTypes
<1>2. worker[w].at # "rest" /\ worker[w] \in Resuming /\ ResumeOK(worker[w], graph, run) /\ r \in Run
  BY <1>1, WorkerTypes DEF WInv
<1>3. s \in Resuming /\ s.at = "failRun" /\ s.run = r /\ s.step = i
  BY <1>2 DEF Resuming
<1> HIDE DEF s
<1>4. CASE run[r].steps[i].status # "running"
  <2>1. UNCHANGED run
    BY <1>1, <1>4 DEF SetStep
  <2>2. ResumeOK(s, graph, run)
    BY <1>1, <1>2, <1>3 DEF ResumeOK
  <2> QED
    BY <1>1, <1>2, <1>3, <2>1, <2>2, WorkerMoves
<1>5. CASE run[r].steps[i].status = "running"
  <2> DEFINE status == "failed"
  <2>1. run' = SetIn(run, r, i, status) /\ status \in {"succeeded", "failed"}
    BY <1>1, <1>5 DEF SetStep, SetIn
  <2> HIDE DEF status
  <2>2. PICK row \in Started : Written(run', row, r, i, status)
    BY <1>2, <1>5, <2>1, StepIsSet
  <2>3. /\ run' = [run EXCEPT ![r] = row] /\ RowOK(row, graph)
        /\ row.status = "running" /\ i \in 1..Len(row.steps) /\ End(row.steps).status = "failed"
    BY <2>2 DEF Written, status
  <2> DEFINE Z == [run EXCEPT ![r] = row]
  <2>4. Z[r] = row
    BY <1>2 DEF WInv, WTypes
  <2> HIDE DEF Z
  <2>5. ResumeOK(s, graph, Z)
    BY <1>3, <2>3, <2>4 DEF ResumeOK
  <2> QED
    BY <1>1, <1>2, <1>3, <2>3, <2>5, RowResumes DEF Z
<1> QED
  BY <1>4, <1>5

LEMMA CrashKeeps == ASSUME WInv, Crash PROVE WInv' /\ OnlyOpen
<1>1. /\ UNCHANGED <<graph, current, run>> /\ crashes' = crashes + 1 /\ crashes < MaxCrashes
      /\ crashes \in 0..MaxCrashes /\ current \in 0..Len(graph)
  BY DEF Crash, WInv, WTypes
<1>2. crashes' \in 0..MaxCrashes
  BY <1>1, WorkflowAssumption
<1>3. GraphStep
  BY <1>1, <1>2, SameGraph
<1>4. CASE \E p \in Request : req[p] # Rest /\ req' = [req EXCEPT ![p] = Rest] /\ UNCHANGED worker
  <2>1. PICK p \in Request : req' = [req EXCEPT ![p] = Rest] /\ worker' = worker
    BY <1>4
  <2> QED
    BY <1>1, <1>3, <2>1, SameRuns, Resting, RequestKeeps
<1>5. CASE \E w \in Worker : worker[w] # Rest /\ worker' = [worker EXCEPT ![w] = Rest] /\ UNCHANGED req
  <2>1. PICK w \in Worker : worker' = [worker EXCEPT ![w] = Rest] /\ req' = req
    BY <1>5
  <2> QED
    BY <1>1, <1>2, <2>1, SameRuns, Resting, ResumeKeeps
<1> QED
  BY <1>4, <1>5 DEF Crash

LEMMA Stutters == ASSUME WInv, UNCHANGED vars PROVE WInv' /\ OnlyOpen
<1>1. WTypes' /\ (\A v \in 1..Len(graph) : ValidGraph(graph[v]))' /\ OnlyOpen
  BY DEF WInv, WTypes, ValidGraph, OnlyOpen, vars
<1>2. (\A r \in Run : RowOK(run[r], graph))'
  BY DEF WInv, RowOK, vars
<1>3. (\A p \in Request : RequestOK(req[p], graph, run))'
  BY DEF WInv, RequestOK, vars
<1>4. (\A w \in Worker : ResumeOK(worker[w], graph, run))'
  BY DEF WInv, ResumeOK, vars
<1>5. (\A r \in Run : Alone(r))'
  BY DEF WInv, Alone, Holds, vars
<1> QED
  BY <1>1, <1>2, <1>3, <1>4, <1>5 DEF WInv

LEMMA WNext == WInv /\ [Next]_vars => WInv' /\ OnlyOpen
<1> SUFFICES ASSUME WInv, [Next]_vars PROVE WInv' /\ OnlyOpen
  OBVIOUS
<1>1. ASSUME NEW p \in Request, SaveVersion(p) PROVE WInv' /\ OnlyOpen
  BY <1>1, SaveVersionKeeps
<1>2. ASSUME NEW p \in Request, StartRun(p) PROVE WInv' /\ OnlyOpen
  BY <1>2, StartRunKeeps
<1>3. ASSUME NEW p \in Request, RequestStep(p) PROVE WInv' /\ OnlyOpen
  BY <1>3, InsertVersionKeeps, SetCurrentKeeps, InsertRunKeeps, InsertFirstStepsKeeps,
     FinishStartedRunKeeps DEF RequestStep
<1>4. ASSUME NEW w \in Worker, WorkerStep(w) PROVE WInv' /\ OnlyOpen
  BY <1>4, ClaimKeeps, CompleteStepKeeps, InsertNextStepsKeeps, FinishRunKeeps, FailStepKeeps,
     FailRunKeeps DEF WorkerStep
<1>5. ASSUME NEW w \in Worker, Reject(w) PROVE WInv' /\ OnlyOpen
  BY <1>5, RejectKeeps
<1> QED
  BY <1>1, <1>2, <1>3, <1>4, <1>5, CrashKeeps, Stutters DEF Next

LEMMA WInvariant == Spec => []WInv
<1>1. WInv /\ [Next]_vars => WInv'
  BY WNext
<1> QED
  BY WInit, <1>1, PTL DEF Spec

-------------------------------------------------------------------------------
(* What follows for every run *)

\* Versions, runs, requests and workers are always well formed (saveVersion, createRun,
\* processNextWorkflowDelay).
THEOREM WorkflowTypeCorrect == Spec => []TypeOK
<1>1. WInv => TypeOK
  <2> SUFFICES ASSUME WInv PROVE TypeOK
    OBVIOUS
  <2>1. graph \in Seq(Draft) /\ current \in 0..Len(graph) /\ crashes \in 0..MaxCrashes
    BY DEF WInv, WTypes
  <2>2. ASSUME NEW r \in Run
        PROVE  /\ run[r].status \in {"none", "running", "succeeded", "failed"}
               /\ run[r].status # "none" => run[r].version \in 1..Len(graph)
               /\ run[r].steps \in Seq(StepRow)
    <3>1. CASE run[r] = Fresh
      <4>1. <<>> \in Seq(StepRow)
        OBVIOUS
      <4> QED
        BY <3>1, <4>1 DEF Fresh
    <3>2. CASE run[r] \in Started
      <4>1. RowOK(run[r], graph)
        BY DEF WInv
      <4> QED
        BY <3>2, <4>1 DEF Started, RowOK
    <3> QED
      BY <3>1, <3>2 DEF WInv, WTypes
  <2>3. ASSUME NEW p \in Request, req[p] # Rest
        PROVE  "run" \in DOMAIN req[p] \/ "version" \in DOMAIN req[p]
    <3>1. req[p] \in Asking
      BY <2>3 DEF WInv, WTypes
    <3> QED
      BY <3>1 DEF Asking
  <2>4. ASSUME NEW w \in Worker, worker[w] # Rest PROVE worker[w].run \in Run
    BY <2>4 DEF WInv, WTypes, Resuming
  <2> QED
    BY <2>1, <2>2, <2>3, <2>4 DEF TypeOK, StepRow
<1> QED
  BY WInvariant, <1>1, PTL

\* The rows of a run are a path of the version it was started with, from the trigger along
\* the branches its variables choose, and only its end can be an open or failed delay,
\* whatever is saved meanwhile and however many workers resume it.
THEOREM RowsAreAPath == Spec => []StepsFollowPath
<1>1. WInv => StepsFollowPath
  <2> SUFFICES ASSUME WInv, NEW r \in Run, Steps(r) # <<>>
               PROVE  LET g == graph[run[r].version]
                          path == Steps(r)
                      IN  /\ path[1].node = Trigger(g)
                          /\ \A i \in 1..Len(path) - 1 :
                                /\ path[i + 1].node = NextOf(g, run[r].context, path[i].node)
                                /\ path[i].status = "succeeded"
                          /\ Last(r).status # "succeeded" => g.kind[Last(r).node] = "delay"
    BY DEF StepsFollowPath
  <2>1. run[r].status # "none"
    <3>1. run[r] \in {Fresh} \union Started /\ run[r] # Fresh
      BY DEF WInv, WTypes, Fresh, Steps
    <3> QED
      BY <3>1 DEF Started
  <2>2. PathOK(run[r].steps, graph[run[r].version], run[r].context)
    BY <2>1, Running
  <2> QED
    BY <2>2 DEF PathOK, Chained, Steps, Last, End
<1> QED
  BY WInvariant, <1>1, PTL

\* A run that succeeded executed everything: no step of it is open, and its path ended or
\* came back to a node it had executed (the half of RunAgreesWithSteps that is a safety
\* property; createRun and processNextWorkflowDelay write the status apart from the steps).
THEOREM SucceededIsComplete ==
    Spec => [](\A r \in Run : run[r].status = "succeeded" => Complete(r))
<1>1. WInv => \A r \in Run : run[r].status = "succeeded" => Complete(r)
  <2> SUFFICES ASSUME WInv, NEW r \in Run, run[r].status = "succeeded" PROVE Complete(r)
    OBVIOUS
  <2>1. Whole(run[r].steps, graph[run[r].version], run[r].context)
    BY DEF WInv, RowOK
  <2> QED
    BY <2>1 DEF Whole, Complete, Steps, Last, End, NodesOf
<1> QED
  BY WInvariant, <1>1, PTL

\* A run that is over stays as it is: no request or worker resumes or re-judges it.
THEOREM OverStays == Spec => OverIsOver
<1>1. WInv /\ [Next]_vars =>
         [\A r \in Run : run[r].status \in {"succeeded", "failed"} => run'[r] = run[r]]_vars
  BY WNext DEF OnlyOpen
<1> QED
  BY WInvariant, <1>1, PTL DEF Spec, OverIsOver

-------------------------------------------------------------------------------
(* The current version *)

\* While no two saves overlap and none is cut short, the one save under way is what the
\* current version is behind; and as long as nothing is cut short, a workflow without a
\* current version has one coming.
NewestInv ==
    /\ IsFiniteSet(Saving)
    /\ ~ contended =>
          /\ \A p, q \in Saving : p = q
          /\ Saving = {} => current = Len(graph)
          /\ \A p \in Request :
                /\ req[p].at = "insertVersion" => req[p].version = Len(graph) + 1 /\ current = Len(graph)
                /\ req[p].at = "setCurrent" => req[p].version = Len(graph)
    /\ crashes = 0 /\ graph # <<>> /\ current = 0 => \E p \in Request : req[p].at = "setCurrent"

\* A step that has nothing to do with saving.
Aside ==
    /\ UNCHANGED <<graph, current>> /\ crashes' = crashes
    /\ \A p \in Request :
          IF p \in Saving THEN req'[p] = req[p] ELSE req'[p].at \notin {"insertVersion", "setCurrent"}

\* A step that is counted as a crash.
Counted ==
    /\ UNCHANGED <<graph, current>> /\ crashes' = crashes + 1
    /\ \A p \in Request :
          req'[p] = req[p] \/ req'[p].at \notin {"insertVersion", "setCurrent"}

LEMMA AsideOf ==
    ASSUME WInv, NEW p \in Request, NEW s, req' = [req EXCEPT ![p] = s],
           req[p].at \notin {"insertVersion", "setCurrent"},
           s.at \notin {"insertVersion", "setCurrent"},
           UNCHANGED <<graph, current, crashes>>
    PROVE  Aside
  BY DEF WInv, WTypes, Aside, Saving

LEMMA AsideOrCounted ==
    ASSUME WInv, Next
    PROVE  \/ \E p \in Request : SaveVersion(p) \/ InsertVersion(p) \/ SetCurrentVersion(p)
           \/ Aside \/ Counted
<1>1. ASSUME NEW p \in Request, StartRun(p) PROVE Aside
  <2>1. PICK r \in Run, c \in Context :
           req' = [req EXCEPT ![p] = [at |-> "insertRun", run |-> r, version |-> current, context |-> c]]
    BY <1>1 DEF StartRun
  <2> DEFINE s == [at |-> "insertRun", run |-> r, version |-> current, context |-> c]
  <2>2. s.at = "insertRun" /\ req' = [req EXCEPT ![p] = s]
    BY <2>1
  <2>3. req[p].at = "rest" /\ UNCHANGED <<graph, current, crashes>>
    BY <1>1 DEF StartRun, Rest
  <2> HIDE DEF s
  <2> QED
    BY <2>2, <2>3, AsideOf
<1>2. ASSUME NEW p \in Request, InsertRun(p) PROVE Aside
  <2> DEFINE s == [at |-> "insertSteps", run |-> req[p].run]
  <2>1. s.at = "insertSteps" /\ req' = [req EXCEPT ![p] = s]
    BY <1>2 DEF InsertRun
  <2> HIDE DEF s
  <2> QED
    BY <1>2, <2>1, AsideOf DEF InsertRun
<1>3. ASSUME NEW p \in Request, InsertFirstSteps(p) PROVE Aside
  <2>1. /\ req[p].at = "insertSteps" /\ UNCHANGED <<graph, current, crashes>>
        /\ \/ req' = [req EXCEPT ![p] = Rest]
           \/ req' = [req EXCEPT ![p] = [req[p] EXCEPT !.at = "finish"]]
    BY <1>3 DEF InsertFirstSteps
  <2>2. CASE req' = [req EXCEPT ![p] = Rest]
    <3>1. Rest.at = "rest"
      BY DEF Rest
    <3> QED
      BY <2>1, <2>2, <3>1, AsideOf
  <2>3. CASE req' = [req EXCEPT ![p] = [req[p] EXCEPT !.at = "finish"]]
    <3> DEFINE s == [req[p] EXCEPT !.at = "finish"]
    <3>1. s.at = "finish"
      <4>1. req[p] \in [at : {"insertSteps", "finish"}, run : Run]
        BY <2>1, RequestTypes DEF Asking, Rest
      <4> QED
        BY <4>1
    <3>2. req' = [req EXCEPT ![p] = s]
      BY <2>3
    <3> HIDE DEF s
    <3> QED
      BY <2>1, <3>1, <3>2, AsideOf
  <2> QED
    BY <2>1, <2>2, <2>3
<1>4. ASSUME NEW p \in Request, FinishStartedRun(p) PROVE Aside
  <2>1. Rest.at = "rest" /\ req' = [req EXCEPT ![p] = Rest] /\ req[p].at = "finish"
    BY <1>4 DEF Rest, FinishStartedRun
  <2> QED
    BY <1>4, <2>1, AsideOf DEF FinishStartedRun
<1>5. ASSUME NEW w \in Worker, WorkerStep(w) PROVE Aside
  <2>1. UNCHANGED <<graph, current, req, crashes>>
    BY <1>5 DEF WorkerStep, Claim, CompleteStep, InsertNextSteps, FinishRun, FailStep, FailRun
  <2> QED
    BY <2>1 DEF Aside, Saving
<1>6. ASSUME NEW w \in Worker, Reject(w) PROVE Counted
  BY <1>6 DEF Reject, Counted
<1>7. ASSUME Crash PROVE Counted
  <2>1. UNCHANGED <<graph, current>> /\ crashes' = crashes + 1
        /\ (req' = req \/ \E p \in Request : req' = [req EXCEPT ![p] = Rest])
    BY <1>7 DEF Crash
  <2>2. Rest.at = "rest"
    BY DEF Rest
  <2> QED
    BY <2>1, <2>2 DEF Counted, WInv, WTypes
<1> QED
  BY <1>1, <1>2, <1>3, <1>4, <1>5, <1>6, <1>7 DEF Next, RequestStep

LEMMA NewestInit == Init /\ contended = FALSE => NewestInv
<1> SUFFICES ASSUME Init, contended = FALSE PROVE NewestInv
  OBVIOUS
<1>1. Saving = {} /\ graph = <<>> /\ current = 0 /\ \A p \in Request : req[p].at = "rest"
  BY DEF Init, Saving, Rest
<1>2. IsFiniteSet(Saving)
  BY <1>1, FS_EmptySet
<1> QED
  BY <1>1, <1>2 DEF NewestInv

\* A save that is under way alone is the only one.
LEMMA OneSaves ==
    ASSUME NEW S, IsFiniteSet(S), ~ (Cardinality(S) > 1)
    PROVE  \A p, q \in S : p = q
<1> SUFFICES ASSUME NEW p \in S, NEW q \in S, p # q PROVE FALSE
  OBVIOUS
<1> DEFINE n == Cardinality(S)
           m == Cardinality(S \ {p})
<1>1. IsFiniteSet(S \ {p}) /\ m = n - 1 /\ n \in Nat
  BY FS_RemoveElement, FS_CardinalityType
<1>2. q \in S \ {p}
  OBVIOUS
<1>3. m \in Nat /\ m # 0
  BY <1>1, <1>2, FS_CardinalityType, FS_EmptySet
<1> HIDE DEF n, m
<1>4. n > 1
  BY <1>1, <1>3
<1> QED
  BY <1>4 DEF n

LEMMA SavingStaysFinite ==
    ASSUME NewestInv, NEW p \in Request, \A q \in Request : q # p => req'[q] = req[q]
    PROVE  IsFiniteSet(Saving')
<1>1. Saving' \subseteq Saving \union {p}
  BY DEF Saving
<1>2. IsFiniteSet(Saving \union {p})
  BY FS_AddElement DEF NewestInv
<1> QED
  BY <1>1, <1>2, FS_Subset

LEMMA NewestNext ==
    ASSUME WInv, NewestInv, [ObservedNext]_<<vars, contended>>
    PROVE  NewestInv'
<1>1. CASE UNCHANGED <<vars, contended>>
  BY <1>1 DEF NewestInv, vars, Saving
<1> SUFFICES ASSUME ObservedNext PROVE NewestInv'
  BY <1>1
<1>2. Next /\ contended' = (contended \/ Cardinality(Saving') > 1 \/ (Saving # {} /\ crashes' > crashes))
  BY DEF ObservedNext
<1>3. /\ graph \in Seq(Draft) /\ Len(graph) \in Nat /\ current \in 0..Len(graph) /\ crashes \in Nat
      /\ req \in [Request -> {Rest} \union Asking]
  BY WorkflowAssumption DEF WInv, WTypes
<1>4. ASSUME IsFiniteSet(Saving'), ~ contended' PROVE ~ contended /\ \A p, q \in Saving' : p = q
  BY <1>2, <1>4, OneSaves
<1>5. ASSUME NEW p \in Request, SaveVersion(p) PROVE NewestInv'
  <2>1. PICK g \in Draft :
           req' = [req EXCEPT ![p] = [at |-> "insertVersion", version |-> Len(graph) + 1, graph |-> g]]
    BY <1>5 DEF SaveVersion
  <2>2. /\ req'[p].at = "insertVersion" /\ req'[p].version = Len(graph) + 1
        /\ \A q \in Request : q # p => req'[q] = req[q]
        /\ UNCHANGED <<graph, current, crashes>> /\ req[p].at = "rest"
    BY <1>3, <1>5, <2>1 DEF SaveVersion, Rest
  <2>3. IsFiniteSet(Saving')
    BY <2>2, SavingStaysFinite
  <2>4. p \in Saving'
    BY <2>2 DEF Saving
  <2>5. ASSUME ~ contended'
        PROVE  /\ \A q \in Request :
                     /\ req'[q].at = "insertVersion" => req'[q].version = Len(graph') + 1 /\ current' = Len(graph')
                     /\ req'[q].at = "setCurrent" => req'[q].version = Len(graph')
    <3>1. \A q \in Request : q \in Saving' => q = p
      BY <1>4, <2>3, <2>4, <2>5
    <3>2. Saving = {}
      <4>1. \A q \in Request : q \in Saving => q \in Saving' /\ q # p
        BY <2>2 DEF Saving
      <4> QED
        BY <3>1, <4>1 DEF Saving
    <3>3. current = Len(graph)
      BY <1>4, <2>3, <2>5, <3>2 DEF NewestInv
    <3> QED
      BY <2>2, <3>1, <3>3 DEF Saving
  <2>6. crashes' = 0 /\ graph' # <<>> /\ current' = 0 => \E q \in Request : req'[q].at = "setCurrent"
    BY <2>2 DEF NewestInv
  <2> QED
    BY <1>4, <2>3, <2>4, <2>5, <2>6 DEF NewestInv
<1>6. ASSUME NEW p \in Request, InsertVersion(p) PROVE NewestInv'
  <2>1. req[p].at = "insertVersion" /\ UNCHANGED <<current, crashes>> /\ p \in Saving
    BY <1>6 DEF InsertVersion, Saving
  <2>2. CASE /\ req[p].version = Len(graph) + 1 /\ graph' = Append(graph, req[p].graph)
             /\ req' = [req EXCEPT ![p] = [at |-> "setCurrent", version |-> req[p].version]]
    <3>1. /\ Len(graph') = Len(graph) + 1 /\ req'[p].at = "setCurrent" /\ req'[p].version = Len(graph) + 1
          /\ \A q \in Request : q # p => req'[q] = req[q]
      BY <1>3, <2>2
    <3>2. IsFiniteSet(Saving') /\ p \in Saving'
      BY <3>1, SavingStaysFinite DEF Saving
    <3>3. ASSUME ~ contended', NEW q \in Request, q # p PROVE q \notin Saving'
      BY <1>4, <3>2, <3>3
    <3> QED
      BY <1>4, <3>1, <3>2, <3>3 DEF NewestInv, Saving
  <2>3. CASE req[p].version <= Len(graph) /\ req' = [req EXCEPT ![p] = Rest] /\ UNCHANGED graph
    <3>1. req'[p].at = "rest" /\ \A q \in Request : q # p => req'[q] = req[q]
      BY <1>3, <2>3 DEF Rest
    <3>2. IsFiniteSet(Saving')
      BY <3>1, SavingStaysFinite
    <3>3. contended
      BY <1>3, <2>1, <2>3 DEF NewestInv
    <3>4. crashes' = 0 /\ graph' # <<>> /\ current' = 0 => \E q \in Request : req'[q].at = "setCurrent"
      BY <2>1, <2>3, <3>1 DEF NewestInv
    <3> QED
      BY <1>4, <3>2, <3>3, <3>4 DEF NewestInv
  <2> QED
    BY <1>6, <2>2, <2>3 DEF InsertVersion
<1>7. ASSUME NEW p \in Request, SetCurrentVersion(p) PROVE NewestInv'
  <2>1. /\ req[p].at = "setCurrent" /\ UNCHANGED <<graph, crashes>> /\ p \in Saving
        /\ current' = req[p].version /\ req' = [req EXCEPT ![p] = Rest]
    BY <1>7 DEF SetCurrentVersion, Saving
  <2>2. req'[p].at = "rest" /\ \A q \in Request : q # p => req'[q] = req[q]
    BY <1>3, <2>1 DEF Rest
  <2>3. IsFiniteSet(Saving')
    BY <2>2, SavingStaysFinite
  <2>4. current' # 0
    BY <1>3, <2>1 DEF WInv, RequestOK
  <2>5. ASSUME ~ contended' PROVE Saving' = {} /\ current' = Len(graph')
    <3>1. \A q \in Saving : q = p
      BY <1>4, <2>1, <2>3, <2>5 DEF NewestInv
    <3>2. Saving' = {}
      BY <2>2, <3>1 DEF Saving
    <3> QED
      BY <1>4, <2>1, <2>3, <2>5, <3>2 DEF NewestInv
  <2> QED
    BY <2>3, <2>4, <2>5 DEF NewestInv, Saving
<1>8. CASE Aside
  <2>1. /\ UNCHANGED <<graph, current, crashes>> /\ Saving' = Saving
        /\ \A p \in Request : p \in Saving => req'[p] = req[p]
    BY <1>8 DEF Aside, Saving
  <2> QED
    BY <1>4, <2>1 DEF NewestInv, Saving
<1>9. CASE Counted
  <2>1. /\ UNCHANGED <<graph, current>> /\ crashes' = crashes + 1 /\ Saving' \subseteq Saving
        /\ \A p \in Request : p \in Saving' => req'[p] = req[p]
    BY <1>9 DEF Counted, Saving
  <2>2. crashes' # 0 /\ crashes' > crashes
    BY <1>3, <2>1
  <2>3. IsFiniteSet(Saving')
    BY <2>1, FS_Subset DEF NewestInv
  <2>4. ASSUME ~ contended' PROVE ~ contended /\ Saving = {} /\ Saving' = {}
    BY <1>2, <2>1, <2>2, <2>4
  <2> QED
    BY <2>1, <2>2, <2>3, <2>4 DEF NewestInv, Saving
<1> QED
  BY <1>2, <1>5, <1>6, <1>7, <1>8, <1>9, AsideOrCounted

\* When no save is under way, the current version is the newest one unless two saves
\* overlapped or one was cut short, and unless one was, a workflow that has versions has
\* a current one: number, row and current version are three statements (saveVersion).
THEOREM CurrentIsNewest == ObservedSpec => []NewestIsCurrent
<1>1. ObservedSpec => [](WInv /\ NewestInv)
  <2>1. ObservedInit => WInv /\ NewestInv
    BY WInit, NewestInit DEF ObservedInit
  <2>2. WInv /\ NewestInv /\ [ObservedNext]_<<vars, contended>> => (WInv /\ NewestInv)'
    <3>1. [ObservedNext]_<<vars, contended>> => [Next]_vars
      BY DEF ObservedNext, vars
    <3> QED
      BY <3>1, WNext, NewestNext
  <2> QED
    BY <2>1, <2>2, PTL DEF ObservedSpec
<1>2. WInv /\ NewestInv => NewestIsCurrent
  BY DEF NewestInv, NewestIsCurrent, Saving
<1> QED
  BY <1>1, <1>2, PTL
================================================================================

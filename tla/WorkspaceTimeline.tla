-------------------------- MODULE WorkspaceTimeline --------------------------
(***************************************************************************)
(* Proofs about the handlers of the timeline, for every number of          *)
(* requests, nodes and days: every table keeps its type, the nodes of a    *)
(* day keep an order unless two requests that place nodes overlapped, and  *)
(* a move that nobody overlaps keeps the order of the others.              *)
(*                                                                         *)
(* Five parts: the list in which a day is numbered; what a request to the  *)
(* timeline was sent with, has read and has written (TimeInv), and the     *)
(* counts (CountInv), which give WorkTypeOK; which steps handle the order  *)
(* at all (StepKinds); what a request has of the order in hand while it is *)
(* at it (OrderInv); and what the transaction of a move that met nobody    *)
(* has made of the days so far (KeepInv).                                  *)
(***************************************************************************)
EXTENDS WorkspaceGraph, FunctionTheorems, WellFoundedInduction

-----------------------------------------------------------------------------
(***************************************************************************)
(* The operators of Timeline: the next place of a day, and its sequence.   *)
(***************************************************************************)
\* A set of naturals has a least element.
LEMMA LeastElement ==
    ASSUME NEW T \in SUBSET Nat, T # {}
    PROVE  \E x \in T : \A y \in T : x =< y
<1> DEFINE R == {pair \in Nat \X Nat : pair[1] < pair[2]}
<1>1. IsWellFoundedOn(R, Nat)
  BY NatLessThanWellFounded DEF OpToRel
<1>2. \A x, y \in Nat : <<x, y>> \in R <=> x < y
  OBVIOUS
<1> HIDE DEF R
<1>3. PICK x \in T : \A y \in T : ~(<<y, x>> \in R)
  BY <1>1, WFMin
<1>4. ASSUME NEW y \in T PROVE x =< y
  <2>1. x \in Nat /\ y \in Nat /\ ~(y < x)
    BY <1>2, <1>3
  <2> QED
    BY <2>1
<1> QED
  BY <1>4

\* A function to the naturals has a greatest value on a finite set.
LEMMA GreatestValue ==
    ASSUME NEW S, IsFiniteSet(S), S # {}, NEW f \in [S -> Nat]
    PROVE  \E x \in S : \A y \in S : f[y] <= f[x]
<1> DEFINE Without == {n \in Nat : \E T \in SUBSET S :
                         /\ T # {} /\ IsFiniteSet(T) /\ Cardinality(T) = n
                         /\ ~\E x \in T : \A y \in T : f[y] <= f[x]}
<1>1. SUFFICES ASSUME ~\E x \in S : \A y \in S : f[y] <= f[x] PROVE FALSE
  OBVIOUS
<1>2. Cardinality(S) \in Without
  BY <1>1, FS_CardinalityType
<1>3. PICK n \in Without : \A m \in Without : n <= m
  <2>1. Without \in SUBSET Nat /\ Without # {}
    BY <1>2
  <2> HIDE DEF Without
  <2> QED
    BY <2>1, LeastElement
<1>4. PICK T \in SUBSET S : /\ T # {} /\ IsFiniteSet(T) /\ Cardinality(T) = n
                            /\ ~\E x \in T : \A y \in T : f[y] <= f[x]
  BY <1>3
<1>5. PICK a \in T : TRUE
  BY <1>4
<1>6. IsFiniteSet(T \ {a}) /\ Cardinality(T \ {a}) = n - 1
  BY <1>4, <1>5, FS_RemoveElement
<1>7. n \in Nat /\ Cardinality(T \ {a}) \in Nat
  BY <1>6, FS_CardinalityType
<1>8. T \ {a} # {}
  BY <1>4, <1>5
<1>9. PICK x \in T \ {a} : \A y \in T \ {a} : f[y] <= f[x]
  <2>1. Cardinality(T \ {a}) \notin Without
    <3> HIDE DEF Without
    <3> QED
      BY <1>3, <1>6, <1>7
  <2> QED
    BY <1>6, <1>7, <1>8, <2>1
<1>10. f[x] \in Nat /\ f[a] \in Nat /\ \A y \in T : f[y] \in Nat
  BY <1>5, <1>9
<1>11. CASE f[a] <= f[x]
  BY <1>4, <1>9, <1>11
<1>12. CASE ~(f[a] <= f[x])
  <2>1. \A y \in T : f[y] <= f[a]
    BY <1>9, <1>10, <1>12
  <2> QED
    BY <1>4, <1>5, <2>1
<1> QED
  BY <1>11, <1>12

\* The next place on a day lies above every place that is taken.
LEMMA NextSortAbove ==
    ASSUME NEW table \in [NodeIds -> NodeRow], NEW c, NEW d
    PROVE  /\ NextSort(table, c, d) \in Nat
           /\ \A n \in OnDay(table, c, d) : table[n].order < NextSort(table, c, d)
<1> DEFINE S == OnDay(table, c, d)
           V == {0} \cup {table[n].order : n \in S}
<1>1. S \in SUBSET NodeIds /\ IsFiniteSet(S)
  BY TimelineAssumption, FS_Subset DEF OnDay
<1>2. \A n \in S : table[n].order \in Nat
  BY <1>1 DEF NodeRow
<1> HIDE DEF S
<1>3. \E x \in V : \A y \in V : x >= y
  <2>1. CASE S = {}
    BY <2>1
  <2>2. CASE S # {}
    <3> DEFINE f == [n \in S |-> table[n].order]
    <3>1. f \in [S -> Nat]
      BY <1>2
    <3>2. PICK a \in S : \A n \in S : f[n] <= f[a]
      BY <1>1, <2>2, <3>1, GreatestValue
    <3>3. \A n \in S : table[n].order <= table[a].order
      BY <3>2
    <3>4. table[a].order \in V /\ \A y \in V : table[a].order >= y
      BY <1>2, <3>3
    <3> QED
      BY <3>4
  <2> QED
    BY <2>1, <2>2
<1>4. V \subseteq Nat
  BY <1>2
<1> HIDE DEF V
<1>5. Max(V) \in V /\ \A y \in V : Max(V) >= y
  BY <1>3 DEF Max
<1>6. NextSort(table, c, d) = 1 + Max(V)
  BY DEF NextSort, V, S
<1>7. \A n \in S : table[n].order \in V
  BY DEF V
<1>8. NextSort(table, c, d) \in Nat
  <2>1. PICK m : m = Max(V)
    OBVIOUS
  <2>2. m \in Nat
    BY <1>4, <1>5, <2>1
  <2> QED
    BY <1>6, <2>1, <2>2
<1>9. ASSUME NEW n \in S PROVE table[n].order < NextSort(table, c, d)
  <2>1. PICK m : m = Max(V)
    OBVIOUS
  <2>2. m \in Nat /\ table[n].order \in Nat /\ m >= table[n].order
    BY <1>2, <1>4, <1>5, <1>7, <2>1
  <2> QED
    BY <1>6, <2>1, <2>2
<1> QED
  BY <1>8, <1>9 DEF S

\* The id a new node gets is one that nobody has.
LEMMA FreshIsFresh ==
    ASSUME FreshNode # {}
    PROVE  Min(FreshNode) \in FreshNode
<1>1. FreshNode \subseteq Nat
  BY TimelineAssumption DEF FreshNode
<1>2. \E x \in FreshNode : \A y \in FreshNode : x =< y
  BY <1>1, LeastElement
<1> QED
  BY <1>2 DEF Min
(***************************************************************************)
(* Types.  What a request to the timeline was sent with and where it is    *)
(* bound, what it has read, and what its transaction has written.          *)
(***************************************************************************)
NodeOps == {"update_node", "move_node", "delete_node", "link_evidence",
            "unlink_evidence"}
Shifts  == {"update_node", "move_node"}

\* Before its transaction has written, in it, and numbering a day in it.
Aims      == {"next_order", "write_node"}
Spread    == {"read_new", "number_new", "read_old", "number_old", "commit_node"}
Numbering == {"number_new", "number_old"}
Inside    == {"tool_operation", "tool_sort", "tool_insert"}

Bound(r) ==
    /\ r.op = "create_node" =>
          /\ r.case \in Cases /\ r.arg.day \in Days
          /\ r.at \in Checks \cup {"lookup"} => r.then = "next_sort"
    /\ r.op \in NodeOps =>
          /\ r.arg.node \in NodeIds
          /\ r.at = "lookup" => r.then = "fetch_node" /\ r.need = "none"
    /\ r.op \in Shifts =>
          /\ r.arg.day \in Days \cup {Keep}
          /\ r.op = "move_node" => r.arg.order \in Orders \cup {Keep}
          /\ r.at \in Checks => r.then \in Aims \cup {"answer"}
    /\ r.op \in {"link_evidence", "delete_file"} => r.arg.evidence \in Evidence
    /\ r.at \in Checks \cup {"lookup"} => r.then \notin {"link_node", "tool_insert"}

\* The row that is asked for is there, and what has been read is a row.
Reads(r) ==
    /\ r.op \in NodeOps =>
          nodes[r.arg.node].status # "none" /\ r.case = nodes[r.arg.node].case
    /\ r.at = "link_node" => evidence[r.arg.evidence].case = r.case
    /\ r.at = "node_insert" => r.saw \in Nat
    /\ r.at \in Inside => r.case \in Cases
    /\ Heading(r) \in Inside => r.saw.day \in Days /\ r.saw.order \in Nat
    /\ Heading(r) \in Aims \cup Spread =>
          /\ DOMAIN r.saw = {"row", "order", "list", "done"}
          /\ r.saw.row \in NodeRow /\ r.saw.order \in Nat

\* A transaction writes rows of its case that are there.
Owned(r, n) == n \in NodeIds /\ nodes[n].status # "none" /\ nodes[n].case = r.case

Written(r) == r.op \in Shifts =>
    /\ r.at \notin Spread => DOMAIN r.tx = {}
    /\ \A k \in DOMAIN r.tx :
          /\ Owned(r, k) /\ r.tx[k] \in NodeRow
          /\ r.tx[k].status # "none" /\ r.tx[k].case = r.case
    /\ r.at \in Numbering =>
          /\ r.saw.list \in Seq(NodeIds) /\ r.saw.done \in Nat
          /\ r.saw.done < Len(r.saw.list)
          /\ \A i \in 1 .. Len(r.saw.list) : Owned(r, r.saw.list[i])

\* Each request that is to insert a node finds an id nobody has.
Inserting == {q \in Slots : /\ req[q].op \in {"create_node", "post", "confirm"}
                            /\ req[q].at \notin {"record", "tool_done"}}
PlacesLeft == Cardinality(Inserting) <= Cardinality(FreshNode)

TimeInv ==
    /\ TimelineTypeOK /\ \A l \in evlinks : nodes[l.node].status # "none"
    /\ \A p \in Slots : Bound(req[p]) /\ Reads(req[p]) /\ Written(req[p])
    /\ PlacesLeft

-----------------------------------------------------------------------------
\* The order of a day.
Distinct(table, c, d) ==
    \A a, b \in OnDay(table, c, d) : a # b => table[a].order # table[b].order

Above(order, c, d) == \A n \in OnDay(nodes, c, d) : nodes[n].order < order

\* No two requests that place nodes met.
PlaceApart == ~\E pair \in crossed : pair \subseteq PlacesNodes

NewOf(r) == NewDay(r, r.saw.row)
OldOf(r) == r.saw.row.day
Renumbers(r) == r.op = "move_node" \/ NewOf(r) # OldOf(r)

\* The nodes as the transaction of r sees them.
View(r) == Sight(r, nodes)

\* The day is listed, and numbered up to where r is.
Listed(r, d) ==
    /\ \A n \in OnDay(View(r), r.case, d) :
          \E i \in 1 .. Len(r.saw.list) : r.saw.list[i] = n
    /\ \A i, j \in 1 .. Len(r.saw.list) : i # j => r.saw.list[i] # r.saw.list[j]
    /\ \A i \in 1 .. Len(r.saw.list) : View(r)[r.saw.list[i]].day = d
    /\ \A i \in 1 .. r.saw.done : View(r)[r.saw.list[i]].order = 100 * i

\* The day whose order is about to be restored.
Torn(r) == IF r.at \in {"read_new", "number_new"} THEN {NewOf(r)}
           ELSE IF r.at = "number_old" THEN {OldOf(r)} ELSE {}

Placed(r) ==
    /\ r.at = "node_insert" => Above(r.saw, r.case, r.arg.day)
    /\ r.at = "tool_insert" => Above(r.saw.order, r.case, r.saw.day)
    /\ Heading(r) \in Aims =>
          /\ OldOf(r) = nodes[r.arg.node].day
          /\ Renumbers(r) \/ r.saw.order = nodes[r.arg.node].order
    /\ Heading(r) = "next_order" => Renumbers(r)
    /\ r.at \in Spread =>
          \A d \in Days \ Torn(r) : Distinct(View(r), r.case, d)
    /\ r.at \in Numbering => \A d \in Torn(r) : Listed(r, d)

OrderInv == PlaceApart =>
    /\ \A c \in Cases, d \in Days : Distinct(nodes, c, d)
    /\ \A p \in Slots : Placed(req[p])

-----------------------------------------------------------------------------
\* The list of a day, in the order in which it is numbered.
Lists(list, table, c, d, first) ==
    LET rows == 1 .. Cardinality(OnDay(table, c, d)) IN
    /\ list \in [rows -> OnDay(table, c, d)]
    /\ \A i, j \in rows : i < j => /\ list[i] # list[j]
                                   /\ Before(table, first, list[i], list[j])
-----------------------------------------------------------------------------
\* One node comes ahead of another in the order in which a day is numbered.
Ahead(table, first, a, b) == a # b /\ Before(table, first, a, b)

\* That is a strict order of any two nodes.
LEMMA AheadOrders ==
    ASSUME NEW table \in [NodeIds -> NodeRow], NEW first,
           NEW a \in NodeIds, NEW b \in NodeIds, NEW e \in NodeIds
    PROVE  /\ a # b => Ahead(table, first, a, b) \/ Ahead(table, first, b, a)
           /\ ~(Ahead(table, first, a, b) /\ Ahead(table, first, b, a))
           /\ Ahead(table, first, a, b) /\ Ahead(table, first, b, e)
                 => Ahead(table, first, a, e)
<1>1. a \in Nat /\ b \in Nat /\ e \in Nat
  BY TimelineAssumption
<1>2. table[a].order \in Nat /\ table[b].order \in Nat /\ table[e].order \in Nat
  BY DEF NodeRow
<1> QED
  BY <1>1, <1>2 DEF Ahead, Before

\* Every day has a sequence, whatever its nodes: each stands behind as many
\* as come ahead of it.
LEMMA SequenceLists ==
    ASSUME NEW table \in [NodeIds -> NodeRow], NEW c, NEW d, NEW first
    PROVE  Lists(DaySequence(table, c, d, first), table, c, d, first)
<1> DEFINE S == OnDay(table, c, d)
           K == Cardinality(S)
           Pred(n) == {m \in S : Ahead(table, first, m, n)}
           rank == [n \in S |-> Cardinality(Pred(n)) + 1]
           Sorted(list) == \A i, j \in 1 .. K :
              i < j => list[i] # list[j] /\ Before(table, first, list[i], list[j])
<1>1. S \in SUBSET NodeIds /\ IsFiniteSet(S) /\ K \in Nat
  BY TimelineAssumption, FS_Subset, FS_CardinalityType DEF OnDay
<1>2. SUFFICES \E list \in [1 .. K -> S] : Sorted(list)
  <2> HIDE DEF S
  <2> QED
    BY DEF DaySequence, Lists, S
<1> HIDE DEF S
<1>3. ASSUME NEW n \in S
      PROVE  /\ IsFiniteSet(Pred(n)) /\ Cardinality(Pred(n)) \in Nat
             /\ Cardinality(Pred(n)) + 1 <= K
  <2>1. IsFiniteSet(Pred(n)) /\ Cardinality(Pred(n)) \in Nat
    BY <1>1, FS_Subset, FS_CardinalityType
  <2>2. IsFiniteSet(S \ {n}) /\ Cardinality(S \ {n}) = K - 1
    BY <1>1, FS_RemoveElement
  <2>3. Pred(n) \subseteq S \ {n}
    BY DEF Ahead
  <2>4. Cardinality(Pred(n)) <= Cardinality(S \ {n})
    BY <2>2, <2>3, FS_Subset
  <2> QED
    BY <1>1, <2>1, <2>2, <2>4
<1>4. ASSUME NEW m \in S, NEW n \in S, Ahead(table, first, m, n)
      PROVE  rank[m] < rank[n]
  <2>1. Pred(m) \subseteq Pred(n) \ {m}
    BY <1>1, <1>4, AheadOrders DEF Ahead
  <2>2. IsFiniteSet(Pred(n) \ {m}) /\ Cardinality(Pred(n) \ {m}) = Cardinality(Pred(n)) - 1
    BY <1>3, <1>4, FS_RemoveElement
  <2>3. Cardinality(Pred(m)) <= Cardinality(Pred(n) \ {m})
    BY <2>1, <2>2, FS_Subset
  <2>4. PICK j, k : j = Cardinality(Pred(m)) /\ k = Cardinality(Pred(n))
    OBVIOUS
  <2>5. j \in Nat /\ k \in Nat /\ j <= k - 1
    BY <1>3, <2>2, <2>3, <2>4
  <2>6. rank[m] = j + 1 /\ rank[n] = k + 1
    BY <2>4
  <2> QED
    BY <2>5, <2>6
<1>5. ASSUME NEW n \in S PROVE rank[n] \in 1 .. K
  <2>1. PICK k : k = Cardinality(Pred(n))
    OBVIOUS
  <2>2. k \in Nat /\ k + 1 <= K /\ rank[n] = k + 1
    BY <1>3, <2>1
  <2> QED
    BY <1>1, <2>2
<1> HIDE DEF rank, Pred
<1>6. rank \in Injection(S, 1 .. K)
  <2>1. rank \in [S -> 1 .. K]
    BY <1>5 DEF rank
  <2>2. ASSUME NEW m \in S, NEW n \in S, m # n PROVE rank[m] # rank[n]
    <3>1. Ahead(table, first, m, n) \/ Ahead(table, first, n, m)
      BY <1>1, <2>2, AheadOrders
    <3>2. rank[m] < rank[n] \/ rank[n] < rank[m]
      BY <1>4, <3>1
    <3>3. rank[m] \in Nat /\ rank[n] \in Nat
      BY <1>5
    <3> QED
      BY <3>2, <3>3
  <2> QED
    BY <2>1, <2>2 DEF Injection, IsInjective
<1>7. rank \in Surjection(S, 1 .. K)
  <2>1. IsFiniteSet(1 .. K) /\ Cardinality(1 .. K) = K
    BY <1>1, FS_Interval
  <2> QED
    BY <1>6, <2>1, FS_Injection
<1>8. \A i \in 1 .. K : \E n \in S : rank[n] = i
  BY <1>7 DEF Surjection
<1> DEFINE list == [i \in 1 .. K |-> CHOOSE n \in S : rank[n] = i]
<1>9. ASSUME NEW i \in 1 .. K PROVE list[i] \in S /\ rank[list[i]] = i
  BY <1>8
<1> HIDE DEF list
<1>10. list \in [1 .. K -> S]
  BY <1>9 DEF list
<1>11. Sorted(list)
  <2>1. SUFFICES ASSUME NEW i \in 1 .. K, NEW j \in 1 .. K, i < j
                 PROVE  Ahead(table, first, list[i], list[j])
    BY DEF Ahead
  <2>2. list[i] # list[j] /\ ~(rank[list[j]] < rank[list[i]])
    BY <1>1, <1>9, <2>1
  <2>3. Ahead(table, first, list[i], list[j]) \/ Ahead(table, first, list[j], list[i])
    BY <1>1, <1>9, <2>2, AheadOrders
  <2> QED
    BY <1>4, <1>9, <2>2, <2>3
<1> QED
  BY <1>10, <1>11

\* A sequence of a day has each of its nodes once.
LEMMA ListCovers ==
    ASSUME NEW table \in [NodeIds -> NodeRow], NEW c, NEW d, NEW first, NEW list,
           Lists(list, table, c, d, first)
    PROVE  /\ list \in Seq(NodeIds) /\ Len(list) = Cardinality(OnDay(table, c, d))
           /\ Len(list) \in Nat /\ DOMAIN list = 1 .. Len(list)
           /\ \A i \in 1 .. Len(list) : list[i] \in OnDay(table, c, d)
           /\ \A i, j \in 1 .. Len(list) : i # j => list[i] # list[j]
           /\ \A i, j \in 1 .. Len(list) : i < j => Before(table, first, list[i], list[j])
           /\ \A n \in OnDay(table, c, d) : \E i \in 1 .. Len(list) : list[i] = n
           /\ list = <<>> <=> OnDay(table, c, d) = {}
<1> DEFINE S == OnDay(table, c, d)
           K == Cardinality(S)
<1>1. S \in SUBSET NodeIds /\ IsFiniteSet(S) /\ K \in Nat
  BY TimelineAssumption, FS_Subset, FS_CardinalityType DEF OnDay
<1>2. /\ list \in [1 .. K -> S]
      /\ \A i, j \in 1 .. K : i < j => /\ list[i] # list[j]
                                       /\ Before(table, first, list[i], list[j])
  BY DEF Lists
<1> HIDE DEF S
<1>3. list \in Seq(NodeIds) /\ Len(list) = K /\ DOMAIN list = 1 .. K
  BY <1>1, <1>2
<1>4. \A i, j \in 1 .. K : i # j => list[i] # list[j]
  <2>1. ASSUME NEW i \in 1 .. K, NEW j \in 1 .. K, i # j PROVE list[i] # list[j]
    <3>1. i < j \/ j < i
      BY <1>1, <2>1
    <3> QED
      BY <1>2, <3>1
  <2> QED
    BY <2>1
<1>5. \A n \in S : \E i \in 1 .. K : list[i] = n
  <2>1. list \in Injection(1 .. K, S)
    BY <1>2, <1>4 DEF Injection, IsInjective
  <2>2. Cardinality(1 .. K) = K
    BY <1>1, FS_Interval
  <2>3. list \in Surjection(1 .. K, S)
    BY <1>1, <2>1, <2>2, FS_Injection
  <2> QED
    BY <2>3 DEF Surjection
<1>6. list = <<>> <=> S = {}
  <2>1. CASE S = {}
    <3>1. K = 0
      BY <2>1, FS_EmptySet
    <3> QED
      BY <1>3, <2>1, <3>1
  <2>2. CASE S # {}
    BY <1>3, <1>5, <2>2
  <2> QED
    BY <2>1, <2>2
<1> QED
  BY <1>1, <1>2, <1>3, <1>4, <1>5, <1>6 DEF S

-----------------------------------------------------------------------------
\* What a step does to the rows: they stay, and stay in their cases.
Tends ==
    /\ TimelineTypeOK' /\ \A l \in evlinks' : nodes'[l.node].status # "none"
    /\ \A n \in NodeIds : nodes[n].status # "none" =>
          nodes'[n].status # "none" /\ nodes'[n].case = nodes[n].case
    /\ \A e \in Evidence : evidence'[e].case = evidence[e].case

\* What p does leaves what every other request has read.
LEMMA OtherTime ==
    ASSUME FlowInv, TimeInv, NEW p \in Slots, Others(p), Tends, NEW q \in Slots \ {p}
    PROVE  (Bound(req[q]) /\ Reads(req[q]) /\ Written(req[q]))'
<1>1. /\ req'[q].op = req[q].op /\ req'[q].at = req[q].at
      /\ req'[q].then = req[q].then /\ req'[q].case = req[q].case
      /\ req'[q].arg = req[q].arg /\ req'[q].saw = req[q].saw
      /\ req'[q].tx = req[q].tx /\ req'[q].need = req[q].need
  BY DEF Others, Fields
<1>2. Bound(req[q]) /\ Reads(req[q]) /\ Written(req[q])
  BY DEF TimeInv
<1>3. Bound(req[q])'
  BY <1>1, <1>2 DEF Bound
<1>4. Reads(req[q])'
  <2>1. req[q].op \in NodeOps => req[q].arg.node \in NodeIds
    BY <1>2 DEF Bound
  <2>2. req[q].at = "link_node" => req[q].arg.evidence \in Evidence
    <3>1. req[q].at = "link_node" => req[q].op = "link_evidence"
      BY DEF FlowInv, RequestOK, OnWay, Heading, Checks
    <3> QED
      BY <1>2, <3>1 DEF Bound
  <2>3. Heading(req'[q]) = Heading(req[q])
    BY <1>1 DEF Heading
  <2> QED
    BY <1>1, <1>2, <2>1, <2>2, <2>3 DEF Reads, Tends
<1>5. Written(req[q])'
  <2>1. \A n : Owned(req[q], n) => Owned(req[q], n)'
    BY <1>1 DEF Owned, Tends
  <2> QED
    BY <1>1, <1>2, <2>1 DEF Written
<1> QED
  BY <1>3, <1>4, <1>5

\* What it takes for the rows to be in order after a step of p.
LEMMA TimeKept ==
    ASSUME FlowInv, TimeInv, NEW p \in Slots, Others(p), Tends,
           (Bound(req[p]) /\ Reads(req[p]) /\ Written(req[p]))', PlacesLeft'
    PROVE  TimeInv'
<1>1. \A q \in Slots : (Bound(req[q]) /\ Reads(req[q]) /\ Written(req[q]))'
  BY OtherTime
<1> QED
  BY <1>1 DEF TimeInv, Tends

\* The places that are left, counted.
LEMMA PlaceCounts ==
    /\ IsFiniteSet(Inserting) /\ Cardinality(Inserting) \in Nat
    /\ IsFiniteSet(FreshNode) /\ Cardinality(FreshNode) \in Nat
    /\ IsFiniteSet(Inserting') /\ Cardinality(Inserting') \in Nat
    /\ IsFiniteSet(FreshNode') /\ Cardinality(FreshNode') \in Nat
<1>1. IsFiniteSet(Slots) /\ IsFiniteSet(NodeIds)
  BY WorkspaceAssumption, TimelineAssumption
<1>2. /\ Inserting \in SUBSET Slots /\ FreshNode \in SUBSET NodeIds
      /\ Inserting' \in SUBSET Slots /\ FreshNode' \in SUBSET NodeIds
  BY DEF Inserting, FreshNode
<1> QED
  BY <1>1, <1>2, FS_Subset, FS_CardinalityType

\* No node is inserted, and nobody else is to insert one.
LEMMA PlacesKept ==
    ASSUME PlacesLeft, FreshNode \subseteq FreshNode', Inserting' \subseteq Inserting
    PROVE  PlacesLeft'
<1>1. Cardinality(FreshNode) <= Cardinality(FreshNode')
  BY PlaceCounts, FS_Subset
<1>2. Cardinality(Inserting') <= Cardinality(Inserting)
  BY PlaceCounts, FS_Subset
<1> QED
  BY <1>1, <1>2, PlaceCounts DEF PlacesLeft

Inserts(r) == /\ r.op \in {"create_node", "post", "confirm"}
              /\ r.at \notin {"record", "tool_done"}

\* A request that has no node to insert afterwards, or had one before.
LEMMA InsertingKept ==
    ASSUME NEW p \in Slots, Others(p), Inserts(req'[p]) => Inserts(req[p])
    PROVE  Inserting' \subseteq Inserting
<1>1. \A q \in Slots \ {p} : req'[q].op = req[q].op /\ req'[q].at = req[q].at
  BY DEF Others, Fields
<1> QED
  BY <1>1 DEF Inserting, Inserts

\* A step that inserts no node.
LEMMA TimeRows ==
    ASSUME FlowInv, TimeInv, NEW p \in Slots, Others(p), Tends,
           \A n \in NodeIds : nodes[n].status = "none" => nodes'[n].status = "none",
           Inserts(req'[p]) => Inserts(req[p]),
           (Bound(req[p]) /\ Reads(req[p]) /\ Written(req[p]))'
    PROVE  TimeInv'
<1>1. FreshNode \subseteq FreshNode'
  BY DEF FreshNode
<1>2. PlacesLeft'
  BY <1>1, InsertingKept, PlacesKept DEF TimeInv
<1> QED
  BY <1>2, TimeKept

\* Nothing happens to the rows.
LEMMA RowsTend ==
    ASSUME TimeInv, UNCHANGED timelineVars
    PROVE  Tends
  BY DEF TimeInv, Tends, TimelineTypeOK, timelineVars

\* A step that leaves the tables alone.
LEMMA TimeStill ==
    ASSUME FlowInv, TimeInv, NEW p \in Slots, Others(p), UNCHANGED timelineVars,
           Inserts(req'[p]) => Inserts(req[p]),
           (Bound(req[p]) /\ Reads(req[p]) /\ Written(req[p]))'
    PROVE  TimeInv'
  BY RowsTend, TimeRows DEF timelineVars

-----------------------------------------------------------------------------
\* A request that is no business of the timeline's.
LEMMA NoTime ==
    ASSUME FlowInv', NEW p \in Slots,
           req'[p].op \notin TimelineOps \cup {"post", "confirm"}
    PROVE  /\ ~Inserts(req'[p])
           /\ (Bound(req[p]) /\ Reads(req[p]) /\ Written(req[p]))'
<1> DEFINE r == req'[p]
<1>1. /\ r.op \notin NodeOps \cup Shifts
      /\ r.op \notin {"create_node", "link_evidence", "delete_file"}
  BY DEF TimelineOps, NodeOps, Shifts
<1>2. OnWay(r.op, Heading(r))
  BY DEF FlowInv, RequestOK
<1>3. Heading(r) \notin {"link_node", "tool_insert", "node_insert"}
                           \cup Inside \cup Aims \cup Spread
  BY <1>2 DEF OnWay, TimelineOps, Inside, Aims, Spread
<1>4. /\ r.at \in Checks \cup {"lookup"} => Heading(r) = r.then
      /\ r.at \notin Checks \cup {"lookup"} => Heading(r) = r.at
  BY DEF Heading
<1>5. r.at \notin {"link_node", "tool_insert", "node_insert"} \cup Inside
  BY <1>3, <1>4 DEF Checks, Inside
<1> QED
  BY <1>1, <1>3, <1>4, <1>5 DEF Bound, Reads, Written, Inserts, TimelineOps

\* A slot that is free.
LEMMA IdleTime ==
    ASSUME NEW p \in Slots, req'[p] = Idle
    PROVE  /\ req'[p].op = "none" /\ ~Inserts(req'[p])
           /\ (Bound(req[p]) /\ Reads(req[p]) /\ Written(req[p]))'
  BY DEF Idle, Bound, Reads, Written, Inserts, NodeOps, Shifts, Checks, Heading,
     Inside, Aims, Spread

\* The steps of the other components.
LEMMA ForeignTime ==
    ASSUME FlowInv, TimeInv, NEW p \in Slots, NEW ops,
           ops \cap (TimelineOps \cup {"post", "confirm"}) = {}, Turn(p, ops),
           UNCHANGED timelineVars
    PROVE  TimeInv'
<1>1. Others(p) /\ FlowInv'
  BY DEF Turn
<1>2. req'[p].op \notin TimelineOps \cup {"post", "confirm"}
  <2>1. req'[p] = Idle => req'[p].op = "none"
    BY DEF Idle
  <2> QED
    BY <2>1 DEF Turn, Serves, Sent, Quiet, Applies, Ends, InHandler, Same, TimelineOps
<1> QED
  BY <1>1, <1>2, NoTime, TimeStill

\* A request that leaves.
LEMMA LeavesTime ==
    ASSUME FlowInv, TimeInv, NEW p \in Slots, Tends, req' = Answered(p) \/ req'[p] = Idle
    PROVE  /\ ~Inserts(req'[p])
           /\ (Bound(req[p]) /\ Reads(req[p]) /\ Written(req[p]))'
<1>1. CASE req'[p] = Idle
  BY <1>1, IdleTime
<1>2. CASE req'[p] # Idle
  <2>1. Moves(p, "record") /\ DOMAIN req'[p].tx = {}
    BY <1>2, LeavesEmpty DEF Leaves
  <2>2. /\ req'[p].op = req[p].op /\ req'[p].at = "record"
        /\ req'[p].arg = req[p].arg /\ req'[p].case = req[p].case
    BY <2>1 DEF Moves, Keeps
  <2>3. Bound(req[p]) /\ Reads(req[p])
    BY DEF TimeInv
  <2>4. Heading(req'[p]) = "record"
    BY <2>2 DEF Heading, Checks
  <2>5. Bound(req[p])' /\ Reads(req[p])'
    BY <2>2, <2>3, <2>4 DEF Bound, Reads, Tends, Checks, Inside, Aims, Spread
  <2>6. Written(req[p])'
    BY <2>1, <2>2 DEF Written, Spread, Numbering
  <2> QED
    BY <2>2, <2>5, <2>6 DEF Inserts
<1> QED
  BY <1>1, <1>2

\* Ways out of a handler that touches no row.
LEMMA WaysOutTime ==
    ASSUME FlowInv, TimeInv, NEW p \in Slots, Others(p), UNCHANGED timelineVars,
           Succeed(p) \/ CarryAndSucceed(p) \/ Refuse(p)
    PROVE  TimeInv'
<1>1. req' = Answered(p) \/ req'[p] = Idle
  BY DEF Succeed, CarryAndSucceed, Refuse, FlowInv
<1> QED
  BY <1>1, RowsTend, LeavesTime, TimeStill

\* The look-up lets a request through to its first place.
LEMMA EntryTime ==
    ASSUME FlowInv, AgentInv, TimeInv, NEW p \in Slots,
           LookupMiss(p) \/ LookupFails(p), UNCHANGED timelineVars
    PROVE  TimeInv'
<1>1. Others(p)
  BY EntryTurn DEF RequestTurn
<1>2. /\ req[p].at = "lookup" /\ req'[p].at = FirstStep(req[p])
      /\ \A f \in Fields \ {"at"} : req'[p][f] = req[p][f]
  BY DEF LookupMiss, LookupFails, At, FlowInv, Fields
<1>3. /\ req'[p].op = req[p].op /\ req'[p].arg = req[p].arg
      /\ req'[p].case = req[p].case /\ req'[p].tx = req[p].tx
      /\ req'[p].then = req[p].then /\ req'[p].need = req[p].need
      /\ req'[p].saw = req[p].saw
  BY <1>2 DEF Fields
<1>4. Bound(req[p]) /\ Reads(req[p]) /\ Written(req[p])
  BY DEF TimeInv
<1>5. /\ req'[p].at \in {"case", req[p].then}
      /\ req[p].need = "none" => req'[p].at = req[p].then
  BY <1>2 DEF FirstStep
<1>6. /\ OnWay(req[p].op, req[p].then) /\ req[p].then \notin Checks \cup {"lookup"}
      /\ req[p].op \in {"post", "confirm"} => req[p].then \in {"session", "decide"}
  BY <1>2 DEF FlowInv, RequestOK, Heading, OnWay, AgentInv, Armed, Checks
<1>7. Heading(req'[p]) = Heading(req[p])
  BY <1>2, <1>3, <1>5, <1>6 DEF Heading, Checks
<1>8. req'[p].at \notin {"link_node", "node_insert"} \cup Inside \cup Spread
  BY <1>2, <1>4, <1>5, <1>6 DEF Bound, OnWay, NodeOps, Inside, Checks, Shifts, Aims, Spread
<1>9. Bound(req[p])'
  BY <1>2, <1>3, <1>4, <1>5, <1>6 DEF Bound, Checks, NodeOps, Shifts
<1>10. Reads(req[p])'
  BY <1>3, <1>4, <1>7, <1>8 DEF Reads, timelineVars
<1>11. Written(req[p])'
  BY <1>2, <1>3, <1>4, <1>8 DEF Written, Spread, Numbering
<1>12. Inserts(req'[p]) => Inserts(req[p])
  BY <1>2, <1>3 DEF Inserts
<1> QED
  BY <1>1, <1>9, <1>10, <1>11, <1>12, TimeStill

\* A check of a case that is not there does not let the request through.
LEMMA ChecksWay ==
    ASSUME FlowInv, NEW p \in Slots, CheckCase(p) \/ CheckMember(p)
    PROVE  \/ Succeed(p) \/ Refuse(p)
           \/ /\ req[p].case \in Cases
              /\ \E place \in {"member", req[p].then} : Goto(p, place)
           \/ Goto(p, "tool_failed") /\ req[p].op \in {"post", "confirm"}
<1>1. /\ req[p].deny = "leave" \/ req[p].deny = "tool_failed"
      /\ req[p].deny = "tool_failed" => req[p].op \in {"post", "confirm"}
      /\ req[p].at = "member" => req[p].case \in Cases
  BY DEF FlowInv, RequestOK
<1>2. CASE Deny(p)
  BY <1>1, <1>2 DEF Deny
<1>3. CASE ~Deny(p)
  <2>1. req[p].case \in Cases
    BY <1>1, <1>3 DEF CheckCase, CheckMember, At, Live
  <2>2. Pass(p) \/ Goto(p, "member")
    BY <1>3 DEF CheckCase, CheckMember
  <2> QED
    BY <2>1, <2>2 DEF Pass
<1> QED
  BY <1>2, <1>3

\* The checks of access.rs.
LEMMA ChecksTime ==
    ASSUME FlowInv, TimeInv, NEW p \in Slots,
           CheckCase(p) \/ CheckMember(p), UNCHANGED timelineVars
    PROVE  TimeInv'
<1>1. Others(p) /\ req[p].at \in Checks
  BY ChecksTurn, ChecksOn DEF Proceeds
<1>2. Bound(req[p]) /\ Reads(req[p]) /\ Written(req[p])
  BY DEF TimeInv
<1>3. /\ OnWay(req[p].op, req[p].then) /\ Heading(req[p]) = req[p].then
      /\ req[p].then \notin Checks \cup {"lookup"}
  BY <1>1, AtCheck
<1>4. CASE Succeed(p) \/ Refuse(p)
  BY <1>1, <1>4, WaysOutTime
<1>5. ASSUME req[p].case \in Cases, NEW place \in {"member", req[p].then}, Goto(p, place)
      PROVE  TimeInv'
  <2>1. On(p, place, req[p].saw, req[p].tx)
    BY <1>5, GotoOn
  <2>2. /\ req'[p].op = req[p].op /\ req'[p].arg = req[p].arg
        /\ req'[p].case = req[p].case /\ req'[p].tx = req[p].tx
        /\ req'[p].then = req[p].then /\ req'[p].need = req[p].need
        /\ req'[p].saw = req[p].saw /\ req'[p].at = place
    BY <2>1 DEF On, Keeps
  <2>3. Heading(req'[p]) = Heading(req[p])
    BY <1>3, <1>5, <2>2 DEF Heading, Checks
  <2>4. Bound(req[p])'
    BY <1>1, <1>2, <1>3, <1>5, <2>2 DEF Bound, Checks
  <2>5. req'[p].at \notin {"link_node", "node_insert"} \cup Spread
    BY <1>1, <1>2, <1>3, <1>5, <2>2 DEF Bound, OnWay, NodeOps, Checks, Shifts, Aims, Spread
  <2>6. Reads(req[p])'
    BY <1>2, <1>5, <2>2, <2>3, <2>5 DEF Reads, timelineVars
  <2>7. Written(req[p])'
    BY <1>1, <1>2, <2>2, <2>5 DEF Written, Checks, Spread, Numbering
  <2>8. Inserts(req'[p]) => Inserts(req[p])
    BY <1>1, <2>2 DEF Inserts, Checks
  <2> QED
    BY <1>1, <2>4, <2>6, <2>7, <2>8, TimeStill
<1>6. CASE Goto(p, "tool_failed") /\ req[p].op \in {"post", "confirm"}
  <2>1. On(p, "tool_failed", req[p].saw, req[p].tx)
    BY <1>6, GotoOn
  <2>2. req'[p].op = req[p].op /\ req'[p].at = "tool_failed"
    BY <2>1 DEF On, Keeps
  <2>3. (Bound(req[p]) /\ Reads(req[p]) /\ Written(req[p]))'
    BY <1>6, <2>2
    DEF Bound, Reads, Written, NodeOps, Shifts, Checks, Heading, Inside, Aims, Spread
  <2>4. Inserts(req'[p]) => Inserts(req[p])
    BY <1>1, <2>2 DEF Inserts, Checks
  <2> QED
    BY <1>1, <2>3, <2>4, TimeStill
<1> QED
  BY <1>4, <1>5, <1>6, ChecksWay

\* The middleware and the checks.
LEMMA RequestTime ==
    ASSUME FlowInv, AgentInv, TimeInv, NEW p \in Slots, RequestStep(p),
           UNCHANGED timelineVars
    PROVE  TimeInv'
<1>1. CASE LookupMiss(p) \/ LookupFails(p)
  BY <1>1, EntryTime
<1>2. CASE CheckCase(p) \/ CheckMember(p)
  BY <1>2, ChecksTime
<1>3. CASE Replay(p) \/ Record(p) \/ RecordFails(p) \/ CutShort(p)
  <2>1. req'[p] = Idle /\ Others(p)
    BY <1>3 DEF Replay, Record, RecordFails, CutShort, bounds, FlowInv, Fields, Others
  <2> QED
    BY <2>1, IdleTime, TimeStill
<1> QED
  BY <1>1, <1>2, <1>3 DEF RequestStep

-----------------------------------------------------------------------------
\* A request is sent: what it carries and where it begins.
LEMMA SentTime ==
    ASSUME FlowInv, NEW p \in Slots, NEW op, NEW user \in Senders(p, op), NEW case,
           NEW path, NEW arg, NEW need, NEW then,
           Send(p, op, user, case, path, arg, need, then)
    PROVE  /\ req'[p].op = op /\ req'[p].case = case /\ req'[p].arg = arg
           /\ req'[p].need = need /\ req'[p].then = then /\ DOMAIN req'[p].tx = {}
           /\ req'[p].at = "lookup" \/ req'[p].at = IF need = "none" THEN then ELSE "case"
           /\ req[p].op = "none"
<1>1. req'[p].tx = <<>>
  BY DEF Send, FirstStep, FlowInv, Fields
<1>2. DOMAIN <<>> = {}
  OBVIOUS
<1> QED
  BY <1>1, <1>2, SendAgent

\* There is a place for one more.
LEMMA PlaceForNew ==
    ASSUME NEW p \in Slots, Others(p), req[p].op = "none", nodes' = nodes, NodesLeft
    PROVE  PlacesLeft'
<1> DEFINE Askers == {q \in Slots : req[q].op \in {"create_node", "post", "confirm"}}
<1>1. IsFiniteSet(Askers) /\ Cardinality(Askers) \in Nat
  <2>1. IsFiniteSet(Slots) /\ Askers \in SUBSET Slots
    BY WorkspaceAssumption
  <2> QED
    BY <2>1, FS_Subset, FS_CardinalityType
<1>2. Inserting' \subseteq Askers \cup {p}
  <2>1. \A q \in Slots \ {p} : req'[q].op = req[q].op
    BY DEF Others, Fields
  <2> QED
    BY <2>1 DEF Inserting
<1>3. Cardinality(FreshNode) > Cardinality(Askers)
  BY DEF NodesLeft
<1> HIDE DEF Askers
<1>4. /\ IsFiniteSet(Askers \cup {p})
      /\ Cardinality(Askers \cup {p}) <= Cardinality(Askers) + 1
  <2>1. /\ IsFiniteSet(Askers \cup {p})
        /\ Cardinality(Askers \cup {p}) = IF p \in Askers THEN Cardinality(Askers)
                                           ELSE Cardinality(Askers) + 1
    BY <1>1, FS_AddElement
  <2> QED
    BY <1>1, <2>1
<1>5. Cardinality(Inserting') <= Cardinality(Askers \cup {p})
  BY <1>2, <1>4, FS_Subset
<1>6. Cardinality(Askers \cup {p}) \in Nat
  BY <1>4, FS_CardinalityType
<1>7. FreshNode' = FreshNode
  BY DEF FreshNode
<1>8. Cardinality(FreshNode') = Cardinality(FreshNode)
  BY <1>7
<1> QED
  BY <1>1, <1>3, <1>4, <1>5, <1>6, <1>8, PlaceCounts DEF PlacesLeft

\* A request to a node is sent.
LEMMA SentToNode ==
    ASSUME FlowInv, TimeInv, NEW p \in Slots, Others(p), NEW op \in NodeOps, NEW arg,
           SendToNode(p, op, arg), arg.node \in NodeIds,
           op \in Shifts => arg.day \in Days \cup {Keep},
           op = "move_node" => arg.order \in Orders \cup {Keep},
           op = "link_evidence" => arg.evidence \in Evidence
    PROVE  TimeInv'
<1>1. PICK u \in Senders(p, op) :
         Send(p, op, u, nodes[arg.node].case, arg.node, arg, "none", "fetch_node")
  BY DEF SendToNode
<1>2. /\ req'[p].op = op /\ req'[p].case = nodes[arg.node].case /\ req'[p].arg = arg
      /\ req'[p].need = "none" /\ req'[p].then = "fetch_node" /\ DOMAIN req'[p].tx = {}
      /\ req'[p].at \in {"lookup", "fetch_node"} /\ req[p].op = "none"
  BY <1>1, SentTime
<1>3. Heading(req'[p]) = "fetch_node"
  BY <1>2 DEF Heading, Checks
<1>4. nodes' = nodes /\ evidence' = evidence /\ UNCHANGED timelineVars
  BY DEF SendToNode, timelineVars
<1>5. Bound(req[p])'
  BY <1>2 DEF Bound, NodeOps, Checks
<1>6. Reads(req[p])'
  BY <1>2, <1>3, <1>4 DEF Reads, Inside, Aims, Spread, SendToNode
<1>7. Written(req[p])'
  BY <1>2 DEF Written, Numbering
<1>8. ~Inserts(req'[p])
  BY <1>2 DEF Inserts, NodeOps
<1> QED
  BY <1>4, <1>5, <1>6, <1>7, <1>8, TimeStill

\* Requests to the timeline are sent.
LEMMA TimelineSends ==
    ASSUME FlowInv, TimeInv, NEW p \in Slots, Others(p),
           \/ SendCreateNode(p) \/ SendUpdateNode(p) \/ SendMoveNode(p)
           \/ SendDeleteNode(p) \/ SendLinkEvidence(p) \/ SendUnlinkEvidence(p)
           \/ SendDeleteFile(p)
    PROVE  TimeInv'
<1>1. CASE SendCreateNode(p)
  <2>1. PICK u \in Senders(p, "create_node"), c \in Cases, d \in Days :
           Send(p, "create_node", u, c, c, [day |-> d], "write", "next_sort")
    BY <1>1 DEF SendCreateNode
  <2>2. /\ req'[p].op = "create_node" /\ req'[p].case = c /\ req'[p].arg = [day |-> d]
        /\ req'[p].then = "next_sort" /\ DOMAIN req'[p].tx = {}
        /\ req'[p].at \in {"lookup", "case"} /\ req[p].op = "none"
    BY <2>1, SentTime
  <2>3. Heading(req'[p]) = "next_sort"
    BY <2>2 DEF Heading, Checks
  <2>4. (Bound(req[p]) /\ Reads(req[p]) /\ Written(req[p]))'
    BY <2>2, <2>3 DEF Bound, Reads, Written, NodeOps, Shifts, Checks, Inside, Aims, Spread
  <2>5. UNCHANGED timelineVars
    BY <1>1 DEF SendCreateNode
  <2>6. PlacesLeft' /\ Tends
    BY <1>1, <2>2, <2>5, PlaceForNew, RowsTend DEF SendCreateNode, timelineVars
  <2> QED
    BY <2>4, <2>6, TimeKept
<1>2. CASE SendUpdateNode(p)
  BY <1>2, SentToNode DEF SendUpdateNode, NodeOps, Shifts
<1>3. CASE SendMoveNode(p)
  BY <1>3, SentToNode DEF SendMoveNode, NodeOps, Shifts
<1>4. CASE SendDeleteNode(p)
  BY <1>4, SentToNode DEF SendDeleteNode, NodeOps, Shifts
<1>5. CASE SendLinkEvidence(p)
  BY <1>5, SentToNode DEF SendLinkEvidence, NodeOps, Shifts
<1>6. CASE SendUnlinkEvidence(p)
  BY <1>6, SentToNode DEF SendUnlinkEvidence, NodeOps, Shifts
<1>7. CASE SendDeleteFile(p)
  <2>1. PICK u \in Senders(p, "delete_file"), e \in Evidence :
           Send(p, "delete_file", u, evidence[e].case, e, [evidence |-> e],
                "none", "fetch_file")
    BY <1>7 DEF SendDeleteFile
  <2>2. /\ req'[p].op = "delete_file" /\ req'[p].arg = [evidence |-> e]
        /\ req'[p].then = "fetch_file" /\ DOMAIN req'[p].tx = {}
        /\ req'[p].at \in {"lookup", "fetch_file"}
    BY <2>1, SentTime
  <2>3. Heading(req'[p]) = "fetch_file"
    BY <2>2 DEF Heading, Checks
  <2>4. (Bound(req[p]) /\ Reads(req[p]) /\ Written(req[p]))' /\ ~Inserts(req'[p])
    BY <2>2, <2>3
    DEF Bound, Reads, Written, NodeOps, Shifts, Checks, Inside, Aims, Spread, Inserts
  <2> QED
    BY <1>7, <2>4, TimeStill DEF SendDeleteFile
<1> QED
  BY <1>1, <1>2, <1>3, <1>4, <1>5, <1>6, <1>7

-----------------------------------------------------------------------------
\* What the transaction of a request sees: rows, and those of its case stay so.
LEMMA SeenRows ==
    ASSUME FlowInv, TimeInv, NEW p \in Slots, req[p].op \in Shifts
    PROVE  /\ Seen(p, nodes) = View(req[p])
           /\ View(req[p]) \in [NodeIds -> NodeRow]
           /\ \A n \in NodeIds :
                 /\ nodes[n].status # "none" => View(req[p])[n].status # "none"
                 /\ View(req[p])[n].status # "none" => nodes[n].status # "none"
                 /\ nodes[n].status # "none" => View(req[p])[n].case = nodes[n].case
<1>1. nodes \in [NodeIds -> NodeRow] /\ Written(req[p])
  BY DEF TimeInv, TimelineTypeOK
<1>2. Seen(p, nodes) = View(req[p])
  BY DEF Seen, View, Sight
<1>3. ASSUME NEW n \in NodeIds
      PROVE  /\ View(req[p])[n] \in NodeRow
             /\ nodes[n].status # "none" => View(req[p])[n].status # "none"
             /\ View(req[p])[n].status # "none" => nodes[n].status # "none"
             /\ nodes[n].status # "none" => View(req[p])[n].case = nodes[n].case
  <2>1. View(req[p])[n] = IF n \in DOMAIN req[p].tx THEN req[p].tx[n] ELSE nodes[n]
    BY <1>1 DEF View, Sight
  <2>2. CASE n \in DOMAIN req[p].tx
    BY <1>1, <2>1, <2>2 DEF Written, Owned
  <2>3. CASE n \notin DOMAIN req[p].tx
    BY <1>1, <2>1, <2>3
  <2> QED
    BY <2>2, <2>3
<1>4. View(req[p]) \in [NodeIds -> NodeRow]
  BY <1>1, <1>3 DEF View, Sight
<1> QED
  BY <1>2, <1>3, <1>4

\* A request that goes on between two statements, to a place where no check is.
LEMMA OnTime ==
    ASSUME FlowInv, TimeInv, NEW p \in Slots, NEW place, NEW saw, NEW tx,
           On(p, place, saw, tx), Tends, place \notin Checks \cup {"lookup"}
    PROVE  /\ req'[p].op = req[p].op /\ req'[p].at = place /\ req'[p].saw = saw
           /\ req'[p].tx = tx /\ req'[p].arg = req[p].arg /\ req'[p].case = req[p].case
           /\ Heading(req'[p]) = place
           /\ Bound(req[p])'
           /\ req[p].op \in NodeOps =>
                 /\ nodes'[req[p].arg.node].status # "none"
                 /\ req[p].case = nodes'[req[p].arg.node].case
<1>1. /\ req'[p].op = req[p].op /\ req'[p].at = place /\ req'[p].saw = saw
      /\ req'[p].tx = tx /\ req'[p].arg = req[p].arg /\ req'[p].case = req[p].case
      /\ Bound(req[p]) /\ Reads(req[p])
  BY DEF On, Keeps, TimeInv
<1>2. Bound(req[p])' /\ Heading(req'[p]) = place
  BY <1>1 DEF Bound, Heading, Checks
<1>3. req[p].op \in NodeOps => req[p].arg.node \in NodeIds
  BY <1>1 DEF Bound
<1> QED
  BY <1>1, <1>2, <1>3 DEF Reads, Tends

\* The place of a new node, and the new node.
LEMMA TimeNextSort ==
    ASSUME FlowInv, TimeInv, NEW p \in Slots, Others(p), ReadNextSort(p)
    PROVE  TimeInv'
<1>1. /\ UNCHANGED timelineVars /\ req[p].at = "next_sort"
      /\ Learn(p, "node_insert", NextSort(nodes, req[p].case, req[p].arg.day))
  BY DEF ReadNextSort, At
<1>2. req[p].op = "create_node"
  BY <1>1, Standing DEF At, OnWay, Checks
<1>3. On(p, "node_insert", NextSort(nodes, req[p].case, req[p].arg.day), req[p].tx)
  BY <1>1, LearnOn
<1>4. Tends /\ nodes \in [NodeIds -> NodeRow]
  BY <1>1, RowsTend DEF TimeInv, TimelineTypeOK
<1>5. NextSort(nodes, req[p].case, req[p].arg.day) \in Nat
  BY <1>4, NextSortAbove
<1>6. /\ req'[p].op = req[p].op /\ req'[p].at = "node_insert" /\ Bound(req[p])'
      /\ Heading(req'[p]) = "node_insert" /\ req'[p].saw \in Nat
  BY <1>3, <1>4, <1>5, OnTime DEF Checks
<1>7. Reads(req[p])' /\ Written(req[p])'
  BY <1>2, <1>6 DEF Reads, Written, NodeOps, Shifts, Inside, Aims, Spread
<1> QED
  BY <1>1, <1>2, <1>6, <1>7, TimeStill DEF Inserts

\* A new node takes an id that nobody has, in the case it was sent for.
LEMMA NodeEnters ==
    ASSUME TimeInv, NEW p \in Inserting, NEW c \in Cases, NEW d \in Days,
           NEW order \in Nat, nodes' = NodesWith(c, d, order),
           evidence' = evidence, evlinks' = evlinks
    PROVE  /\ Min(FreshNode) \in FreshNode /\ Tends
           /\ FreshNode \ {Min(FreshNode)} \subseteq FreshNode'
<1>1. FreshNode # {}
  <2>1. Cardinality(Inserting) # 0
    BY PlaceCounts, FS_EmptySet
  <2>2. Cardinality(FreshNode) # 0
    BY <2>1, PlaceCounts DEF TimeInv, PlacesLeft
  <2> QED
    BY <2>2, FS_EmptySet
<1>2. PICK n \in FreshNode : n = Min(FreshNode)
  BY <1>1, FreshIsFresh
<1>3. n \in NodeIds /\ nodes[n].status = "none"
  BY DEF FreshNode
<1>4. nodes' = [nodes EXCEPT ![n] = [status |-> "active", case |-> c,
                                     day |-> d, order |-> order]]
  BY <1>2 DEF NodesWith
<1>5. /\ nodes \in [NodeIds -> NodeRow] /\ evidence \in [Evidence -> EvidenceRow]
      /\ evlinks \subseteq EvLink
      /\ \A l \in evlinks : /\ evidence[l.evidence].case = nodes[l.node].case
                            /\ nodes[l.node].status # "none"
  BY DEF TimeInv, TimelineTypeOK
<1>6. nodes' \in [NodeIds -> NodeRow]
  <2>1. [status |-> "active", case |-> c, day |-> d, order |-> order] \in NodeRow
    BY DEF NodeRow, NodeStatus
  <2> QED
    BY <1>4, <1>5, <2>1
<1>7. \A m \in NodeIds : nodes[m].status # "none" => nodes'[m] = nodes[m]
  BY <1>3, <1>4, <1>5
<1>8. \A l \in evlinks : nodes'[l.node] = nodes[l.node]
  BY <1>5, <1>7 DEF EvLink
<1>9. Tends
  BY <1>5, <1>6, <1>7, <1>8 DEF Tends, TimelineTypeOK
<1> QED
  BY <1>2, <1>4, <1>5, <1>9 DEF FreshNode

\* The place is taken by a request that needs it no more.
LEMMA PlaceTaken ==
    ASSUME PlacesLeft, NEW p \in Inserting, NEW n \in FreshNode, Others(p),
           FreshNode \ {n} \subseteq FreshNode', ~Inserts(req'[p])
    PROVE  PlacesLeft'
<1>1. Inserting' \subseteq Inserting \ {p}
  <2>1. \A q \in Slots \ {p} : req'[q].op = req[q].op /\ req'[q].at = req[q].at
    BY DEF Others, Fields
  <2> QED
    BY <2>1 DEF Inserting, Inserts
<1>2. /\ IsFiniteSet(FreshNode \ {n})
      /\ Cardinality(FreshNode \ {n}) = Cardinality(FreshNode) - 1
  BY PlaceCounts, FS_RemoveElement
<1>3. /\ IsFiniteSet(Inserting \ {p})
      /\ Cardinality(Inserting \ {p}) = Cardinality(Inserting) - 1
  BY PlaceCounts, FS_RemoveElement
<1>4. Cardinality(FreshNode \ {n}) <= Cardinality(FreshNode')
  BY <1>2, PlaceCounts, FS_Subset
<1>5. Cardinality(Inserting') <= Cardinality(Inserting \ {p})
  BY <1>1, <1>3, FS_Subset
<1> QED
  BY <1>2, <1>3, <1>4, <1>5, PlaceCounts DEF PlacesLeft

\* POST /cases/:id/nodes inserts its node.
LEMMA TimeInserts ==
    ASSUME FlowInv, TimeInv, NEW p \in Slots, Others(p), InsertNode(p)
    PROVE  TimeInv'
<1>1. req[p].at = "node_insert" /\ req[p].op = "create_node"
  <2>1. req[p].at = "node_insert"
    BY DEF InsertNode, At
  <2> QED
    BY <2>1, Standing DEF At, OnWay, Checks
<1>2. p \in Inserting
  BY <1>1 DEF Inserting
<1>3. /\ req[p].case \in Cases /\ req[p].arg.day \in Days /\ req[p].saw \in Nat
      /\ PlacesLeft
  BY <1>1 DEF TimeInv, Bound, Reads
<1>4. /\ nodes' = NodesWith(req[p].case, req[p].arg.day, req[p].saw)
      /\ evidence' = evidence /\ evlinks' = evlinks /\ req' = Answered(p)
  BY DEF InsertNode, CarryAndSucceed
<1>5. /\ Tends /\ Min(FreshNode) \in FreshNode
      /\ FreshNode \ {Min(FreshNode)} \subseteq FreshNode'
  BY <1>2, <1>3, <1>4, NodeEnters
<1>6. /\ ~Inserts(req'[p])
      /\ (Bound(req[p]) /\ Reads(req[p]) /\ Written(req[p]))'
  BY <1>4, <1>5, LeavesTime
<1>7. PlacesLeft'
  BY <1>2, <1>3, <1>5, <1>6, PlaceTaken
<1> QED
  BY <1>5, <1>6, <1>7, TimeKept

-----------------------------------------------------------------------------
\* fetch_node: the row, and on to the checks.
LEMMA TimeFetches ==
    ASSUME FlowInv, TimeInv, NEW p \in Slots, Others(p), FetchNode(p)
    PROVE  TimeInv'
<1> DEFINE r   == req[p]
           row == nodes[r.arg.node]
           saw == [row |-> row, order |-> FirstOrder(r, row), list |-> <<>>, done |-> 0]
           to  == AfterFetch(r, row)
<1>1. req[p].at = "fetch_node" /\ req[p].op \in NodeOps /\ UNCHANGED timelineVars
  <2>1. req[p].at = "fetch_node" /\ UNCHANGED timelineVars
    BY DEF FetchNode, At
  <2> QED
    BY <2>1, Standing DEF At, OnWay, Checks, NodeOps
<1>2. Bound(r) /\ Reads(r) /\ Written(r) /\ nodes \in [NodeIds -> NodeRow]
  BY DEF TimeInv, TimelineTypeOK
<1>3. r.arg.node \in NodeIds /\ row \in NodeRow /\ row.order \in Nat
  BY <1>1, <1>2 DEF Bound, NodeRow
<1>4. CASE Refuse(p)
  BY <1>1, <1>4, WaysOutTime
<1>5. CASE LearnAndCheck(p, saw, "write", to)
  <2>1. /\ req'[p].op = r.op /\ req'[p].arg = r.arg /\ req'[p].case = r.case
        /\ req'[p].tx = r.tx /\ req'[p].at = "case" /\ req'[p].then = to
        /\ req'[p].saw = saw
    BY <1>5 DEF LearnAndCheck, FlowInv, Fields
  <2>2. /\ r.op \in Shifts => to \in Aims
        /\ r.op \notin Shifts => to \in {"delete_node", "find_evidence", "unlink"}
    BY <1>1 DEF AfterFetch, NodeOps, Shifts, Aims
  <2>3. Heading(req'[p]) = to
    BY <2>1 DEF Heading, Checks
  <2>4. Bound(req[p])'
    BY <1>1, <1>2, <2>1, <2>2 DEF Bound, Checks, NodeOps, Shifts, Aims
  <2>5. saw.order \in Nat
    <3>1. r.op = "move_node" => r.arg.order \in Orders \cup {Keep}
      BY <1>2 DEF Bound, Shifts
    <3> QED
      BY <1>3, <3>1, TimelineAssumption DEF FirstOrder
  <2>6. /\ DOMAIN saw = {"row", "order", "list", "done"} /\ saw.row \in NodeRow
    BY <1>3
  <2> HIDE DEF saw, to, row
  <2>7. Reads(req[p])'
    BY <1>1, <1>2, <2>1, <2>2, <2>3, <2>5, <2>6
    DEF Reads, timelineVars, Inside, NodeOps, Shifts, Aims, Spread
  <2>8. Written(req[p])'
    BY <1>1, <1>2, <2>1 DEF Written, Spread, Numbering
  <2>9. ~Inserts(req'[p])
    BY <1>1, <2>1 DEF Inserts, NodeOps
  <2> QED
    BY <1>1, <2>4, <2>7, <2>8, <2>9, TimeStill
<1> QED
  BY <1>4, <1>5 DEF FetchNode

\* The requests that stand in a transaction.
LEMMA InShift ==
    ASSUME FlowInv, TimeInv, NEW p \in Slots, req[p].at \in Aims \cup Spread
    PROVE  /\ req[p].op \in Shifts /\ req[p].op \in NodeOps
           /\ Bound(req[p]) /\ Reads(req[p]) /\ Written(req[p])
           /\ req[p].arg.node \in NodeIds /\ Owned(req[p], req[p].arg.node)
           /\ req[p].case \in Cases
           /\ DOMAIN req[p].saw = {"row", "order", "list", "done"}
           /\ req[p].saw.row \in NodeRow /\ req[p].saw.order \in Nat
           /\ OldDay(p) \in Days /\ Day(p) \in Days
           /\ Day(p) = NewOf(req[p]) /\ OldDay(p) = OldOf(req[p])
           /\ Resequences(p) <=> Renumbers(req[p])
           /\ Heading(req[p]) = req[p].at
<1>1. req[p].op \in Shifts
  BY Standing DEF At, OnWay, Checks, Aims, Spread, Shifts
<1>2. req[p].op \in NodeOps /\ Bound(req[p]) /\ Reads(req[p]) /\ Written(req[p])
  BY <1>1 DEF Shifts, NodeOps, TimeInv
<1>3. Heading(req[p]) = req[p].at
  BY DEF Heading, Checks, Aims, Spread
<1>4. /\ req[p].arg.node \in NodeIds /\ Owned(req[p], req[p].arg.node)
      /\ req[p].arg.day \in Days \cup {Keep}
      /\ DOMAIN req[p].saw = {"row", "order", "list", "done"}
      /\ req[p].saw.row \in NodeRow /\ req[p].saw.order \in Nat
  BY <1>1, <1>2, <1>3 DEF Bound, Reads, Owned
<1>5. OldDay(p) \in Days /\ Day(p) \in Days
  BY <1>4 DEF OldDay, Day, NewDay, NodeRow
<1>6. req[p].case \in Cases
  <2>1. nodes[req[p].arg.node] \in NodeRow
    BY <1>4 DEF TimeInv, TimelineTypeOK
  <2> QED
    BY <1>4, <2>1 DEF Owned, NodeRow
<1>7. /\ Day(p) = NewOf(req[p]) /\ OldDay(p) = OldOf(req[p])
      /\ Resequences(p) <=> Renumbers(req[p])
  BY DEF Day, OldDay, NewOf, OldOf, Resequences, Renumbers
<1> QED
  BY <1>1, <1>2, <1>3, <1>4, <1>5, <1>6, <1>7

\* A request goes on in its transaction.
LEMMA ShiftOn ==
    ASSUME FlowInv, TimeInv, NEW p \in Slots, Others(p), UNCHANGED timelineVars,
           req[p].at \in Aims \cup Spread,
           NEW place \in Aims \cup Spread, NEW saw, NEW tx, On(p, place, saw, tx),
           DOMAIN saw = {"row", "order", "list", "done"},
           saw.row = req[p].saw.row, saw.order \in Nat, Written(req[p])'
    PROVE  TimeInv'
<1>1. Tends
  BY RowsTend
<1>2. place \notin Checks \cup {"lookup"} \cup Inside \cup {"link_node", "node_insert"}
  BY DEF Aims, Spread, Checks, Inside
<1>3. /\ req'[p].op = req[p].op /\ req'[p].at = place /\ req'[p].saw = saw
      /\ req'[p].tx = tx /\ req'[p].arg = req[p].arg /\ req'[p].case = req[p].case
      /\ Heading(req'[p]) = place
      /\ Bound(req[p])'
      /\ req[p].op \in NodeOps =>
                 /\ nodes'[req[p].arg.node].status # "none"
                 /\ req[p].case = nodes'[req[p].arg.node].case
  BY <1>1, <1>2, OnTime
<1>4. Reads(req[p])'
  BY <1>2, <1>3, InShift DEF Reads
<1>5. ~Inserts(req'[p])
  BY <1>3, InShift DEF Inserts, Shifts
<1> QED
  BY <1>3, <1>4, <1>5, TimeStill

\* It reads the end of the day.
LEMMA TimeOrders ==
    ASSUME FlowInv, TimeInv, NEW p \in Slots, Others(p), NextOrder(p)
    PROVE  TimeInv'
<1> DEFINE o   == NextSort(Seen(p, nodes), req[p].case, Day(p))
           saw == [req[p].saw EXCEPT !.order = o]
<1>1. UNCHANGED timelineVars /\ req[p].at = "next_order" /\ Learn(p, "write_node", saw)
  BY DEF NextOrder, At
<1>2. On(p, "write_node", saw, req[p].tx)
  BY <1>1, LearnOn
<1>3. req[p].at \in Aims \cup Spread
  BY <1>1 DEF Aims
<1>4. o \in Nat
  BY <1>3, InShift, SeenRows, NextSortAbove
<1>5. /\ DOMAIN saw = {"row", "order", "list", "done"}
      /\ saw.row = req[p].saw.row /\ saw.order \in Nat
  BY <1>3, <1>4, InShift
<1>6. Written(req[p])'
  <2>1. /\ req'[p].op = req[p].op /\ req'[p].at = "write_node" /\ req'[p].tx = req[p].tx
    BY <1>2 DEF On, Keeps
  <2>2. req[p].at \notin Spread
    BY <1>1 DEF Spread
  <2> QED
    BY <1>3, <2>1, <2>2, InShift DEF Written, Spread, Numbering
<1> HIDE DEF saw
<1> QED
  BY <1>1, <1>2, <1>3, <1>5, <1>6, ShiftOn DEF Aims, Spread

\* A row of the case is written in the transaction.
LEMMA RowWritten ==
    ASSUME FlowInv, TimeInv, NEW p \in Slots, req[p].at \in Aims \cup Spread,
           UNCHANGED nodes, NEW n, Owned(req[p], n), NEW row \in NodeRow,
           row.status # "none", row.case = req[p].case,
           NEW rows, rows = <<>> \/ rows = Row(n, row),
           req'[p].tx = Writes(p, rows), req'[p].op = req[p].op,
           req'[p].case = req[p].case, req'[p].at \in Spread,
           req'[p].at \in Numbering =>
              /\ req'[p].saw.list \in Seq(NodeIds) /\ req'[p].saw.done \in Nat
              /\ req'[p].saw.done < Len(req'[p].saw.list)
              /\ \A i \in 1 .. Len(req'[p].saw.list) : Owned(req[p], req'[p].saw.list[i])
    PROVE  Written(req[p])'
<1>1. Written(req[p])
  BY InShift
<1>2. ASSUME NEW k \in DOMAIN req'[p].tx
      PROVE  /\ Owned(req[p], k) /\ req'[p].tx[k] \in NodeRow
             /\ req'[p].tx[k].status # "none" /\ req'[p].tx[k].case = req[p].case
  <2>1. CASE k \in DOMAIN rows /\ req'[p].tx[k] = rows[k]
    <3>1. rows = Row(n, row)
      BY <2>1
    <3>2. k = n /\ rows[k] = row
      BY <2>1, <3>1 DEF Row
    <3> QED
      BY <2>1, <3>2
  <2>2. CASE k \in DOMAIN req[p].tx /\ req'[p].tx[k] = req[p].tx[k]
    BY <1>1, <2>2, InShift DEF Written
  <2> QED
    BY <2>1, <2>2, WritesRows
<1>3. \A k : Owned(req[p], k) => Owned(req[p], k)'
  BY DEF Owned
<1> QED
  BY <1>2, <1>3 DEF Written

\* It writes the row, in its transaction.
LEMMA TimeWrites ==
    ASSUME FlowInv, TimeInv, NEW p \in Slots, Others(p), WriteNode(p)
    PROVE  TimeInv'
<1> DEFINE n     == req[p].arg.node
           row   == Seen(p, nodes)[n]
           new   == [row EXCEPT !.day = Day(p), !.order = req[p].saw.order]
           rows  == IF row.status # "active" THEN <<>> ELSE Row(n, new)
           place == IF Resequences(p) THEN "read_new" ELSE "commit_node"
<1>1. UNCHANGED timelineVars /\ req[p].at = "write_node" /\ Buffer(p, place, rows)
  BY DEF WriteNode, At
<1>2. On(p, place, req[p].saw, Writes(p, rows))
  BY <1>1, BufferOn
<1>3. req[p].at \in Aims \cup Spread /\ place \in Spread /\ place \notin Numbering
  BY <1>1 DEF Aims, Spread, Numbering
<1>4. Owned(req[p], n) /\ row \in NodeRow /\ row.status # "none" /\ row.case = req[p].case
  BY <1>3, InShift, SeenRows DEF Owned
<1>5. new \in NodeRow /\ new.status # "none" /\ new.case = req[p].case
  <2>1. Day(p) \in Days /\ req[p].saw.order \in Nat
    BY <1>3, InShift
  <2> QED
    BY <1>4, <2>1 DEF NodeRow
<1>6. Written(req[p])'
  <2>1. /\ req'[p].op = req[p].op /\ req'[p].at = place /\ req'[p].tx = Writes(p, rows)
        /\ req'[p].case = req[p].case /\ UNCHANGED nodes
    BY <1>1, <1>2 DEF On, Keeps, timelineVars
  <2>2. rows = <<>> \/ rows = Row(n, new)
    OBVIOUS
  <2> HIDE DEF new, rows, place, n, row
  <2> QED
    BY <1>3, <1>4, <1>5, <2>1, <2>2, RowWritten
<1>7. DOMAIN req[p].saw = {"row", "order", "list", "done"} /\ req[p].saw.order \in Nat
  BY <1>3, InShift
<1> HIDE DEF place, rows
<1> QED
  BY <1>1, <1>2, <1>3, <1>6, <1>7, ShiftOn

\* The list of a day holds rows of the case.
LEMMA DayListed ==
    ASSUME FlowInv, TimeInv, NEW p \in Slots, req[p].at \in Spread, NEW d, NEW first,
           NEW list, list = DaySequence(Seen(p, nodes), req[p].case, d, first)
    PROVE  /\ Lists(list, View(req[p]), req[p].case, d, first)
           /\ list \in Seq(NodeIds) /\ Len(list) \in Nat
           /\ list # <<>> => 0 < Len(list)
           /\ \A i \in 1 .. Len(list) : Owned(req[p], list[i])
           /\ list = <<>> <=> OnDay(View(req[p]), req[p].case, d) = {}
<1>1. /\ Seen(p, nodes) = View(req[p]) /\ View(req[p]) \in [NodeIds -> NodeRow]
      /\ \A n \in NodeIds :
            /\ View(req[p])[n].status # "none" => nodes[n].status # "none"
            /\ nodes[n].status # "none" => View(req[p])[n].case = nodes[n].case
  BY InShift, SeenRows
<1>2. Lists(list, View(req[p]), req[p].case, d, first)
  BY <1>1, SequenceLists
<1>3. /\ list \in Seq(NodeIds) /\ Len(list) \in Nat
      /\ \A i \in 1 .. Len(list) : list[i] \in OnDay(View(req[p]), req[p].case, d)
      /\ list = <<>> <=> OnDay(View(req[p]), req[p].case, d) = {}
  BY <1>1, <1>2, ListCovers
<1>4. \A n \in OnDay(View(req[p]), req[p].case, d) : Owned(req[p], n)
  BY <1>1 DEF OnDay, Owned
<1>5. list # <<>> => 0 < Len(list)
  BY <1>3
<1> QED
  BY <1>2, <1>3, <1>4, <1>5

\* resequence_day_orders reads the ids of a day,
LEMMA TimeReadsDay ==
    ASSUME FlowInv, TimeInv, NEW p \in Slots, Others(p), ReadDay(p)
    PROVE  TimeInv'
<1>1. req[p].at \in {"read_new", "read_old"} /\ UNCHANGED timelineVars
  BY DEF ReadDay
<1>2. req[p].at \in Spread
  BY <1>1 DEF Spread
<1>3. PICK d, first, list, place :
         /\ list = DaySequence(Seen(p, nodes), req[p].case, d, first)
         /\ place = IF list = <<>> THEN AfterDay(p)
                    ELSE IF At(p, "read_new") THEN "number_new" ELSE "number_old"
         /\ Learn(p, place, [req[p].saw EXCEPT !.list = list, !.done = 0])
  BY DEF ReadDay
<1>4. /\ list \in Seq(NodeIds) /\ Len(list) \in Nat
      /\ list # <<>> => 0 < Len(list)
      /\ \A i \in 1 .. Len(list) : Owned(req[p], list[i])
  BY <1>2, <1>3, DayListed
<1>5. PICK saw : saw = [req[p].saw EXCEPT !.list = list, !.done = 0]
  OBVIOUS
<1>6. /\ DOMAIN saw = {"row", "order", "list", "done"} /\ saw.row = req[p].saw.row
      /\ saw.order \in Nat /\ saw.list = list /\ saw.done = 0
  BY <1>2, <1>5, InShift
<1>7. place \in Spread /\ (place \in Numbering => list # <<>>)
  BY <1>3 DEF AfterDay, Spread, Numbering
<1>8. On(p, place, saw, req[p].tx)
  BY <1>3, <1>5, LearnOn
<1>9. Written(req[p])'
  <2>1. /\ req'[p].op = req[p].op /\ req'[p].at = place /\ req'[p].tx = req[p].tx
        /\ req'[p].saw = saw /\ req'[p].case = req[p].case
    BY <1>8 DEF On, Keeps
  <2>2. \A k : Owned(req[p], k) => Owned(req[p], k)'
    BY <1>1, <2>1 DEF Owned, timelineVars
  <2>3. Written(req[p])
    BY <1>2, InShift
  <2> QED
    BY <1>4, <1>6, <1>7, <2>1, <2>2, <2>3 DEF Written
<1> QED
  BY <1>1, <1>2, <1>6, <1>7, <1>8, <1>9, ShiftOn

\* and writes the place of each.
LEMMA TimeNumbers ==
    ASSUME FlowInv, TimeInv, NEW p \in Slots, Others(p), NumberRow(p)
    PROVE  TimeInv'
<1> DEFINE saw  == req[p].saw
           n    == NextRow(p)
           row  == Seen(p, nodes)[n]
           last == saw.done + 1 = Len(saw.list)
           more == [saw EXCEPT !.done = @ + 1]
           new  == [row EXCEPT !.order = 100 * (saw.done + 1)]
           at   == IF last THEN AfterDay(p) ELSE req[p].at
<1>1. req[p].at \in Numbering /\ UNCHANGED timelineVars
  BY DEF NumberRow, Numbering
<1>2. req[p].at \in Aims \cup Spread /\ at \in Spread
  BY <1>1 DEF Numbering, Spread, AfterDay
<1>3. On(p, at, more, Writes(p, Row(n, new)))
  BY DEF NumberRow, On, Keeps, FlowInv, Fields, bounds
<1>4. /\ saw.list \in Seq(NodeIds) /\ saw.done \in Nat /\ saw.done < Len(saw.list)
      /\ \A i \in 1 .. Len(saw.list) : Owned(req[p], saw.list[i])
      /\ DOMAIN saw = {"row", "order", "list", "done"} /\ saw.order \in Nat
  BY <1>1, <1>2, InShift DEF Written
<1>5. Owned(req[p], n)
  <2>1. Len(saw.list) \in Nat /\ saw.done + 1 \in 1 .. Len(saw.list)
    BY <1>4
  <2> QED
    BY <1>4, <2>1 DEF NextRow
<1>6. row \in NodeRow /\ row.status # "none" /\ row.case = req[p].case
  BY <1>2, <1>5, InShift, SeenRows DEF Owned
<1>7. new \in NodeRow /\ new.status # "none" /\ new.case = req[p].case
  <2>1. 100 * (saw.done + 1) \in Nat
    BY <1>4
  <2> QED
    BY <1>6, <2>1 DEF NodeRow
<1>8. /\ DOMAIN more = {"row", "order", "list", "done"} /\ more.row = saw.row
      /\ more.order = saw.order /\ more.list = saw.list /\ more.done = saw.done + 1
  BY <1>4
<1>9. ~last => more.done \in Nat /\ more.done < Len(more.list)
  BY <1>4, <1>8
<1>10. Written(req[p])'
  <2>1. /\ req'[p].op = req[p].op /\ req'[p].at = at
        /\ req'[p].tx = Writes(p, Row(n, new)) /\ req'[p].saw = more
        /\ req'[p].case = req[p].case /\ UNCHANGED nodes
    BY <1>1, <1>3 DEF On, Keeps, timelineVars
  <2>2. at \in Numbering => ~last
    BY DEF AfterDay, Numbering
  <2> HIDE DEF new, row, n, more, at, last
  <2> QED
    BY <1>2, <1>4, <1>5, <1>6, <1>7, <1>8, <1>9, <2>1, <2>2, RowWritten
<1> HIDE DEF more, at
<1> QED
  BY <1>1, <1>2, <1>3, <1>4, <1>8, <1>10, ShiftOn

\* The transaction is committed.
LEMMA TimeCommits ==
    ASSUME FlowInv, TimeInv, NEW p \in Slots, Others(p), CommitNode(p)
    PROVE  TimeInv'
<1>1. /\ req[p].at = "commit_node" /\ nodes' = Seen(p, nodes)
      /\ evidence' = evidence /\ evlinks' = evlinks /\ Carry(p, "refetch", Nothing)
  BY DEF CommitNode, At
<1>2. req[p].at \in Aims \cup Spread
  BY <1>1 DEF Spread
<1>3. /\ nodes' = View(req[p]) /\ View(req[p]) \in [NodeIds -> NodeRow]
      /\ \A n \in NodeIds :
            /\ nodes[n].status # "none" => View(req[p])[n].status # "none"
            /\ View(req[p])[n].status # "none" => nodes[n].status # "none"
            /\ nodes[n].status # "none" => View(req[p])[n].case = nodes[n].case
  BY <1>1, <1>2, InShift, SeenRows
<1>4. Tends
  <2>1. \A l \in evlinks : l.node \in NodeIds /\ nodes[l.node].status # "none"
    BY DEF TimeInv, TimelineTypeOK, EvLink
  <2> QED
    BY <1>1, <1>3, <2>1 DEF TimeInv, TimelineTypeOK, Tends
<1>5. \A n \in NodeIds : nodes[n].status = "none" => nodes'[n].status = "none"
  BY <1>3
<1>6. /\ On(p, "refetch", Nothing, <<>>)
  BY <1>1 DEF Carry, bounds, On, Keeps, FlowInv, Fields
<1>7. DOMAIN <<>> = {}
  OBVIOUS
<1>8. PICK tx : tx = <<>> /\ DOMAIN tx = {}
  BY <1>7
<1>9. /\ req'[p].op = req[p].op /\ req'[p].at = "refetch" /\ DOMAIN req'[p].tx = {}
      /\ Bound(req[p])' /\ Heading(req'[p]) = "refetch" /\ req'[p].case = req[p].case
      /\ req'[p].arg = req[p].arg
      /\ nodes'[req[p].arg.node].status # "none"
      /\ req[p].case = nodes'[req[p].arg.node].case
  BY <1>2, <1>4, <1>6, <1>8, OnTime, InShift DEF Checks
<1>10. Reads(req[p])' /\ Written(req[p])'
  BY <1>9 DEF Reads, Written, Inside, Aims, Spread, Numbering
<1>11. ~Inserts(req'[p])
  BY <1>2, <1>9, InShift DEF Inserts, Shifts
<1> QED
  BY <1>4, <1>5, <1>9, <1>10, <1>11, TimeRows

\* What follows the checks, and the checks that follow the commit.
LEMMA TimeChecks ==
    ASSUME FlowInv, TimeInv, NEW p \in Slots, Others(p), RefetchNode(p) \/ FetchFile(p)
    PROVE  TimeInv'
<1>1. UNCHANGED timelineVars /\ Bound(req[p]) /\ Reads(req[p]) /\ Written(req[p])
  BY DEF RefetchNode, FetchFile, TimeInv
<1>2. \/ req[p].at = "refetch" /\ req[p].op \in Shifts
      \/ req[p].at = "fetch_file" /\ req[p].op = "delete_file"
  <2>1. req[p].at \in {"refetch", "fetch_file"}
    BY DEF RefetchNode, FetchFile, At
  <2> QED
    BY <2>1, Standing DEF At, OnWay, Checks, Shifts
<1>3. CASE Refuse(p)
  BY <1>1, <1>3, WaysOutTime
<1>4. CASE RefetchNode(p) /\ Check(p, "write", "answer")
  <2>1. /\ req'[p].op = req[p].op /\ req'[p].arg = req[p].arg /\ req'[p].case = req[p].case
        /\ req'[p].tx = req[p].tx /\ req'[p].at = "case" /\ req'[p].then = "answer"
        /\ req'[p].saw = req[p].saw
    BY <1>4 DEF Check, FlowInv, Fields
  <2>2. Heading(req'[p]) = "answer" /\ req[p].at = "refetch" /\ req[p].op \in Shifts
    BY <1>2, <1>4, <2>1 DEF Heading, Checks, RefetchNode, At
  <2>3. Bound(req[p])' /\ Reads(req[p])' /\ Written(req[p])'
    BY <1>1, <2>1, <2>2
    DEF Bound, Reads, Written, Checks, NodeOps, Shifts, Inside, Aims, Spread,
       Numbering, timelineVars
  <2>4. ~Inserts(req'[p])
    BY <2>1, <2>2 DEF Inserts, Shifts
  <2> QED
    BY <1>1, <2>3, <2>4, TimeStill
<1>5. CASE FetchFile(p) /\ Check(p, "write", "delete_file")
  <2>1. /\ req'[p].op = req[p].op /\ req'[p].arg = req[p].arg
        /\ req'[p].at = "case" /\ req'[p].then = "delete_file"
    BY <1>5 DEF Check, FlowInv, Fields
  <2>2. Heading(req'[p]) = "delete_file" /\ req[p].op = "delete_file"
    BY <1>2, <1>5, <2>1 DEF Heading, Checks, FetchFile, At
  <2>3. Bound(req[p])' /\ Reads(req[p])' /\ Written(req[p])'
    BY <1>1, <2>1, <2>2
    DEF Bound, Reads, Written, Checks, NodeOps, Shifts, Inside, Aims, Spread
  <2>4. ~Inserts(req'[p])
    BY <2>1, <2>2 DEF Inserts
  <2> QED
    BY <1>1, <2>3, <2>4, TimeStill
<1> QED
  BY <1>3, <1>4, <1>5 DEF RefetchNode, FetchFile

\* Nodes and evidence that are deleted, and links.
LEMMA TimeRest ==
    ASSUME FlowInv, TimeInv, NEW p \in Slots, Others(p),
           \/ DeleteNode(p) \/ FindEvidence(p) \/ LinkNode(p) \/ UnlinkNode(p)
           \/ DeleteEvidence(p) \/ NodeDeadlock(p)
    PROVE  TimeInv'
<1>1. /\ Bound(req[p]) /\ Reads(req[p])
      /\ nodes \in [NodeIds -> NodeRow] /\ evidence \in [Evidence -> EvidenceRow]
      /\ evlinks \subseteq EvLink
      /\ \A l \in evlinks : /\ evidence[l.evidence].case = nodes[l.node].case
                            /\ nodes[l.node].status # "none"
  BY DEF TimeInv, TimelineTypeOK
<1>2. req' = Answered(p) \/ req'[p] = Idle =>
         (Tends /\ (\A n \in NodeIds :
                       nodes[n].status = "none" => nodes'[n].status = "none")
            => TimeInv')
  BY LeavesTime, TimeRows
<1>3. Refuse(p) => req'[p] = Idle
  BY DEF Refuse, FlowInv
<1>4. CarryAndSucceed(p) => req' = Answered(p)
  BY DEF CarryAndSucceed
<1>5. CASE DeleteNode(p)
  <2>1. req[p].at = "delete_node" /\ req[p].op \in NodeOps
    <3>1. req[p].at = "delete_node"
      BY <1>5 DEF DeleteNode, At
    <3> QED
      BY <3>1, Standing DEF At, OnWay, Checks, NodeOps
  <2>2. req[p].arg.node \in NodeIds /\ nodes[req[p].arg.node].status # "none"
    BY <1>1, <2>1 DEF Bound, Reads
  <2>3. PICK n \in NodeIds : n = req[p].arg.node
    BY <2>2
  <2>4. /\ nodes' = [nodes EXCEPT ![n].status = "deleted"]
        /\ evidence' = evidence /\ evlinks' = evlinks
    BY <1>5, <2>3 DEF DeleteNode
  <2>5. nodes' \in [NodeIds -> NodeRow]
    BY <1>1, <2>4 DEF NodeRow, NodeStatus
  <2>6. \A m \in NodeIds : /\ nodes'[m].case = nodes[m].case
                           /\ nodes'[m].status = "none" <=> nodes[m].status = "none"
    BY <1>1, <2>2, <2>3, <2>4
  <2>7. Tends
    BY <1>1, <2>4, <2>5, <2>6 DEF Tends, TimelineTypeOK, EvLink
  <2> QED
    BY <1>2, <1>4, <1>5, <2>6, <2>7 DEF DeleteNode
<1>6. CASE FindEvidence(p)
  <2>1. req[p].at = "find_evidence" /\ req[p].op = "link_evidence" /\ UNCHANGED timelineVars
    <3>1. req[p].at = "find_evidence" /\ UNCHANGED timelineVars
      BY <1>6 DEF FindEvidence, At
    <3> QED
      BY <3>1, Standing DEF At, OnWay, Checks
  <2>2. CASE Refuse(p)
    BY <2>1, <2>2, WaysOutTime
  <2>3. CASE ~Refuse(p)
    <3>1. Goto(p, "link_node") /\ evidence[req[p].arg.evidence].case = req[p].case
      BY <1>6, <2>3 DEF FindEvidence
    <3>2. On(p, "link_node", req[p].saw, req[p].tx) /\ Tends
      BY <2>1, <3>1, GotoOn, RowsTend
    <3>3. /\ req'[p].op = req[p].op /\ req'[p].at = "link_node" /\ req'[p].arg = req[p].arg
          /\ req'[p].case = req[p].case /\ Heading(req'[p]) = "link_node"
          /\ Bound(req[p])'
          /\ req[p].op \in NodeOps =>
                 /\ nodes'[req[p].arg.node].status # "none"
                 /\ req[p].case = nodes'[req[p].arg.node].case
      BY <3>2, OnTime DEF Checks
    <3>4. Reads(req[p])' /\ Written(req[p])' /\ ~Inserts(req'[p])
      BY <2>1, <3>1, <3>3
      DEF Reads, Written, Inserts, Shifts, Inside, Aims, Spread, timelineVars
    <3> QED
      BY <2>1, <3>3, <3>4, TimeStill
  <2> QED
    BY <2>2, <2>3
<1>7. CASE LinkNode(p)
  <2>1. req[p].at = "link_node" /\ req[p].op = "link_evidence"
    <3>1. req[p].at = "link_node"
      BY <1>7 DEF LinkNode, At
    <3> QED
      BY <3>1, Standing DEF At, OnWay, Checks
  <2>2. /\ req[p].arg.node \in NodeIds /\ nodes[req[p].arg.node].status # "none"
        /\ nodes[req[p].arg.node].case = req[p].case /\ req[p].arg.evidence \in Evidence
        /\ evidence[req[p].arg.evidence].case = req[p].case
    BY <1>1, <2>1 DEF Bound, Reads, NodeOps
  <2>3. PICK id \in EvLinkIds :
           evlinks' = evlinks \cup {[id |-> id, node |-> req[p].arg.node,
                                     evidence |-> req[p].arg.evidence]}
    BY <1>7 DEF LinkNode
  <2>4. nodes' = nodes /\ evidence' = evidence
    BY <1>7 DEF LinkNode
  <2>5. Tends
    BY <1>1, <2>2, <2>3, <2>4 DEF Tends, TimelineTypeOK, EvLink
  <2> QED
    BY <1>2, <1>4, <1>7, <2>4, <2>5 DEF LinkNode
<1>8. CASE UnlinkNode(p)
  <2>1. evlinks' \subseteq evlinks /\ nodes' = nodes /\ evidence' = evidence
    BY <1>8 DEF UnlinkNode
  <2>2. Tends
    BY <1>1, <2>1 DEF Tends, TimelineTypeOK
  <2> QED
    BY <1>2, <1>3, <1>4, <1>8, <2>1, <2>2 DEF UnlinkNode
<1>9. CASE DeleteEvidence(p)
  <2>1. nodes' = nodes /\ evlinks' = evlinks
        /\ evidence' = [evidence EXCEPT ![req[p].arg.evidence].status = "deleted"]
    BY <1>9 DEF DeleteEvidence
  <2>2. evidence' \in [Evidence -> EvidenceRow]
    BY <1>1, <2>1 DEF EvidenceRow, NodeStatus
  <2>3. \A e \in Evidence : evidence'[e].case = evidence[e].case
    BY <1>1, <2>1
  <2>4. Tends
    BY <1>1, <2>1, <2>2, <2>3 DEF Tends, TimelineTypeOK, EvLink
  <2> QED
    BY <1>2, <1>4, <1>9, <2>1, <2>4 DEF DeleteEvidence
<1>10. CASE NodeDeadlock(p)
  BY <1>10, WaysOutTime DEF NodeDeadlock
<1> QED
  BY <1>5, <1>6, <1>7, <1>8, <1>9, <1>10

\* The handlers of the timeline.
LEMMA TimelineTime ==
    ASSUME FlowInv, TimeInv, NEW p \in Slots, TimelineStep(p)
    PROVE  TimeInv'
<1>1. Others(p)
  BY TimelineTurn DEF Turn
<1>2. CASE \/ SendCreateNode(p) \/ SendUpdateNode(p) \/ SendMoveNode(p)
           \/ SendDeleteNode(p) \/ SendLinkEvidence(p) \/ SendUnlinkEvidence(p)
           \/ SendDeleteFile(p)
  BY <1>1, <1>2, TimelineSends
<1>3. CASE ReadNextSort(p) \/ InsertNode(p)
  BY <1>1, <1>3, TimeNextSort, TimeInserts
<1>4. CASE FetchNode(p) \/ NextOrder(p) \/ WriteNode(p)
  BY <1>1, <1>4, TimeFetches, TimeOrders, TimeWrites
<1>5. CASE ReadDay(p) \/ NumberRow(p) \/ CommitNode(p)
  BY <1>1, <1>5, TimeReadsDay, TimeNumbers, TimeCommits
<1>6. CASE RefetchNode(p) \/ FetchFile(p)
  BY <1>1, <1>6, TimeChecks
<1>7. CASE \/ DeleteNode(p) \/ FindEvidence(p) \/ LinkNode(p) \/ UnlinkNode(p)
           \/ DeleteEvidence(p) \/ NodeDeadlock(p)
  BY <1>1, <1>7, TimeRest
<1> QED
  BY <1>2, <1>3, <1>4, <1>5, <1>6, <1>7 DEF TimelineStep

-----------------------------------------------------------------------------
\* A request to the agent, at a place where nothing of the timeline is at hand.
LEMMA AgentCalm ==
    ASSUME NEW p \in Slots, req'[p].op \in AgentOps,
           Heading(req'[p]) \notin Inside \cup Aims \cup Spread
                                    \cup {"node_insert", "link_node"}
    PROVE  (Bound(req[p]) /\ Reads(req[p]) /\ Written(req[p]))'
<1>1. req'[p].op \notin NodeOps \cup Shifts
                         \cup {"create_node", "link_evidence", "delete_file"}
  BY DEF AgentOps, NodeOps, Shifts
<1>2. /\ req'[p].at \notin Inside \cup {"node_insert", "link_node"}
      /\ req'[p].at \in Checks \cup {"lookup"} =>
            req'[p].then \notin {"link_node", "tool_insert"}
  BY DEF Heading, Checks, Inside
<1> QED
  BY <1>1, <1>2 DEF Bound, Reads, Written

\* Messages, decisions and sessions are sent.
LEMMA AgentSendsTime ==
    ASSUME FlowInv, TimeInv, NEW p \in Slots, Others(p), UNCHANGED timelineVars,
           SendCreateSession(p) \/ SendDeleteSession(p) \/ SendPost(p) \/ SendDecision(p)
    PROVE  TimeInv'
<1>1. ASSUME NEW op \in AgentOps, NEW user \in Senders(p, op), NEW case, NEW path,
             NEW arg, NEW need,
             NEW then \in {"session_row", "archive", "session", "decide"},
             Send(p, op, user, case, path, arg, need, then)
      PROVE  /\ req'[p].op \in AgentOps /\ req[p].op = "none" /\ req'[p].op = op
             /\ Heading(req'[p]) \in {"session_row", "archive", "session", "decide"}
  <2>1. /\ req'[p].op = op /\ req'[p].then = then /\ req[p].op = "none"
        /\ req'[p].at \in {"lookup", "case", then}
    BY <1>1, SentTime
  <2> QED
    BY <2>1 DEF Heading, Checks
<1>2. CASE SendCreateSession(p)
  <2>1. /\ req'[p].op = "create_session"
        /\ Heading(req'[p]) \in {"session_row", "archive", "session", "decide"}
    BY <1>1, <1>2 DEF SendCreateSession, AgentOps
  <2> QED
    BY <2>1, AgentCalm, TimeStill DEF Inside, Aims, Spread, Inserts, AgentOps
<1>3. CASE SendDeleteSession(p)
  <2>1. /\ req'[p].op = "delete_session"
        /\ Heading(req'[p]) \in {"session_row", "archive", "session", "decide"}
    BY <1>1, <1>3 DEF SendDeleteSession, AgentOps
  <2> QED
    BY <2>1, AgentCalm, TimeStill DEF Inside, Aims, Spread, Inserts, AgentOps
<1>4. CASE SendPost(p)
  <2>1. /\ req'[p].op \in AgentOps /\ req[p].op = "none"
        /\ Heading(req'[p]) \in {"session_row", "archive", "session", "decide"}
    BY <1>1, <1>4 DEF SendPost, AgentOps
  <2>2. PlacesLeft'
    BY <1>4, <2>1, PlaceForNew DEF SendPost, timelineVars
  <2> QED
    BY <2>1, <2>2, AgentCalm, RowsTend, TimeKept DEF Inside, Aims, Spread
<1>5. CASE SendDecision(p)
  <2>1. /\ req'[p].op \in AgentOps /\ req[p].op = "none"
        /\ Heading(req'[p]) \in {"session_row", "archive", "session", "decide"}
    BY <1>1, <1>5 DEF SendDecision, AgentOps
  <2>2. PlacesLeft'
    BY <1>5, <2>1, PlaceForNew DEF SendDecision, timelineVars
  <2> QED
    BY <2>1, <2>2, AgentCalm, RowsTend, TimeKept DEF Inside, Aims, Spread
<1> QED
  BY <1>2, <1>3, <1>4, <1>5

\* A request goes into its tool with a day.
LEMMA ToolBegins ==
    ASSUME FlowInv, AgentInv, TimeInv, NEW p \in Slots, Others(p), UNCHANGED timelineVars,
           NEW input, NEW level,
           NEW place \in {"tool_operation", "tool_done", "tool_sort", "tool_failed"},
           InTool(p, input, level, place), req[p].op \in {"post", "confirm"},
           req[p].at \notin {"record", "tool_done"},
           input.day \in Days, input.order \in Nat
    PROVE  TimeInv'
<1>1. /\ req'[p].op = req[p].op /\ req'[p].saw = input /\ req'[p].then = place
      /\ req'[p].at \in {"tool_failed", "case"}
  BY DEF FlowInv, Fields, InTool
<1>2. Heading(req'[p]) \in {"tool_operation", "tool_done", "tool_sort", "tool_failed"}
  BY <1>1 DEF Heading, Checks
<1>3. (Bound(req[p]) /\ Reads(req[p]) /\ Written(req[p]))'
  BY <1>1, <1>2 DEF Bound, Reads, Written, NodeOps, Shifts, Checks, Inside, Aims, Spread
<1>4. Inserts(req'[p]) => Inserts(req[p])
  BY <1>1 DEF Inserts
<1> QED
  BY <1>3, <1>4, TimeStill

\* Messages and decisions up to their tool, and out of it.
LEMMA AgentTime ==
    ASSUME FlowInv, AgentInv, TimeInv, NEW p \in Slots, Others(p), UNCHANGED timelineVars,
           \/ FetchSession(p) \/ Decide(p) \/ ApproveRow(p) \/ CheckOperation(p)
           \/ ToolSort(p) \/ ToolFails(p)
    PROVE  TimeInv'
<1>1. Bound(req[p]) /\ Reads(req[p]) /\ Armed(req[p])
  BY DEF TimeInv, AgentInv
<1>2. /\ req[p].op \in {"post", "confirm", "reject"}
      /\ req[p].at \notin {"record", "tool_done"}
  <2>1. CASE ToolFails(p)
    BY <2>1 DEF ToolFails, FlowInv, RequestOK
  <2>2. CASE ~ToolFails(p)
    <3>1. req[p].at \in {"session", "decide", "approve_row", "tool_operation", "tool_sort"}
      BY <2>2 DEF FetchSession, Decide, ApproveRow, CheckOperation, ToolSort, At
    <3> QED
      BY <3>1, Standing DEF At, OnWay, Checks
  <2> QED
    BY <2>1, <2>2
<1>3. CASE Refuse(p)
  BY <1>3, WaysOutTime
<1>4. ASSUME NEW place \in {"pending_row", "reject_row", "approve_row"}, Goto(p, place)
      PROVE  TimeInv'
  <2>1. On(p, place, req[p].saw, req[p].tx)
    BY <1>4, GotoOn
  <2>2. req'[p].op = req[p].op /\ req'[p].at = place /\ Heading(req'[p]) = place
    BY <2>1 DEF On, Keeps, Heading, Checks
  <2>3. (Bound(req[p]) /\ Reads(req[p]) /\ Written(req[p]))'
    BY <1>2, <2>2, AgentCalm DEF AgentOps, Inside, Aims, Spread
  <2>4. Inserts(req'[p]) => Inserts(req[p])
    BY <1>2, <2>2 DEF Inserts
  <2> QED
    BY <2>3, <2>4, TimeStill
<1>5. CASE FetchSession(p) /\ StartTool(p, req[p].arg.tool, req[p].arg.day)
  <2>1. req[p].op = "post"
    <3>1. At(p, "session")
      BY <1>5 DEF FetchSession
    <3> QED
      BY <3>1, Standing DEF At, OnWay, Checks
  <2>2. req[p].arg.day \in Days
    BY <1>1, <2>1 DEF Armed
  <2> QED
    BY <1>2, <1>5, <2>1, <2>2, ToolBegins DEF StartTool
<1>6. CASE ApproveRow(p)
  <2>1. req[p].op = "confirm"
    <3>1. At(p, "approve_row")
      BY <1>6 DEF ApproveRow
    <3> QED
      BY <3>1, Standing DEF At, OnWay, Checks
  <2>2. calls[req[p].arg.call].day \in Days
    BY <1>1, <2>1 DEF Armed, AgentInv, AgentTypeOK, CallRow
  <2> QED
    BY <1>2, <1>6, <2>1, <2>2, ToolBegins DEF ApproveRow, StartTool
<1>7. CASE CheckOperation(p)
  <2>1. req[p].at = "tool_operation" /\ req[p].op \in {"post", "confirm"}
    <3>1. At(p, "tool_operation")
      BY <1>7 DEF CheckOperation
    <3> QED
      BY <3>1, Standing DEF At, OnWay, Checks
  <2>2. req[p].saw.day \in Days /\ req[p].saw.order \in Nat
    BY <1>1, <2>1 DEF Reads, Heading, Checks, Inside
  <2> QED
    BY <1>2, <1>7, <2>1, <2>2, ToolBegins DEF CheckOperation
<1>8. CASE ToolSort(p)
  <2>1. /\ req[p].at = "tool_sort" /\ req[p].op \in {"post", "confirm"}
        /\ DOMAIN req[p].saw = {"tool", "day", "order"}
    <3>1. At(p, "tool_sort")
      BY <1>8 DEF ToolSort
    <3> QED
      BY <3>1, Standing DEF At, OnWay, ToolOK, Checks
  <2>2. req[p].saw.day \in Days /\ req[p].saw.order \in Nat /\ req[p].case \in Cases
    BY <1>1, <2>1 DEF Reads, Heading, Checks, Inside
  <2>3. PICK o : o = NextSort(nodes, req[p].case, req[p].saw.day)
    OBVIOUS
  <2>4. o \in Nat
    BY <2>3, NextSortAbove DEF TimeInv, TimelineTypeOK
  <2>5. On(p, "tool_insert", [req[p].saw EXCEPT !.order = o], req[p].tx)
    BY <1>8, <2>3, LearnOn DEF ToolSort
  <2>6. /\ req'[p].op = req[p].op /\ req'[p].at = "tool_insert"
        /\ req'[p].case = req[p].case
        /\ req'[p].saw.day = req[p].saw.day /\ req'[p].saw.order = o
        /\ Heading(req'[p]) = "tool_insert"
    BY <2>1, <2>5 DEF On, Keeps, Heading, Checks
  <2>7. (Bound(req[p]) /\ Reads(req[p]) /\ Written(req[p]))'
    BY <2>1, <2>2, <2>4, <2>6
    DEF Bound, Reads, Written, NodeOps, Shifts, Checks, Aims, Spread
  <2>8. Inserts(req'[p]) => Inserts(req[p])
    BY <1>2, <2>6 DEF Inserts
  <2> QED
    BY <2>7, <2>8, TimeStill
<1>9. CASE ToolFails(p)
  <2>1. /\ req'[p].op = req[p].op /\ req'[p].at = "tool_failed"
        /\ Heading(req'[p]) = "tool_failed"
    BY <1>9 DEF ToolFails, FlowInv, Fields, Heading, Checks
  <2>2. (Bound(req[p]) /\ Reads(req[p]) /\ Written(req[p]))'
    BY <1>2, <2>1, AgentCalm DEF AgentOps, Inside, Aims, Spread
  <2>3. Inserts(req'[p]) => Inserts(req[p])
    BY <1>2, <2>1 DEF Inserts
  <2> QED
    BY <2>2, <2>3, TimeStill
<1> QED
  BY <1>3, <1>4, <1>5, <1>6, <1>7, <1>8, <1>9 DEF FetchSession, Decide

\* The tool inserts its node.
LEMMA ToolInsertTime ==
    ASSUME FlowInv, TimeInv, NEW p \in Slots, Others(p), ToolInsert(p)
    PROVE  TimeInv'
<1>1. /\ req[p].at = "tool_insert" /\ req[p].op \in {"post", "confirm"}
      /\ DOMAIN req[p].saw = {"tool", "day", "order"}
  <2>1. At(p, "tool_insert")
    BY DEF ToolInsert
  <2> QED
    BY <2>1, Standing DEF At, OnWay, ToolOK, Checks
<1>2. p \in Inserting
  BY <1>1 DEF Inserting
<1>3. /\ req[p].case \in Cases /\ req[p].saw.day \in Days /\ req[p].saw.order \in Nat
      /\ PlacesLeft
  BY <1>1 DEF TimeInv, Reads, Inside, Heading, Checks
<1>4. /\ nodes' = NodesWith(req[p].case, req[p].saw.day, req[p].saw.order)
      /\ evidence' = evidence /\ evlinks' = evlinks
      /\ Carry(p, "tool_done", [req[p].saw EXCEPT !.order = 0])
  BY DEF ToolInsert
<1>5. /\ Tends /\ Min(FreshNode) \in FreshNode
      /\ FreshNode \ {Min(FreshNode)} \subseteq FreshNode'
  BY <1>2, <1>3, <1>4, NodeEnters
<1>6. req'[p].op = req[p].op /\ req'[p].at = "tool_done" /\ Heading(req'[p]) = "tool_done"
  BY <1>4 DEF Carry, FlowInv, Fields, Heading, Checks
<1>7. ~Inserts(req'[p]) /\ (Bound(req[p]) /\ Reads(req[p]) /\ Written(req[p]))'
  BY <1>1, <1>6, AgentCalm DEF Inserts, AgentOps, Inside, Aims, Spread
<1>8. PlacesLeft'
  BY <1>2, <1>3, <1>5, <1>7, PlaceTaken
<1> QED
  BY <1>5, <1>7, <1>8, TimeKept

\* The agent.
LEMMA AgentStepTime ==
    ASSUME FlowInv, AgentInv, TimeInv, NEW p \in Slots, AgentStep(p)
    PROVE  TimeInv'
<1>1. Others(p)
  BY AgentTurn DEF Turn
<1>2. CASE ToolInsert(p)
  BY <1>1, <1>2, ToolInsertTime
<1>3. CASE ~ToolInsert(p)
  <2>1. UNCHANGED timelineVars
    BY <1>3 DEF AgentStep
  <2>2. CASE SendCreateSession(p) \/ SendDeleteSession(p) \/ SendPost(p) \/ SendDecision(p)
    BY <1>1, <2>1, <2>2, AgentSendsTime
  <2>3. CASE \/ FetchSession(p) \/ Decide(p) \/ ApproveRow(p) \/ CheckOperation(p)
             \/ ToolSort(p) \/ ToolFails(p)
    BY <1>1, <2>1, <2>3, AgentTime
  <2>4. CASE \/ InsertSession(p) \/ Archive(p) \/ InsertPending(p) \/ RejectRow(p)
             \/ ConfirmedDone(p) \/ ConfirmedFailed(p) \/ RecordCall(p)
    <3>1. Succeed(p) \/ CarryAndSucceed(p) \/ Refuse(p)
      BY <2>4 DEF InsertSession, Archive, InsertPending, RejectRow, ConfirmedDone,
         ConfirmedFailed, RecordCall, Finish
    <3> QED
      BY <1>1, <2>1, <3>1, WaysOutTime
  <2> QED
    BY <1>3, <2>2, <2>3, <2>4 DEF AgentStep
<1> QED
  BY <1>2, <1>3

\* The rows are in order at the beginning,
LEMMA TimeStart == WorkInit => TimeInv
<1> SUFFICES ASSUME WorkInit PROVE TimeInv
  OBVIOUS
<1>1. \A p \in Slots : req[p] = Idle
  BY DEF WorkInit, RequestInit
<1>2. menu \in Menus
  BY DEF WorkInit, RequestInit
<1>3. PICK seed \in TimelineSeeds[menu.about] :
         nodes = seed.nodes /\ evidence = seed.evidence /\ evlinks = {}
  BY DEF WorkInit, TimelineInit
<1>4. seed.nodes \in [NodeIds -> NodeRow] /\ seed.evidence \in [Evidence -> EvidenceRow]
  BY <1>2, <1>3, TimelineAssumption
<1>5. TimelineTypeOK /\ \A l \in evlinks : nodes[l.node].status # "none"
  BY <1>3, <1>4 DEF TimelineTypeOK
<1>6. ASSUME NEW p \in Slots PROVE Bound(req[p]) /\ Reads(req[p]) /\ Written(req[p])
  BY <1>1 DEF Idle, Bound, Reads, Written, NodeOps, Shifts, Checks, Heading, Inside,
     Aims, Spread
<1>7. PlacesLeft
  <2>1. Inserting = {}
    BY <1>1 DEF Inserting, Idle
  <2>2. Cardinality(Inserting) = 0
    BY <2>1, FS_EmptySet
  <2> QED
    BY <2>2, PlaceCounts DEF PlacesLeft
<1> QED
  BY <1>5, <1>6, <1>7 DEF TimeInv

\* What a step that no request takes leaves as it is.
LEMMA CalmTime ==
    ASSUME UNCHANGED <<req, timelineVars>>, TimeInv
    PROVE  TimeInv'
<1>1. UNCHANGED <<req, nodes, evidence, evlinks>>
  BY DEF timelineVars
<1>2. TimelineTypeOK' /\ \A l \in evlinks' : nodes'[l.node].status # "none"
  BY <1>1 DEF TimeInv, TimelineTypeOK
<1>3. ASSUME NEW p \in Slots PROVE (Bound(req[p]) /\ Reads(req[p]) /\ Written(req[p]))'
  BY <1>1 DEF TimeInv, Bound, Reads, Written, Owned
<1>4. PlacesLeft'
  <2>1. FreshNode' = FreshNode /\ Inserting' = Inserting
    BY <1>1 DEF FreshNode, Inserting
  <2> QED
    BY <2>1 DEF TimeInv, PlacesLeft
<1> QED
  BY <1>2, <1>3, <1>4 DEF TimeInv

\* and every step keeps them so.
LEMMA TimeNext ==
    FlowInv /\ AgentInv /\ TimeInv /\ [Next]_vars => TimeInv'
<1> SUFFICES ASSUME FlowInv, AgentInv, TimeInv, [Next]_vars
             PROVE  TimeInv'
  OBVIOUS
<1>1. ASSUME NEW p \in Slots, RequestStep(p) \/ CaseStep(p), UNCHANGED timelineVars
      PROVE  TimeInv'
  BY <1>1, RequestTime, CaseTurn, ForeignTime DEF CaseOps, TimelineOps
<1>2. ASSUME NEW p \in Slots, PersonStep(p), UNCHANGED timelineVars
      PROVE  TimeInv'
  BY <1>2, PersonTurn, ForeignTime DEF PersonOps, TimelineOps
<1>3. ASSUME NEW p \in Slots, TimelineStep(p)
      PROVE  TimeInv'
  BY <1>3, TimelineTime
<1>4. ASSUME NEW p \in Slots, AgentStep(p)
      PROVE  TimeInv'
  BY <1>4, AgentStepTime
<1>5. ASSUME NEW p \in Slots, AccountStep(p), UNCHANGED timelineVars
      PROVE  TimeInv'
  BY <1>5, AccountTurn, ForeignTime DEF AccountOps, TimelineOps
<1>6. ASSUME UNCHANGED <<req, timelineVars>>
      PROVE  TimeInv'
  BY <1>6, CalmTime
<1>7. WindowStep /\ UNCHANGED timelineVars => UNCHANGED <<req, timelineVars>>
  BY DEF WindowStep, WindowEnds, requestVars
<1>8. AllServed \/ UNCHANGED vars => UNCHANGED <<req, timelineVars>>
  BY DEF AllServed, vars, requestVars
<1> QED
  BY <1>1, <1>2, <1>3, <1>4, <1>5, <1>6, <1>7, <1>8 DEF Next

-----------------------------------------------------------------------------
\* The bounds on a behaviour are counted down and up, one at a time.
Counts ==
    /\ menu' = menu
    /\ left' = left \/ (left > 0 /\ left' = left - 1)
    /\ faults' = faults \/ (faults < menu.faults /\ faults' = faults + 1)

\* A request that is sent counts,
LEMMA SendCounts ==
    ASSUME NEW p \in Slots, NEW op, NEW user \in Senders(p, op), NEW case, NEW path,
           NEW arg, NEW need, NEW then,
           Send(p, op, user, case, path, arg, need, then)
    PROVE  Counts
  BY DEF Send, Senders, Counts

\* and none that goes on, or fails without a fault.
LEMMA StepCounts ==
    ASSUME NEW p \in Slots,
           \/ \E place : Goto(p, place)
           \/ \E place, what : Learn(p, place, what) \/ Buffer(p, place, what)
                               \/ Carry(p, place, what) \/ Check(p, what, place)
           \/ \E place, what, level : LearnAndCheck(p, what, level, place)
           \/ Succeed(p) \/ CarryAndSucceed(p) \/ Refuse(p)
           \/ UNCHANGED bounds
    PROVE  Counts
  BY DEF Goto, Learn, Buffer, Carry, Check, LearnAndCheck, Succeed, CarryAndSucceed,
     Refuse, bounds, Counts

\* The handlers of the cases.
LEMMA CaseCounts ==
    ASSUME NEW p \in Slots, CaseStep(p)
    PROVE  Counts
<1>1. CASE SendCreateCase(p) \/ SendUpdateCase(p) \/ SendDeleteCase(p) \/
     SendAddMember(p) \/ SendRemoveMember(p)
  BY <1>1, SendCounts DEF SendCreateCase, SendUpdateCase, SendDeleteCase,
  SendAddMember, SendRemoveMember
<1>2. CASE InsertCase(p) \/ InsertOwnerRow(p) \/ ReadCase(p) \/ WriteCase(p) \/
     DeleteCase(p)
  BY <1>2, StepCounts DEF InsertCase, InsertOwnerRow, ReadCase, WriteCase,
  DeleteCase
<1>3. CASE UpsertMember(p) \/ UpsertOwner(p) \/ RefuseMember(p) \/ ReadMember(p) \/
     RemoveMember(p)
  BY <1>3, StepCounts DEF UpsertMember, UpsertOwner, RefuseMember, ReadMember,
  RemoveMember
<1> QED
  BY <1>1, <1>2, <1>3 DEF CaseStep

\* The handlers of the persons.
LEMMA PersonCounts ==
    ASSUME NEW p \in Slots, PersonStep(p)
    PROVE  Counts
<1>1. CASE SendCreatePerson(p) \/ SendUpdatePerson(p) \/ SendDeletePerson(p) \/
     SendLinkCase(p) \/ SendCreateRel(p) \/ SendDeleteRel(p) \/ SendMerge(p)
  BY <1>1, SendCounts DEF SendCreatePerson, SendUpdatePerson,
  SendDeletePerson, SendLinkCase, SendCreateRel, SendDeleteRel, SendMerge
<1>2. CASE InsertPerson(p) \/ InsertPersonLink(p) \/ FetchPerson(p) \/
     PrimaryWritable(p) \/ WritePerson(p)
  BY <1>2, StepCounts DEF InsertPerson, InsertPersonLink, FetchPerson,
  PrimaryWritable, WritePerson
<1>3. CASE RefetchPerson(p) \/ DeletePerson(p) \/ InsertLink(p) \/ CheckFrom(p) \/
     CheckTo(p)
  BY <1>3, StepCounts DEF RefetchPerson, DeletePerson, InsertLink, CheckFrom,
  CheckTo
<1>4. CASE InsertRel(p) \/ ReadRel(p) \/ DeleteRel(p) \/ CheckSource(p) \/
     CheckTarget(p)
  BY <1>4, StepCounts DEF InsertRel, ReadRel, DeleteRel, CheckSource,
  CheckTarget
<1>5. CASE ReadSourceLinks(p)
  BY <1>5 DEF ReadSourceLinks, Learn, bounds, Counts
<1>6. CASE TakeLink(p)
  BY <1>6 DEF TakeLink, bounds, Counts
<1>7. CASE FillLink(p)
  BY <1>7 DEF FillLink, bounds, Counts
<1>8. CASE LinksTaken(p)
  BY <1>8 DEF LinksTaken, Goto, bounds, Counts
<1>9. CASE MoveFrom(p)
  BY <1>9 DEF MoveFrom, Repoint, Buffer, Refuse, bounds, Counts
<1>10. CASE MoveTo(p)
  BY <1>10 DEF MoveTo, Repoint, Buffer, Refuse, bounds, Counts
<1>11. CASE DropDuplicates(p)
  BY <1>11 DEF DropDuplicates, Buffer, bounds, Counts
<1>12. CASE UnlinkSource(p)
  BY <1>12 DEF UnlinkSource, Buffer, bounds, Counts
<1>13. CASE MergeCommit(p)
  BY <1>13 DEF MergeCommit, CarryAndSucceed, bounds, Counts
<1>14. CASE MergeDeadlock(p)
  BY <1>14 DEF MergeDeadlock, Refuse, bounds, Counts
<1> QED
  BY <1>1, <1>2, <1>3, <1>4, <1>5, <1>6, <1>7, <1>8, <1>9, <1>10, <1>11,
  <1>12, <1>13, <1>14 DEF PersonStep

\* The handlers of the timeline.
LEMMA TimelineCounts ==
    ASSUME NEW p \in Slots, TimelineStep(p)
    PROVE  Counts
<1>1. CASE SendCreateNode(p) \/ SendUpdateNode(p) \/ SendMoveNode(p) \/
     SendDeleteNode(p) \/ SendLinkEvidence(p) \/ SendUnlinkEvidence(p) \/
     SendDeleteFile(p)
  BY <1>1, SendCounts DEF SendCreateNode, SendUpdateNode, SendMoveNode,
  SendDeleteNode, SendLinkEvidence, SendUnlinkEvidence, SendDeleteFile,
  SendToNode
<1>2. CASE ReadNextSort(p) \/ InsertNode(p) \/ FetchNode(p) \/ NextOrder(p) \/
     WriteNode(p)
  BY <1>2, StepCounts DEF ReadNextSort, InsertNode, FetchNode, NextOrder,
  WriteNode
<1>3. CASE ReadDay(p) \/ NumberRow(p) \/ CommitNode(p) \/ RefetchNode(p) \/
     NodeDeadlock(p)
  BY <1>3, StepCounts DEF ReadDay, NumberRow, CommitNode, RefetchNode,
  NodeDeadlock
<1>4. CASE DeleteNode(p) \/ FindEvidence(p) \/ LinkNode(p) \/ UnlinkNode(p) \/
     FetchFile(p)
  BY <1>4, StepCounts DEF DeleteNode, FindEvidence, LinkNode, UnlinkNode,
  FetchFile
<1>5. CASE DeleteEvidence(p)
  BY <1>5, StepCounts DEF DeleteEvidence
<1> QED
  BY <1>1, <1>2, <1>3, <1>4, <1>5 DEF TimelineStep

\* The handlers of the agent.
LEMMA AgentCounts ==
    ASSUME NEW p \in Slots, AgentStep(p)
    PROVE  Counts
<1>1. CASE SendCreateSession(p) \/ SendDeleteSession(p) \/ SendPost(p) \/
     SendDecision(p)
  BY <1>1, SendCounts DEF SendCreateSession, SendDeleteSession, SendPost,
  SendDecision
<1>2. CASE InsertSession(p) \/ Archive(p) \/ FetchSession(p) \/ InsertPending(p) \/
     Decide(p)
  BY <1>2, StepCounts DEF InsertSession, Archive, FetchSession, InsertPending,
  Decide, StartTool, InTool, Finish
<1>3. CASE RejectRow(p) \/ ApproveRow(p) \/ CheckOperation(p) \/ ToolSort(p) \/
     ToolInsert(p)
  BY <1>3, StepCounts DEF RejectRow, ApproveRow, CheckOperation, ToolSort,
  ToolInsert, StartTool, InTool, Finish
<1>4. CASE ConfirmedDone(p) \/ ConfirmedFailed(p) \/ RecordCall(p)
  BY <1>4, StepCounts DEF ConfirmedDone, ConfirmedFailed, RecordCall,
  StartTool, InTool, Finish
<1>5. CASE ToolFails(p)
  BY <1>5 DEF ToolFails, Counts
<1> QED
  BY <1>1, <1>2, <1>3, <1>4, <1>5 DEF AgentStep

\* The handlers of the accounts.
LEMMA AccountCounts ==
    ASSUME NEW p \in Slots, AccountStep(p)
    PROVE  Counts
<1>1. CASE SendRegister(p) \/ SendLogin(p) \/ SendRefresh(p) \/ SendLogout(p) \/
     SendChangePassword(p)
  BY <1>1, SendCounts DEF SendRegister, SendLogin, SendRefresh, SendLogout,
  SendChangePassword, SendAccount
<1>2. CASE CountUsers(p) \/ InsertUser(p) \/ InsertRole(p) \/ CountAttempt(p) \/
     FetchUser(p)
  BY <1>2, StepCounts DEF CountUsers, InsertUser, InsertRole, CountAttempt,
  FetchUser
<1>3. CASE FetchVersion(p) \/ Reset(p) \/ Refresh(p) \/ BumpVersion(p) \/
     VerifyOld(p)
  BY <1>3, StepCounts DEF FetchVersion, Reset, Refresh, BumpVersion, VerifyOld
<1>4. CASE WritePassword(p)
  BY <1>4, StepCounts DEF WritePassword
<1>5. CASE CountFails(p)
  BY <1>5 DEF CountFails, Counts
<1>6. CASE ResetFails(p)
  BY <1>6 DEF ResetFails, Counts
<1> QED
  BY <1>1, <1>2, <1>3, <1>4, <1>5, <1>6 DEF AccountStep

\* The middleware and the checks.
LEMMA RequestCounts ==
    ASSUME NEW p \in Slots, RequestStep(p)
    PROVE  Counts
<1>1. CASE Replay(p) \/ LookupMiss(p) \/ Record(p)
  BY <1>1 DEF Replay, LookupMiss, Record, bounds, Counts
<1>2. CASE LookupFails(p) \/ RecordFails(p) \/ CutShort(p)
  BY <1>2 DEF LookupFails, RecordFails, CutShort, Counts
<1>3. CASE CheckCase(p) \/ CheckMember(p)
  BY <1>3, StepCounts DEF CheckCase, CheckMember, Deny, Pass
<1> QED
  BY <1>1, <1>2, <1>3 DEF RequestStep

\* Every step counts,
LEMMA CountsNext ==
    ASSUME [Next]_vars
    PROVE  Counts
<1>1. CASE WindowStep \/ AllServed \/ UNCHANGED vars
  BY <1>1 DEF WindowStep, WindowEnds, AllServed, vars, requestVars, Counts
<1>2. ASSUME NEW p \in Slots, RequestStep(p) \/ CaseStep(p) \/ PersonStep(p)
                              \/ TimelineStep(p) \/ AgentStep(p) \/ AccountStep(p)
      PROVE  Counts
  BY <1>2, RequestCounts, CaseCounts, PersonCounts, TimelineCounts, AgentCounts,
     AccountCounts
<1> QED
  BY <1>1, <1>2 DEF Next

\* and what is carried out twice has been carried out.
KeysGrow == keys.twice \subseteq keys.applied => keys'.twice \subseteq keys'.applied

\* The history of the keys, whatever a request does to it.
LEMMA KeysGrowWith ==
    ASSUME DOMAIN keys = KeyFields, NEW r,
           \/ keys' = keys \/ keys' = Applied(r) \/ keys' = Unrecorded(r)
           \/ keys' = Astray(r)
    PROVE  KeysGrow
<1>1. CASE keys' = keys
  BY <1>1 DEF KeysGrow
<1>2. CASE keys' = Applied(r)
  BY <1>2 DEF KeysGrow, Applied, KeyFields
<1>3. CASE keys' = Unrecorded(r) \/ keys' = Astray(r)
  BY <1>3 DEF KeysGrow, Unrecorded, Astray, KeyFields
<1> QED
  BY <1>1, <1>2, <1>3

\* So does every step.
LEMMA KeysNext ==
    ASSUME FlowInv, [Next]_vars
    PROVE  KeysGrow
<1>1. DOMAIN keys = KeyFields /\ NextTurn
  BY FlowStep DEF FlowInv
<1>2. ASSUME NEW p \in Slots, Serves(p)
      PROVE  KeysGrow
  BY <1>1, <1>2, KeysGrowWith DEF Serves, Sent, Quiet, Applies, Ends
<1>3. ASSUME NEW p \in Slots, Entry(p) \/ Out(p)
      PROVE  KeysGrow
  <2>1. CASE LookupMiss(p)
    BY <1>1, <2>1 DEF LookupMiss, Astray, KeyFields, KeysGrow
  <2>2. CASE LookupFails(p) \/ RecordFails(p) \/ Replay(p)
    BY <1>1, <2>2, KeysGrowWith DEF LookupFails, RecordFails, Replay
  <2>3. CASE Record(p)
    BY <1>1, <2>3 DEF Record, KeyFields, KeysGrow
  <2> QED
    BY <1>3, <2>1, <2>2, <2>3 DEF Entry, Out
<1>4. CASE UNCHANGED <<req, keys, crossed>>
  BY <1>4 DEF KeysGrow
<1> QED
  BY <1>1, <1>2, <1>3, <1>4 DEF NextTurn, RequestTurn, Serves

CountInv ==
    /\ left \in Nat /\ faults \in 0 .. menu.faults
    /\ keys.twice \subseteq keys.applied

\* The counts start within their bounds
LEMMA CountStart == WorkInit => CountInv
  BY RequestsAssumption DEF WorkInit, RequestInit, CountInv

\* and stay there.
LEMMA CountNext ==
    ASSUME FlowInv, CountInv, [Next]_vars
    PROVE  CountInv'
<1>1. Counts /\ KeysGrow /\ menu.faults \in Nat
  BY CountsNext, KeysNext, RequestsAssumption DEF FlowInv
<1> QED
  BY <1>1 DEF Counts, KeysGrow, CountInv

(***************************************************************************)
(* WorkTypeOK: the tables, the counts and the history of the keys keep     *)
(* their types, whatever the handlers, the middleware and the agent do.    *)
(***************************************************************************)
THEOREM TypesHold == Spec => []WorkTypeOK
<1> DEFINE Typed == /\ FlowInv /\ AccountFlow /\ TokenInv /\ GuessInv
                    /\ AccessInv /\ GraphInv /\ AgentInv /\ TimeInv /\ CountInv
<1>1. WorkInit => Typed
  BY FlowInit, TokensInit, GuessInit, AccessInit, GraphInit, AgentStart, TimeStart,
     CountStart
<1>2. Typed /\ [Next]_vars => Typed'
  <2> SUFFICES ASSUME Typed, [Next]_vars PROVE Typed'
    OBVIOUS
  <2>1. FlowInv' /\ AccountFlow' /\ TokenInv' /\ GuessInv'
    BY FlowStep, TokensNext, GuessNext
  <2>2. AccessInv' /\ GraphInv' /\ AgentInv'
    BY FlowStep, AccessNext, GraphNext, AgentNext
  <2>3. TimeInv' /\ CountInv'
    BY TimeNext, CountNext
  <2> QED
    BY <2>1, <2>2, <2>3
<1>3. Typed => WorkTypeOK
  BY DEF TokenInv, TokenOK, GuessInv, AccessInv, GraphInv, AgentInv, TimeInv, CountInv,
     AccountTypeOK, CaseTypeOK, WorkTypeOK
<1> QED
  BY <1>1, <1>2, <1>3, PTL DEF Spec

-----------------------------------------------------------------------------
(***************************************************************************)
(* The order of the days.  A request has something of the order in hand    *)
(* where it is about to place a node and inside its transaction; all other *)
(* steps leave the nodes alone.                                            *)
(***************************************************************************)
Holding == Aims \cup Spread \cup {"node_insert", "tool_insert"}

\* A request with a place in hand that goes through the checks,
Waiting(p) ==
    /\ \A f \in {"op", "case", "arg", "saw", "tx"} : req'[p][f] = req[p][f]
    /\ Heading(req[p]) \in Aims /\ Heading(req'[p]) = Heading(req[p])

\* or does something else with it.
Handles(p) ==
    \/ ReadNextSort(p) \/ InsertNode(p) \/ FetchNode(p) \/ NextOrder(p) \/ WriteNode(p)
    \/ ReadDay(p) \/ NumberRow(p) \/ CommitNode(p) \/ DeleteNode(p)
    \/ ToolSort(p) /\ nodes' = nodes
    \/ ToolInsert(p)
Idles(p) == nodes' = nodes /\ Heading(req'[p]) \notin Holding
Kinds(p) == Idles(p) \/ (nodes' = nodes /\ Waiting(p)) \/ Handles(p)

\* A request that leaves has nothing in hand.
LEMMA LeavesIdle ==
    ASSUME FlowInv, NEW p \in Slots,
           \/ req' = Answered(p) \/ req'[p] = Idle
           \/ Succeed(p) \/ CarryAndSucceed(p) \/ Refuse(p)
    PROVE  Heading(req'[p]) \notin Holding
<1>1. CASE req'[p] = Idle
  BY <1>1 DEF Idle, Heading, Checks, Holding, Aims, Spread
<1>2. CASE req' = Answered(p) /\ req'[p] # Idle
  <2>1. req'[p].at = "record"
    BY <1>2 DEF Answered, FlowInv, Fields
  <2> QED
    BY <2>1 DEF Heading, Checks, Holding, Aims, Spread
<1>3. CASE Succeed(p) \/ CarryAndSucceed(p) \/ Refuse(p)
  <2>1. req' = Answered(p) \/ req'[p] = Idle
    BY <1>3 DEF Succeed, CarryAndSucceed, Refuse, FlowInv
  <2> QED
    BY <2>1, <1>1, <1>2
<1> QED
  BY <1>1, <1>2, <1>3

\* Requests that have nothing to do with nodes,
LEMMA ForeignIdles ==
    ASSUME NEW p \in Slots, NEW ops,
           ops \cap (TimelineOps \cup {"post", "confirm"}) = {}, Turn(p, ops), nodes' = nodes
    PROVE  Others(p) /\ crossed \subseteq crossed' /\ Kinds(p)
<1>1. Others(p) /\ FlowInv' /\ crossed \subseteq crossed'
  BY DEF Turn
<1>2. req'[p].op \notin TimelineOps \cup {"post", "confirm"}
  <2>1. req'[p] = Idle => req'[p].op = "none"
    BY DEF Idle
  <2> QED
    BY <2>1 DEF Turn, Serves, Sent, Quiet, Applies, Ends, InHandler, Same, TimelineOps
<1>3. OnWay(req'[p].op, Heading(req'[p]))
  BY <1>1 DEF FlowInv, RequestOK
<1>4. Heading(req'[p]) \notin Holding
  BY <1>2, <1>3 DEF OnWay, TimelineOps, Holding, Aims, Spread
<1> QED
  BY <1>1, <1>4 DEF Kinds, Idles

\* the middleware and the checks,
LEMMA RequestKinds ==
    ASSUME FlowInv, AgentInv, TimeInv, NEW p \in Slots, RequestStep(p), nodes' = nodes
    PROVE  Others(p) /\ crossed \subseteq crossed' /\ Kinds(p)
<1>1. Others(p) /\ crossed \subseteq crossed'
  BY RequestStepTurn DEF RequestTurn
<1>2. Bound(req[p])
  BY DEF TimeInv
<1>3. CASE LookupMiss(p) \/ LookupFails(p)
  <2>1. /\ req[p].at = "lookup" /\ req'[p].at = FirstStep(req[p])
        /\ req'[p].then = req[p].then /\ req'[p].op = req[p].op
    BY <1>3 DEF LookupMiss, LookupFails, At, FlowInv, Fields
  <2>2. /\ OnWay(req[p].op, req[p].then) /\ req[p].then \notin Checks \cup {"lookup"}
        /\ req[p].op \in {"post", "confirm"} => req[p].then \in {"session", "decide"}
    BY <2>1 DEF FlowInv, RequestOK, Heading, OnWay, AgentInv, Armed, Checks
  <2>3. Heading(req'[p]) = req[p].then
    BY <2>1, <2>2 DEF Heading, Checks, FirstStep
  <2>4. req[p].then \notin Holding
    BY <1>2, <2>1, <2>2 DEF Bound, OnWay, NodeOps, Shifts, Holding, Aims, Spread, Checks
  <2> QED
    BY <1>1, <2>3, <2>4 DEF Kinds, Idles
<1>4. CASE CheckCase(p) \/ CheckMember(p)
  <2>1. /\ OnWay(req[p].op, req[p].then) /\ Heading(req[p]) = req[p].then
        /\ req[p].then \notin Checks \cup {"lookup"} /\ req[p].at \in Checks
    BY <1>4, AtCheck, ChecksOn
  <2>2. CASE Succeed(p) \/ Refuse(p)
    BY <1>1, <2>2, LeavesIdle DEF Kinds, Idles
  <2>3. ASSUME NEW place \in {"member", req[p].then}, Goto(p, place)
        PROVE  Kinds(p)
    <3>1. On(p, place, req[p].saw, req[p].tx)
      BY <2>3, GotoOn
    <3>2. /\ req'[p].op = req[p].op /\ req'[p].arg = req[p].arg
          /\ req'[p].case = req[p].case /\ req'[p].tx = req[p].tx
          /\ req'[p].then = req[p].then /\ req'[p].saw = req[p].saw /\ req'[p].at = place
      BY <3>1 DEF On, Keeps
    <3>3. Heading(req'[p]) = Heading(req[p])
      BY <2>1, <2>3, <3>2 DEF Heading, Checks
    <3>4. Heading(req[p]) \in Aims \/ Heading(req[p]) \notin Holding
      BY <1>2, <2>1 DEF Bound, OnWay, NodeOps, Shifts, Holding, Aims, Spread, Checks
    <3> QED
      BY <3>2, <3>3, <3>4 DEF Kinds, Idles, Waiting
  <2>4. CASE Goto(p, "tool_failed")
    <3>1. On(p, "tool_failed", req[p].saw, req[p].tx)
      BY <2>4, GotoOn
    <3>2. req'[p].at = "tool_failed"
      BY <3>1 DEF On, Keeps
    <3>3. Heading(req'[p]) = "tool_failed"
      BY <3>2 DEF Heading, Checks
    <3> QED
      BY <1>1, <3>3 DEF Kinds, Idles, Holding, Aims, Spread
  <2> QED
    BY <1>1, <1>4, <2>2, <2>3, <2>4, ChecksWay
<1>5. CASE Replay(p) \/ Record(p) \/ RecordFails(p) \/ CutShort(p)
  <2>1. req'[p] = Idle
    BY <1>5 DEF Replay, Record, RecordFails, CutShort, FlowInv
  <2> QED
    BY <1>1, <2>1, LeavesIdle DEF Kinds, Idles
<1> QED
  BY <1>3, <1>4, <1>5 DEF RequestStep

\* A request that is sent has nothing in hand.
LEMMA SendIdles ==
    ASSUME FlowInv, NEW p \in Slots, NEW op, NEW user \in Senders(p, op), NEW case,
           NEW path, NEW arg, NEW need, NEW then,
           Send(p, op, user, case, path, arg, need, then),
           then \in {"next_sort", "fetch_node", "fetch_file", "session_row", "archive",
                     "session", "decide"}
    PROVE  Heading(req'[p]) \notin Holding
<1>1. /\ req'[p].then = then
      /\ req'[p].at = "lookup" \/ req'[p].at = IF need = "none" THEN then ELSE "case"
  BY SentTime
<1>2. Heading(req'[p]) = then
  BY <1>1 DEF Heading, Checks
<1> QED
  BY <1>2 DEF Holding, Aims, Spread

\* The handlers of the timeline,
LEMMA TimelineKinds ==
    ASSUME FlowInv, TimeInv, NEW p \in Slots, TimelineStep(p)
    PROVE  Others(p) /\ crossed \subseteq crossed' /\ Kinds(p)
<1>1. Others(p) /\ crossed \subseteq crossed'
  BY TimelineTurn DEF Turn
<1>2. CASE SendCreateNode(p)
  <2>1. Heading(req'[p]) \notin Holding
    BY <1>2, SendIdles DEF SendCreateNode
  <2> QED
    BY <1>1, <1>2, <2>1 DEF Kinds, Idles, SendCreateNode, timelineVars
<1>3. ASSUME NEW op, NEW arg, SendToNode(p, op, arg)
      PROVE  Kinds(p)
  <2>1. Heading(req'[p]) \notin Holding
    BY <1>3, SendIdles DEF SendToNode
  <2> QED
    BY <1>3, <2>1 DEF Kinds, Idles, SendToNode, timelineVars
<1>4. CASE SendUpdateNode(p)
  BY <1>1, <1>3, <1>4 DEF SendUpdateNode
<1>5. CASE SendMoveNode(p)
  BY <1>1, <1>3, <1>5 DEF SendMoveNode
<1>6. CASE SendDeleteNode(p)
  BY <1>1, <1>3, <1>6 DEF SendDeleteNode
<1>7. CASE SendLinkEvidence(p)
  BY <1>1, <1>3, <1>7 DEF SendLinkEvidence
<1>8. CASE SendUnlinkEvidence(p)
  BY <1>1, <1>3, <1>8 DEF SendUnlinkEvidence
<1>9. CASE SendDeleteFile(p)
  <2>1. Heading(req'[p]) \notin Holding
    BY <1>9, SendIdles DEF SendDeleteFile
  <2> QED
    BY <1>1, <1>9, <2>1 DEF Kinds, Idles, SendDeleteFile, timelineVars
<1>10. CASE \/ ReadNextSort(p) \/ InsertNode(p) \/ FetchNode(p) \/ NextOrder(p)
            \/ WriteNode(p) \/ ReadDay(p) \/ NumberRow(p) \/ CommitNode(p) \/ DeleteNode(p)
  BY <1>1, <1>10 DEF Kinds, Handles
<1>11. CASE LinkNode(p) \/ UnlinkNode(p) \/ DeleteEvidence(p) \/ NodeDeadlock(p)
  <2>1. CarryAndSucceed(p) \/ Refuse(p)
    BY <1>11 DEF LinkNode, UnlinkNode, DeleteEvidence, NodeDeadlock
  <2>2. nodes' = nodes
    BY <1>11 DEF LinkNode, UnlinkNode, DeleteEvidence, NodeDeadlock, timelineVars
  <2> QED
    BY <1>1, <2>1, <2>2, LeavesIdle DEF Kinds, Idles
<1>12. CASE FindEvidence(p)
  <2>1. ASSUME Goto(p, "link_node") PROVE Heading(req'[p]) \notin Holding
    <3>1. On(p, "link_node", req[p].saw, req[p].tx)
      BY <2>1, GotoOn
    <3>2. req'[p].at = "link_node"
      BY <3>1 DEF On, Keeps
    <3> QED
      BY <3>2 DEF Heading, Checks, Holding, Aims, Spread
  <2>2. Heading(req'[p]) \notin Holding
    BY <1>12, <2>1, LeavesIdle DEF FindEvidence
  <2> QED
    BY <1>1, <1>12, <2>2 DEF Kinds, Idles, FindEvidence, timelineVars
<1>13. CASE RefetchNode(p) \/ FetchFile(p)
  <2>1. ASSUME NEW then \in {"answer", "delete_file"}, Check(p, "write", then)
        PROVE  Heading(req'[p]) \notin Holding
    <3>1. req'[p].at = "case" /\ req'[p].then = then
      BY <2>1 DEF Check, FlowInv, Fields
    <3> QED
      BY <3>1 DEF Heading, Checks, Holding, Aims, Spread
  <2>2. Heading(req'[p]) \notin Holding
    BY <1>13, <2>1, LeavesIdle DEF RefetchNode, FetchFile
  <2> QED
    BY <1>1, <1>13, <2>2 DEF Kinds, Idles, RefetchNode, FetchFile, timelineVars
<1> QED
  BY <1>2, <1>4, <1>5, <1>6, <1>7, <1>8, <1>9, <1>10, <1>11, <1>12, <1>13
  DEF TimelineStep

\* and those of the agent.
LEMMA AgentKinds ==
    ASSUME FlowInv, NEW p \in Slots, AgentStep(p)
    PROVE  Others(p) /\ crossed \subseteq crossed' /\ Kinds(p)
<1>1. Others(p) /\ crossed \subseteq crossed'
  BY AgentTurn DEF Turn
<1>2. CASE ToolInsert(p)
  BY <1>1, <1>2 DEF Kinds, Handles
<1>3. CASE ~ToolInsert(p)
  <2>1. nodes' = nodes
    BY <1>3 DEF AgentStep, timelineVars
  <2>2. ASSUME NEW place \in {"pending_row", "reject_row", "approve_row"}, Goto(p, place)
        PROVE  Heading(req'[p]) \notin Holding
    <3>1. On(p, place, req[p].saw, req[p].tx)
      BY <2>2, GotoOn
    <3>2. req'[p].at = place
      BY <3>1 DEF On, Keeps
    <3> QED
      BY <3>2 DEF Heading, Checks, Holding, Aims, Spread
  <2>3. ASSUME NEW input, NEW level,
               NEW place \in {"tool_operation", "tool_done", "tool_sort", "tool_failed"},
               InTool(p, input, level, place)
        PROVE  Heading(req'[p]) \notin Holding
    <3>1. req'[p].then = place /\ req'[p].at \in {"tool_failed", "case"}
      BY <2>3 DEF InTool, FlowInv, Fields
    <3> QED
      BY <3>1 DEF Heading, Checks, Holding, Aims, Spread
  <2>4. CASE SendCreateSession(p)
    <3>1. Heading(req'[p]) \notin Holding
      BY <2>4, SendIdles DEF SendCreateSession
    <3> QED
      BY <1>1, <2>1, <3>1 DEF Kinds, Idles
  <2>5. CASE SendDeleteSession(p) \/ SendPost(p)
    <3>1. Heading(req'[p]) \notin Holding
      BY <2>5, SendIdles DEF SendDeleteSession, SendPost
    <3> QED
      BY <1>1, <2>1, <3>1 DEF Kinds, Idles
  <2>6. CASE SendDecision(p)
    <3>1. Heading(req'[p]) \notin Holding
      BY <2>6, SendIdles DEF SendDecision
    <3> QED
      BY <1>1, <2>1, <3>1 DEF Kinds, Idles
  <2>7. CASE FetchSession(p)
    <3>1. Heading(req'[p]) \notin Holding
      BY <2>7, <2>2, <2>3, LeavesIdle DEF FetchSession, StartTool
    <3> QED
      BY <1>1, <2>1, <3>1 DEF Kinds, Idles
  <2>8. CASE Decide(p)
    <3>1. Heading(req'[p]) \notin Holding
      BY <2>8, <2>2, LeavesIdle DEF Decide
    <3> QED
      BY <1>1, <2>1, <3>1 DEF Kinds, Idles
  <2>9. CASE ApproveRow(p) \/ CheckOperation(p)
    <3>1. Heading(req'[p]) \notin Holding
      BY <2>9, <2>3 DEF ApproveRow, CheckOperation, StartTool
    <3> QED
      BY <1>1, <2>1, <3>1 DEF Kinds, Idles
  <2>10. CASE ToolSort(p)
    BY <1>1, <2>1, <2>10 DEF Kinds, Handles
  <2>11. CASE ToolFails(p)
    <3>1. req'[p].at = "tool_failed"
      BY <2>11 DEF ToolFails, FlowInv, Fields
    <3>2. Heading(req'[p]) \notin Holding
      BY <3>1 DEF Heading, Checks, Holding, Aims, Spread
    <3> QED
      BY <1>1, <2>1, <3>2 DEF Kinds, Idles
  <2>12. CASE \/ InsertSession(p) \/ Archive(p) \/ InsertPending(p) \/ RejectRow(p)
              \/ ConfirmedDone(p) \/ ConfirmedFailed(p) \/ RecordCall(p)
    <3>1. Succeed(p) \/ CarryAndSucceed(p) \/ Refuse(p)
      BY <2>12 DEF InsertSession, Archive, InsertPending, RejectRow, ConfirmedDone,
         ConfirmedFailed, RecordCall, Finish
    <3> QED
      BY <1>1, <2>1, <3>1, LeavesIdle DEF Kinds, Idles
  <2> QED
    BY <1>3, <2>4, <2>5, <2>6, <2>7, <2>8, <2>9, <2>10, <2>11, <2>12 DEF AgentStep
<1> QED
  BY <1>2, <1>3

\* Every step is of these kinds.
LEMMA StepKinds ==
    ASSUME FlowInv, AgentInv, TimeInv, [Next]_vars
    PROVE  \/ UNCHANGED <<req, nodes, crossed>>
           \/ \E p \in Slots : Others(p) /\ crossed \subseteq crossed' /\ Kinds(p)
<1>1. ASSUME NEW p \in Slots, RequestStep(p) \/ CaseStep(p), UNCHANGED timelineVars
      PROVE  Others(p) /\ crossed \subseteq crossed' /\ Kinds(p)
  BY <1>1, RequestKinds, CaseTurn, ForeignIdles DEF CaseOps, TimelineOps, timelineVars
<1>2. ASSUME NEW p \in Slots, PersonStep(p), UNCHANGED timelineVars
      PROVE  Others(p) /\ crossed \subseteq crossed' /\ Kinds(p)
  BY <1>2, PersonTurn, ForeignIdles DEF PersonOps, TimelineOps, timelineVars
<1>3. ASSUME NEW p \in Slots, TimelineStep(p) \/ AgentStep(p)
      PROVE  Others(p) /\ crossed \subseteq crossed' /\ Kinds(p)
  BY <1>3, TimelineKinds, AgentKinds
<1>4. ASSUME NEW p \in Slots, AccountStep(p), UNCHANGED timelineVars
      PROVE  Others(p) /\ crossed \subseteq crossed' /\ Kinds(p)
  BY <1>4, AccountTurn, ForeignIdles DEF AccountOps, TimelineOps, timelineVars
<1>5. WindowStep /\ UNCHANGED timelineVars => UNCHANGED <<req, nodes, crossed>>
  BY DEF WindowStep, WindowEnds, timelineVars
<1>6. AllServed \/ UNCHANGED vars => UNCHANGED <<req, nodes, crossed>>
  BY DEF AllServed, vars, requestVars, timelineVars
<1> QED
  BY <1>1, <1>2, <1>3, <1>4, <1>5, <1>6 DEF Next

-----------------------------------------------------------------------------
\* A row fades when it stays, is deleted, or is no row of the case, before or after.
Fades(old, new, c) ==
    \/ new = old
    \/ /\ new.status = "deleted" /\ new.case = old.case
       /\ new.day = old.day /\ new.order = old.order
    \/ (old.status = "none" \/ old.case # c) /\ new.case # c
Fade(c) == \A n \in NodeIds : Fades(nodes[n], nodes'[n], c)

\* Days of rows that fade lose nodes, no more.
LEMMA FadedDay ==
    ASSUME NEW old, NEW new, NEW c, NEW d, \A n \in NodeIds : Fades(old[n], new[n], c)
    PROVE  /\ OnDay(new, c, d) \subseteq OnDay(old, c, d)
           /\ \A n \in OnDay(new, c, d) : new[n].order = old[n].order
           /\ Distinct(old, c, d) => Distinct(new, c, d)
<1>1. ASSUME NEW n \in OnDay(new, c, d)
      PROVE  n \in OnDay(old, c, d) /\ new[n].order = old[n].order
  BY DEF OnDay, Fades
<1> QED
  BY <1>1 DEF Distinct

\* What a request has in hand, while the nodes of its case fade.
LEMMA OtherPlaced ==
    ASSUME FlowInv, TimeInv, TimeInv', NEW p \in Slots, Others(p), NEW q \in Slots \ {p},
           Placed(req[q]), Fade(req[q].case)
    PROVE  Placed(req[q])'
<1> DEFINE r == req[q]
           c == req[q].case
<1>1. /\ req'[q].op = r.op /\ req'[q].at = r.at /\ req'[q].then = r.then
      /\ req'[q].case = c /\ req'[q].arg = r.arg /\ req'[q].saw = r.saw
      /\ req'[q].tx = r.tx
  BY DEF Others, Fields
<1>2. Heading(req'[q]) = Heading(r)
  BY <1>1 DEF Heading
<1>3. /\ NewOf(req'[q]) = NewOf(r) /\ OldOf(req'[q]) = OldOf(r)
      /\ Renumbers(req'[q]) <=> Renumbers(r)
  BY <1>1 DEF NewOf, NewDay, OldOf, Renumbers
<1>4. Torn(req'[q]) = Torn(r)
  BY <1>1, <1>3 DEF Torn
<1>5. nodes \in [NodeIds -> NodeRow] /\ nodes' \in [NodeIds -> NodeRow]
  BY DEF TimeInv, TimelineTypeOK
<1>6. PICK old, new : old = View(r) /\ new = View(req[q])'
  OBVIOUS
<1>7. \A n \in NodeIds : Fades(old[n], new[n], c)
  BY <1>1, <1>5, <1>6 DEF View, Sight, Fades, Fade
<1>8. ASSUME NEW n, Owned(r, n)
      PROVE  /\ nodes'[n].day = nodes[n].day /\ nodes'[n].order = nodes[n].order
             /\ new[n].day = old[n].day /\ new[n].order = old[n].order
  <2>1. nodes'[n].day = nodes[n].day /\ nodes'[n].order = nodes[n].order
    BY <1>8 DEF Owned, Fade, Fades
  <2> QED
    BY <1>1, <1>5, <1>6, <1>8, <2>1 DEF View, Sight, Owned
<1>9. \A day : /\ OnDay(new, c, day) \subseteq OnDay(old, c, day)
               /\ Distinct(old, c, day) => Distinct(new, c, day)
  BY <1>7, FadedDay
<1>10. ASSUME NEW order, NEW day, Above(order, c, day)
       PROVE  \A n \in OnDay(nodes', c, day) : nodes'[n].order < order
  <2>1. PICK was, is : was = nodes /\ is = nodes'
                         /\ \A n \in NodeIds : Fades(was[n], is[n], c)
    BY DEF Fade
  <2>2. /\ OnDay(nodes', c, day) \subseteq OnDay(nodes, c, day)
        /\ \A n \in OnDay(nodes', c, day) : nodes'[n].order = nodes[n].order
    BY <2>1, FadedDay
  <2> QED
    BY <1>10, <2>2 DEF Above
<1>11. Heading(r) \in Aims => Owned(r, r.arg.node)
  <2> SUFFICES ASSUME Heading(r) \in Aims PROVE Owned(r, r.arg.node)
    OBVIOUS
  <2>1. r.op \in NodeOps
    BY DEF FlowInv, RequestOK, OnWay, Aims, NodeOps
  <2> QED
    BY <2>1 DEF TimeInv, Bound, Reads, Owned
<1>12. r.at \in Numbering =>
          \A i \in 1 .. Len(r.saw.list) : Owned(r, r.saw.list[i])
  BY InShift DEF Numbering, Spread, Written
<1>13. ASSUME r.at = "node_insert"
       PROVE  \A n \in OnDay(nodes', c, r.arg.day) : nodes'[n].order < r.saw
  BY <1>10, <1>13 DEF Placed
<1>14. ASSUME r.at = "tool_insert"
       PROVE  \A n \in OnDay(nodes', c, r.saw.day) : nodes'[n].order < r.saw.order
  BY <1>10, <1>14 DEF Placed
<1>15. ASSUME Heading(r) \in Aims
       PROVE  /\ OldOf(r) = nodes'[r.arg.node].day
              /\ Renumbers(r) \/ r.saw.order = nodes'[r.arg.node].order
  BY <1>8, <1>11, <1>15 DEF Placed
<1>16. ASSUME r.at \in Spread PROVE \A d \in Days \ Torn(r) : Distinct(new, c, d)
  BY <1>6, <1>9, <1>16 DEF Placed
<1>17. ASSUME r.at \in Numbering, NEW d \in Torn(r) PROVE Listed(req[q], d)'
  <2>1. Listed(r, d)
    BY <1>17 DEF Placed
  <2>2. \A i \in 1 .. Len(r.saw.list) :
           /\ new[r.saw.list[i]].day = old[r.saw.list[i]].day
           /\ new[r.saw.list[i]].order = old[r.saw.list[i]].order
    BY <1>8, <1>12, <1>17
  <2>3. r.saw.done \in Nat /\ r.saw.done < Len(r.saw.list) /\ Len(r.saw.list) \in Nat
    BY <1>17, InShift DEF Numbering, Spread, Written
  <2>4. \A i \in 1 .. r.saw.done : i \in 1 .. Len(r.saw.list)
    BY <2>3
  <2>5. \A n \in OnDay(new, c, d) : \E i \in 1 .. Len(r.saw.list) : r.saw.list[i] = n
    <3>1. OnDay(new, c, d) \subseteq OnDay(old, c, d)
      BY <1>9
    <3> QED
      BY <1>6, <2>1, <3>1 DEF Listed
  <2>6. \A i, j \in 1 .. Len(r.saw.list) : i # j => r.saw.list[i] # r.saw.list[j]
    BY <2>1 DEF Listed
  <2>7. \A i \in 1 .. Len(r.saw.list) : new[r.saw.list[i]].day = d
    BY <1>6, <2>1, <2>2 DEF Listed
  <2>8. \A i \in 1 .. r.saw.done : new[r.saw.list[i]].order = 100 * i
    BY <1>6, <2>1, <2>2, <2>4 DEF Listed
  <2>9. PICK now : now = req'[q]
    OBVIOUS
  <2>10. now.case = c /\ now.saw = r.saw
    BY <1>1, <2>9
  <2> QED
    BY <1>6, <2>5, <2>6, <2>7, <2>8, <2>9, <2>10 DEF Listed
<1> QED
  BY <1>1, <1>2, <1>3, <1>4, <1>6, <1>13, <1>14, <1>15, <1>16, <1>17 DEF Placed, Above

\* Requests that place nodes, if none of them met, have cases of their own.
LEMMA CasesApart ==
    ASSUME AccessInv, PlaceApart, NEW p \in Slots, NEW q \in Slots \ {p},
           req[p].op \in PlacesNodes, req[q].op \in PlacesNodes
    PROVE  req[p].case # req[q].case
<1>1. {req[p].op, req[q].op} \subseteq PlacesNodes
  OBVIOUS
<1>2. req[p].op \notin {"none", "create_case"} /\ req[q].op \notin {"none", "create_case"}
  BY DEF PlacesNodes
<1> QED
  BY <1>1, <1>2 DEF PlaceApart, AccessInv, CrossPairs

\* A request that places no node has none in hand.
LEMMA FreePlaced ==
    ASSUME NEW p \in Slots, Heading(req'[p]) \notin Holding
    PROVE  Placed(req[p])'
<1>1. req'[p].at \notin Holding
  BY DEF Heading, Checks, Holding, Aims, Spread
<1> QED
  BY <1>1 DEF Placed, Heading, Holding, Aims, Spread, Numbering, Checks

\* A step of p keeps the order, if it keeps what p has in hand and the days of
\* every case, and fades the nodes of the other cases.
LEMMA OrderKept ==
    ASSUME FlowInv, FlowInv', TimeInv, TimeInv', OrderInv, NEW p \in Slots, Others(p),
           crossed \subseteq crossed',
           PlaceApart =>
              /\ \A q \in Slots \ {p} : req[q].op \in PlacesNodes => Fade(req[q].case)
              /\ \A c \in Cases, d \in Days : Distinct(nodes', c, d)
              /\ Placed(req[p])'
    PROVE  OrderInv'
<1> SUFFICES ASSUME PlaceApart'
             PROVE  /\ \A c \in Cases, d \in Days : Distinct(nodes', c, d)
                    /\ \A q \in Slots : Placed(req[q])'
  BY DEF OrderInv
<1>1. PlaceApart
  BY DEF PlaceApart
<1>2. ASSUME NEW q \in Slots \ {p} PROVE Placed(req[q])'
  <2>1. CASE req[q].op \in PlacesNodes
    BY <1>1, <2>1, OtherPlaced DEF OrderInv
  <2>2. CASE req[q].op \notin PlacesNodes
    <3>1. req'[q].op \notin PlacesNodes
      BY <2>2 DEF Others, Fields
    <3>2. OnWay(req'[q].op, Heading(req'[q]))
      BY DEF FlowInv, RequestOK
    <3>3. Heading(req'[q]) \notin Holding
      BY <3>1, <3>2 DEF OnWay, PlacesNodes, Holding, Aims, Spread
    <3> QED
      BY <3>3, FreePlaced
  <2> QED
    BY <2>1, <2>2
<1> QED
  BY <1>1, <1>2

\* So does one that leaves the nodes alone,
LEMMA OrderStill ==
    ASSUME FlowInv, FlowInv', TimeInv, TimeInv', OrderInv, NEW p \in Slots, Others(p),
           crossed \subseteq crossed', nodes' = nodes,
           PlaceApart => Placed(req[p])'
    PROVE  OrderInv'
<1>1. \A q : Fade(req[q].case)
  BY DEF Fade, Fades
<1> QED
  BY <1>1, OrderKept DEF OrderInv

\* and one of a request that goes through the checks.
LEMMA OrderWaits ==
    ASSUME FlowInv, FlowInv', TimeInv, TimeInv', OrderInv, NEW p \in Slots, Others(p),
           crossed \subseteq crossed', nodes' = nodes, Idles(p) \/ Waiting(p)
    PROVE  OrderInv'
<1>1. CASE Idles(p)
  <2>1. Placed(req[p])'
    BY <1>1, FreePlaced DEF Idles
  <2> QED
    BY <2>1, OrderStill
<1>2. CASE Waiting(p)
  <2>1. /\ req'[p].op = req[p].op /\ req'[p].arg = req[p].arg /\ req'[p].case = req[p].case
        /\ req'[p].tx = req[p].tx /\ req'[p].saw = req[p].saw
        /\ Heading(req'[p]) = Heading(req[p]) /\ Heading(req[p]) \in Aims
    BY <1>2 DEF Waiting
  <2>2. req'[p].at \notin Spread \cup Numbering \cup {"node_insert", "tool_insert"}
    BY <2>1 DEF Heading, Checks, Aims, Spread, Numbering
  <2>3. Placed(req[p]) => Placed(req[p])'
    BY <2>1, <2>2 DEF Placed, OldOf, NewOf, NewDay, Renumbers
  <2> QED
    BY <2>3, OrderStill DEF OrderInv
<1> QED
  BY <1>1, <1>2

-----------------------------------------------------------------------------
\* The place of a node that is to be inserted is read behind the last one.
LEMMA OrderNextSort ==
    ASSUME FlowInv, FlowInv', TimeInv, TimeInv', OrderInv, NEW p \in Slots, Others(p),
           crossed \subseteq crossed', ReadNextSort(p)
    PROVE  OrderInv'
<1> DEFINE o == NextSort(nodes, req[p].case, req[p].arg.day)
<1>1. nodes' = nodes /\ Learn(p, "node_insert", o)
  BY DEF ReadNextSort, timelineVars
<1>2. On(p, "node_insert", o, req[p].tx)
  BY <1>1, LearnOn
<1>3. /\ req'[p].at = "node_insert" /\ req'[p].saw = o /\ req'[p].case = req[p].case
      /\ req'[p].arg = req[p].arg
  BY <1>2 DEF On, Keeps
<1>4. \A n \in OnDay(nodes, req[p].case, req[p].arg.day) : nodes[n].order < o
  BY NextSortAbove DEF TimeInv, TimelineTypeOK
<1>5. Placed(req[p])'
  BY <1>1, <1>3, <1>4 DEF Placed, Above, Heading, Checks, Aims, Spread, Numbering
<1> QED
  BY <1>1, <1>5, OrderStill

\* The tool reads it in the same way.
LEMMA OrderToolSort ==
    ASSUME FlowInv, FlowInv', TimeInv, TimeInv', OrderInv, NEW p \in Slots, Others(p),
           crossed \subseteq crossed', ToolSort(p), nodes' = nodes
    PROVE  OrderInv'
<1> DEFINE o == NextSort(nodes, req[p].case, req[p].saw.day)
<1>1. DOMAIN req[p].saw = {"tool", "day", "order"} /\ req[p].at = "tool_sort"
  <2>1. At(p, "tool_sort")
    BY DEF ToolSort
  <2> QED
    BY <2>1, Standing DEF ToolOK, Checks, At
<1>2. On(p, "tool_insert", [req[p].saw EXCEPT !.order = o], req[p].tx)
  BY LearnOn DEF ToolSort
<1>3. /\ req'[p].at = "tool_insert" /\ req'[p].saw.order = o /\ req'[p].case = req[p].case
      /\ req'[p].saw.day = req[p].saw.day
  BY <1>1, <1>2 DEF On, Keeps
<1>4. \A n \in OnDay(nodes, req[p].case, req[p].saw.day) : nodes[n].order < o
  BY NextSortAbove DEF TimeInv, TimelineTypeOK
<1>5. Placed(req[p])'
  BY <1>3, <1>4 DEF Placed, Above, Heading, Checks, Aims, Spread, Numbering
<1> QED
  BY <1>5, OrderStill

\* A node that is inserted behind the others of its day,
LEMMA OrderEnters ==
    ASSUME FlowInv, FlowInv', AccessInv, TimeInv, TimeInv', OrderInv, NEW p \in Slots,
           Others(p), crossed \subseteq crossed', p \in Inserting, NEW d \in Days,
           NEW order \in Nat, req[p].case \in Cases,
           nodes' = NodesWith(req[p].case, d, order),
           evidence' = evidence, evlinks' = evlinks,
           PlaceApart => Above(order, req[p].case, d), Heading(req'[p]) \notin Holding
    PROVE  OrderInv'
<1>1. PICK n \in FreshNode : n = Min(FreshNode)
  BY NodeEnters
<1>2. PICK c \in Cases : c = req[p].case
  OBVIOUS
<1>3. n \in NodeIds /\ nodes[n].status = "none" /\ nodes \in [NodeIds -> NodeRow]
  BY DEF FreshNode, TimeInv, TimelineTypeOK
<1>4. nodes' = [nodes EXCEPT ![n] = [status |-> "active", case |-> c,
                                     day |-> d, order |-> order]]
  BY <1>1, <1>2 DEF NodesWith
<1>5. ASSUME NEW b, b # c PROVE Fade(b)
  BY <1>3, <1>4, <1>5 DEF Fade, Fades
<1>6. req[p].op \in PlacesNodes
  BY DEF Inserting, PlacesNodes
<1>7. ASSUME PlaceApart, NEW b \in Cases, NEW e \in Days PROVE Distinct(nodes', b, e)
  <2>1. Distinct(nodes, b, e) /\ Above(order, c, d)
    BY <1>2, <1>7 DEF OrderInv
  <2>2. ASSUME NEW x \in OnDay(nodes', b, e), NEW y \in OnDay(nodes', b, e), x # y
        PROVE  nodes'[x].order # nodes'[y].order
    <3>1. \A z \in OnDay(nodes', b, e) :
             \/ z \in OnDay(nodes, b, e) /\ nodes'[z].order = nodes[z].order
             \/ z = n /\ b = c /\ e = d /\ nodes'[z].order = order
      BY <1>3, <1>4 DEF OnDay
    <3>2. \A z \in OnDay(nodes, b, e) : nodes[z].order \in Nat
      BY <1>3 DEF OnDay, NodeRow
    <3> QED
      BY <2>1, <2>2, <3>1, <3>2 DEF Distinct, Above
  <2> QED
    BY <2>2 DEF Distinct
<1>8. Placed(req[p])'
  BY FreePlaced
<1>9. ASSUME PlaceApart, NEW q \in Slots \ {p}, req[q].op \in PlacesNodes
      PROVE  Fade(req[q].case)
  <2>1. PICK b : b = req[q].case
    OBVIOUS
  <2>2. b # c
    BY <1>2, <1>6, <1>9, <2>1, CasesApart
  <2> QED
    BY <1>5, <2>1, <2>2
<1> QED
  BY <1>7, <1>8, <1>9, OrderKept

\* by POST /cases/:id/nodes
LEMMA OrderInserts ==
    ASSUME FlowInv, FlowInv', AccessInv, TimeInv, TimeInv', OrderInv, NEW p \in Slots,
           Others(p), crossed \subseteq crossed', InsertNode(p)
    PROVE  OrderInv'
<1>1. req[p].at = "node_insert" /\ req[p].op = "create_node"
  <2>1. req[p].at = "node_insert"
    BY DEF InsertNode, At
  <2> QED
    BY <2>1, Standing DEF At, OnWay, Checks
<1>2. p \in Inserting
  BY <1>1 DEF Inserting
<1>3. req[p].case \in Cases /\ req[p].arg.day \in Days /\ req[p].saw \in Nat
  BY <1>1 DEF TimeInv, Bound, Reads
<1>4. PICK d \in Days, order \in Nat : d = req[p].arg.day /\ order = req[p].saw
  BY <1>3
<1>5. /\ nodes' = NodesWith(req[p].case, d, order)
      /\ evidence' = evidence /\ evlinks' = evlinks /\ CarryAndSucceed(p)
  BY <1>4 DEF InsertNode
<1>6. PlaceApart => Above(order, req[p].case, d)
  BY <1>1, <1>4 DEF OrderInv, Placed
<1>7. Heading(req'[p]) \notin Holding
  BY <1>5, LeavesIdle
<1> QED
  BY <1>2, <1>3, <1>5, <1>6, <1>7, OrderEnters

\* or by the tool.
LEMMA OrderToolInsert ==
    ASSUME FlowInv, FlowInv', AccessInv, TimeInv, TimeInv', OrderInv, NEW p \in Slots,
           Others(p), crossed \subseteq crossed', ToolInsert(p)
    PROVE  OrderInv'
<1>1. req[p].at = "tool_insert" /\ req[p].op \in {"post", "confirm"}
  <2>1. req[p].at = "tool_insert"
    BY DEF ToolInsert, At
  <2> QED
    BY <2>1, Standing DEF At, OnWay, Checks
<1>2. p \in Inserting
  BY <1>1 DEF Inserting
<1>3. req[p].case \in Cases /\ req[p].saw.day \in Days /\ req[p].saw.order \in Nat
  BY <1>1 DEF TimeInv, Reads, Inside, Heading, Checks
<1>4. PICK d \in Days, order \in Nat : d = req[p].saw.day /\ order = req[p].saw.order
  BY <1>3
<1>5. /\ nodes' = NodesWith(req[p].case, d, order)
      /\ evidence' = evidence /\ evlinks' = evlinks
      /\ Carry(p, "tool_done", [req[p].saw EXCEPT !.order = 0])
  BY <1>4 DEF ToolInsert
<1>6. PlaceApart => Above(order, req[p].case, d)
  BY <1>1, <1>4 DEF OrderInv, Placed
<1>7. req'[p].at = "tool_done"
  BY <1>5 DEF Carry, FlowInv, Fields
<1>8. Heading(req'[p]) \notin Holding
  BY <1>7 DEF Heading, Checks, Holding, Aims, Spread
<1> QED
  BY <1>2, <1>3, <1>5, <1>6, <1>8, OrderEnters

\* A node that is deleted fades.
LEMMA OrderDeletes ==
    ASSUME FlowInv, FlowInv', TimeInv, TimeInv', OrderInv, NEW p \in Slots, Others(p),
           crossed \subseteq crossed', DeleteNode(p)
    PROVE  OrderInv'
<1>1. /\ nodes \in [NodeIds -> NodeRow] /\ CarryAndSucceed(p)
      /\ nodes' = [nodes EXCEPT ![req[p].arg.node].status = "deleted"]
  BY DEF DeleteNode, TimeInv, TimelineTypeOK
<1>2. \A n \in NodeIds : \/ nodes'[n] = nodes[n]
                         \/ nodes'[n] = [nodes[n] EXCEPT !.status = "deleted"]
  BY <1>1
<1>3. ASSUME NEW c PROVE Fade(c)
  BY <1>1, <1>2 DEF Fade, Fades, NodeRow
<1>4. ASSUME NEW c, NEW d, Distinct(nodes, c, d) PROVE Distinct(nodes', c, d)
  <2>1. PICK was, is : was = nodes /\ is = nodes'
                         /\ \A n \in NodeIds : Fades(was[n], is[n], c)
    BY <1>3 DEF Fade
  <2> QED
    BY <1>4, <2>1, FadedDay
<1>5. Placed(req[p])'
  BY <1>1, LeavesIdle, FreePlaced
<1>6. ASSUME NEW q \in Slots PROVE Fade(req[q].case)
  <2>1. PICK b : b = req[q].case
    OBVIOUS
  <2> QED
    BY <1>3, <2>1
<1> QED
  BY <1>4, <1>5, <1>6, OrderKept DEF OrderInv

-----------------------------------------------------------------------------
\* fetch_node: a request that has the row in hand has its day and its place.
LEMMA OrderFetches ==
    ASSUME FlowInv, FlowInv', TimeInv, TimeInv', OrderInv, NEW p \in Slots, Others(p),
           crossed \subseteq crossed', FetchNode(p)
    PROVE  OrderInv'
<1> DEFINE r   == req[p]
           row == nodes[r.arg.node]
           saw == [row |-> row, order |-> FirstOrder(r, row), list |-> <<>>, done |-> 0]
           to  == AfterFetch(r, row)
<1>1. nodes' = nodes
  BY DEF FetchNode, timelineVars
<1>2. CASE Refuse(p)
  BY <1>1, <1>2, LeavesIdle, OrderWaits DEF Idles
<1>3. CASE LearnAndCheck(p, saw, "write", to)
  <2>1. /\ req'[p].op = r.op /\ req'[p].arg = r.arg /\ req'[p].case = r.case
        /\ req'[p].at = "case" /\ req'[p].then = to
        /\ req'[p].saw.row = row /\ req'[p].saw.order = FirstOrder(r, row)
    BY <1>3 DEF LearnAndCheck, FlowInv, Fields
  <2>2. /\ to = "next_order" => r.op = "move_node" \/ NewDay(r, row) # row.day
        /\ r.op # "move_node" => FirstOrder(r, row) = row.order
    BY DEF AfterFetch, FirstOrder
  <2>3. Heading(req'[p]) = to
    BY <2>1 DEF Heading, Checks
  <2> HIDE DEF to, row
  <2>4. /\ OldOf(req'[p]) = row.day
        /\ Renumbers(req'[p]) <=> r.op = "move_node" \/ NewDay(r, row) # row.day
    BY <2>1 DEF OldOf, NewOf, NewDay, Renumbers
  <2>5. /\ OldOf(req'[p]) = nodes[r.arg.node].day
        /\ Renumbers(req'[p]) \/ req'[p].saw.order = nodes[r.arg.node].order
        /\ Heading(req'[p]) = "next_order" => Renumbers(req'[p])
    BY <2>1, <2>2, <2>3, <2>4 DEF row
  <2>6. Placed(req[p])'
    BY <1>1, <2>1, <2>5 DEF Placed, Spread, Numbering
  <2> QED
    BY <1>1, <2>6, OrderStill
<1> QED
  BY <1>2, <1>3 DEF FetchNode

\* A new place is looked up for a node that is numbered anew.
LEMMA OrderOrders ==
    ASSUME FlowInv, FlowInv', TimeInv, TimeInv', OrderInv, NEW p \in Slots, Others(p),
           crossed \subseteq crossed', NextOrder(p)
    PROVE  OrderInv'
<1> DEFINE o   == NextSort(Seen(p, nodes), req[p].case, Day(p))
           saw == [req[p].saw EXCEPT !.order = o]
<1>1. nodes' = nodes /\ req[p].at = "next_order" /\ Learn(p, "write_node", saw)
  BY DEF NextOrder, At, timelineVars
<1>2. On(p, "write_node", saw, req[p].tx)
  BY <1>1, LearnOn
<1>3. DOMAIN req[p].saw = {"row", "order", "list", "done"} /\ Heading(req[p]) = "next_order"
  BY <1>1, InShift DEF Aims
<1>4. /\ req'[p].op = req[p].op /\ req'[p].arg = req[p].arg /\ req'[p].case = req[p].case
      /\ req'[p].saw.row = req[p].saw.row /\ req'[p].at = "write_node"
  BY <1>2, <1>3 DEF On, Keeps
<1>5. Heading(req'[p]) = "write_node"
  BY <1>4 DEF Heading, Checks
<1>6. OldOf(req'[p]) = OldOf(req[p]) /\ (Renumbers(req'[p]) <=> Renumbers(req[p]))
  BY <1>4 DEF OldOf, NewOf, NewDay, Renumbers
<1>7. Placed(req[p]) => Placed(req[p])'
  BY <1>1, <1>3, <1>4, <1>5, <1>6 DEF Placed, Aims, Spread, Numbering
<1> QED
  BY <1>1, <1>7, OrderStill DEF OrderInv

\* The row is written: its new day is in disorder, unless its day and place stay.
LEMMA OrderWrites ==
    ASSUME FlowInv, FlowInv', TimeInv, TimeInv', OrderInv, NEW p \in Slots, Others(p),
           crossed \subseteq crossed', WriteNode(p)
    PROVE  OrderInv'
<1> DEFINE n     == req[p].arg.node
           row   == Seen(p, nodes)[n]
           new   == [row EXCEPT !.day = Day(p), !.order = req[p].saw.order]
           rows  == IF row.status # "active" THEN <<>> ELSE Row(n, new)
           place == IF Resequences(p) THEN "read_new" ELSE "commit_node"
<1>1. nodes' = nodes /\ req[p].at = "write_node" /\ Buffer(p, place, rows)
  BY DEF WriteNode, At, timelineVars
<1>2. On(p, place, req[p].saw, Writes(p, rows))
  BY <1>1, BufferOn
<1>3. req[p].at \in Aims \cup Spread /\ req[p].at \notin Spread
  BY <1>1 DEF Aims, Spread
<1>4. /\ Heading(req[p]) = "write_node" /\ DOMAIN req[p].tx = {} /\ n \in NodeIds
      /\ Day(p) = NewOf(req[p]) /\ OldDay(p) = OldOf(req[p])
      /\ Resequences(p) <=> Renumbers(req[p])
      /\ NewOf(req[p]) \in Days
  BY <1>1, <1>3, InShift DEF Written
<1>5. nodes \in [NodeIds -> NodeRow]
  BY DEF TimeInv, TimelineTypeOK
<1>6. \A k \in NodeIds : Sight(req[p], nodes)[k] = nodes[k]
  BY <1>4, <1>5 DEF Sight
<1>7. row = nodes[n]
  BY <1>4, <1>5 DEF Seen
<1>8. /\ req'[p].op = req[p].op /\ req'[p].arg = req[p].arg /\ req'[p].case = req[p].case
      /\ req'[p].saw = req[p].saw /\ req'[p].at = place /\ req'[p].tx = Writes(p, rows)
  BY <1>2 DEF On, Keeps
<1>9. NewOf(req'[p]) = NewOf(req[p]) /\ OldOf(req'[p]) = OldOf(req[p])
  BY <1>8 DEF OldOf, NewOf, NewDay
<1>10. PICK view : view = Sight(req'[p], nodes)
  OBVIOUS
<1>11. ASSUME NEW k \in NodeIds
       PROVE  \/ view[k] = nodes[k]
              \/ k = n /\ row.status = "active" /\ view[k] = new
  <2>1. view[k] = IF k \in DOMAIN rows THEN rows[k] ELSE nodes[k]
    BY <1>5, <1>6, <1>8, <1>10, SightAfter
  <2>2. DOMAIN <<>> = {}
    OBVIOUS
  <2>3. k \in DOMAIN rows => k = n /\ row.status = "active" /\ rows[k] = new
    BY <2>2 DEF Row
  <2> QED
    BY <2>1, <2>3
<1>12. /\ row \in NodeRow /\ new.status = row.status /\ new.case = row.case
       /\ new.day = Day(p) /\ new.order = req[p].saw.order
  BY <1>4, <1>5, <1>7 DEF NodeRow
<1>13. Torn(req'[p]) = IF Resequences(p) THEN {Day(p)} ELSE {}
  BY <1>4, <1>8, <1>9 DEF Torn
<1>14. ASSUME PlaceApart, NEW d \in Days \ Torn(req'[p])
       PROVE  Distinct(view, req[p].case, d)
  <2>1. Distinct(nodes, req[p].case, d) /\ Placed(req[p])
    BY <1>3, <1>14, InShift DEF OrderInv
  <2>2. ~Resequences(p) => Day(p) = row.day /\ req[p].saw.order = row.order
    <3>1. /\ OldOf(req[p]) = nodes[n].day
          /\ Renumbers(req[p]) \/ req[p].saw.order = nodes[n].order
      BY <1>4, <2>1 DEF Placed, Aims
    <3> QED
      BY <1>4, <1>7, <3>1 DEF Renumbers
  <2>3. \A k \in OnDay(view, req[p].case, d) :
           k \in OnDay(nodes, req[p].case, d) /\ view[k].order = nodes[k].order
    <3> HIDE DEF new, row, n
    <3> SUFFICES ASSUME NEW k \in OnDay(view, req[p].case, d)
                 PROVE  k \in OnDay(nodes, req[p].case, d) /\ view[k].order = nodes[k].order
      OBVIOUS
    <3>1. CASE view[k] = nodes[k]
      BY <3>1 DEF OnDay
    <3>2. CASE k = n /\ row.status = "active" /\ view[k] = new
      <4>1. ~Resequences(p)
        BY <1>12, <1>13, <1>14, <3>2 DEF OnDay
      <4> QED
        BY <1>7, <1>12, <2>2, <3>2, <4>1 DEF OnDay
    <3> QED
      BY <1>11, <3>1, <3>2 DEF OnDay
  <2> QED
    BY <2>1, <2>3 DEF Distinct
<1>15. /\ place \in Spread
       /\ place \notin Numbering \cup Aims \cup {"node_insert", "tool_insert", "next_order"}
  BY DEF Spread, Numbering, Aims
<1>16. Heading(req'[p]) = place
  BY <1>8, <1>15 DEF Heading, Checks, Spread
<1>17. PlaceApart => Placed(req[p])'
  <2> HIDE DEF place, rows
  <2> QED
    BY <1>1, <1>8, <1>10, <1>14, <1>15, <1>16 DEF Placed, View
<1> QED
  BY <1>1, <1>17, OrderStill

\* resequence_day_orders reads the ids of a day: they list it,
LEMMA OrderReadsDay ==
    ASSUME FlowInv, FlowInv', TimeInv, TimeInv', OrderInv, NEW p \in Slots, Others(p),
           crossed \subseteq crossed', ReadDay(p)
    PROVE  OrderInv'
<1>1. /\ req[p].at \in {"read_new", "read_old"} /\ req[p].at \in Spread
      /\ req[p].at \in Aims \cup Spread /\ nodes' = nodes
  BY DEF ReadDay, Spread, timelineVars
<1>2. PICK d, first, list, place :
         /\ d = IF At(p, "read_new") THEN Day(p) ELSE OldDay(p)
         /\ list = DaySequence(Seen(p, nodes), req[p].case, d, first)
         /\ place = IF list = <<>> THEN AfterDay(p)
                    ELSE IF At(p, "read_new") THEN "number_new" ELSE "number_old"
         /\ Learn(p, place, [req[p].saw EXCEPT !.list = list, !.done = 0])
  BY DEF ReadDay
<1>3. /\ Seen(p, nodes) = View(req[p]) /\ View(req[p]) \in [NodeIds -> NodeRow]
  BY <1>1, InShift, SeenRows
<1>4. Lists(list, View(req[p]), req[p].case, d, first)
  BY <1>1, <1>2, DayListed
<1>5. /\ Len(list) \in Nat
      /\ \A i \in 1 .. Len(list) : list[i] \in OnDay(View(req[p]), req[p].case, d)
      /\ \A i, j \in 1 .. Len(list) : i # j => list[i] # list[j]
      /\ \A n \in OnDay(View(req[p]), req[p].case, d) :
            \E i \in 1 .. Len(list) : list[i] = n
      /\ list = <<>> <=> OnDay(View(req[p]), req[p].case, d) = {}
  BY <1>3, <1>4, ListCovers
<1>6. /\ DOMAIN req[p].saw = {"row", "order", "list", "done"}
      /\ Day(p) = NewOf(req[p]) /\ OldDay(p) = OldOf(req[p]) /\ OldOf(req[p]) \in Days
      /\ NewOf(req[p]) \in Days
  BY <1>1, InShift
<1>7. On(p, place, [req[p].saw EXCEPT !.list = list, !.done = 0], req[p].tx)
  BY <1>2, LearnOn
<1>8. /\ req'[p].op = req[p].op /\ req'[p].arg = req[p].arg /\ req'[p].case = req[p].case
      /\ req'[p].tx = req[p].tx /\ req'[p].at = place
      /\ req'[p].saw.row = req[p].saw.row /\ req'[p].saw.order = req[p].saw.order
      /\ req'[p].saw.list = list /\ req'[p].saw.done = 0
  BY <1>6, <1>7 DEF On, Keeps
<1>9. NewOf(req'[p]) = NewOf(req[p]) /\ OldOf(req'[p]) = OldOf(req[p])
  BY <1>8 DEF OldOf, NewOf, NewDay
<1>10. PICK view : view = View(req[p])
  OBVIOUS
<1>11. view = View(req[p])'
  BY <1>1, <1>8, <1>10 DEF View, Sight
<1>12. /\ list = <<>> => place \in {"read_old", "commit_node"}
       /\ list # <<>> => place = IF req[p].at = "read_new" THEN "number_new"
                                 ELSE "number_old"
       /\ place \in Spread
  BY <1>1, <1>2 DEF AfterDay, At, Spread
<1>13. /\ Torn(req'[p]) = IF list = <<>> THEN {} ELSE {d}
       /\ Torn(req[p]) \subseteq {d}
  BY <1>1, <1>2, <1>6, <1>8, <1>9, <1>12 DEF Torn, At
<1>14. ASSUME PlaceApart, NEW e \in Days \ Torn(req'[p])
       PROVE  Distinct(view, req[p].case, e)
  <2>1. CASE e \in Torn(req[p])
    <3>1. OnDay(view, req[p].case, e) = {}
      BY <1>5, <1>10, <1>13, <1>14, <2>1
    <3> QED
      BY <3>1 DEF Distinct
  <2>2. CASE e \notin Torn(req[p])
    BY <1>1, <1>10, <1>14, <2>2 DEF OrderInv, Placed
  <2> QED
    BY <2>1, <2>2
<1>15. ASSUME NEW e \in Torn(req'[p]) PROVE Listed(req[p], e)'
  <2>1. e = d
    BY <1>13
  <2>2. \A i \in 1 .. Len(list) : view[list[i]].day = d
    BY <1>5, <1>10 DEF OnDay
  <2> QED
    BY <1>5, <1>8, <1>10, <1>11, <2>1, <2>2 DEF Listed
<1>16. place \notin Aims \cup {"node_insert", "tool_insert", "next_order"}
  BY <1>12 DEF Spread, Aims
<1>17. Heading(req'[p]) = place
  BY <1>8, <1>12 DEF Heading, Checks, Spread
<1>18. PlaceApart => Placed(req[p])'
  BY <1>8, <1>11, <1>14, <1>15, <1>16, <1>17 DEF Placed
<1> QED
  BY <1>1, <1>18, OrderStill

\* and with the last of them numbered the day is in order.
LEMMA OrderNumbers ==
    ASSUME FlowInv, FlowInv', TimeInv, TimeInv', OrderInv, NEW p \in Slots, Others(p),
           crossed \subseteq crossed', NumberRow(p)
    PROVE  OrderInv'
<1> DEFINE saw  == req[p].saw
           n    == NextRow(p)
           row  == Seen(p, nodes)[n]
           last == saw.done + 1 = Len(saw.list)
           more == [saw EXCEPT !.done = @ + 1]
           new  == [row EXCEPT !.order = 100 * (saw.done + 1)]
           at   == IF last THEN AfterDay(p) ELSE req[p].at
<1>1. req[p].at \in Numbering /\ nodes' = nodes
  BY DEF NumberRow, Numbering, timelineVars
<1>2. req[p].at \in Aims \cup Spread /\ req[p].at \in Spread /\ at \in Spread
  BY <1>1 DEF Numbering, Spread, AfterDay
<1>3. On(p, at, more, Writes(p, Row(n, new)))
  BY DEF NumberRow, On, Keeps, FlowInv, Fields, bounds
<1>4. /\ saw.list \in Seq(NodeIds) /\ saw.done \in Nat /\ saw.done < Len(saw.list)
      /\ \A i \in 1 .. Len(saw.list) : Owned(req[p], saw.list[i])
      /\ DOMAIN saw = {"row", "order", "list", "done"}
      /\ Day(p) = NewOf(req[p]) /\ OldDay(p) = OldOf(req[p]) /\ OldOf(req[p]) \in Days
      /\ NewOf(req[p]) \in Days /\ nodes \in [NodeIds -> NodeRow]
  BY <1>1, <1>2, InShift DEF Written, TimeInv, TimelineTypeOK
<1>5. PICK len \in Nat, k \in Nat : len = Len(saw.list) /\ k = saw.done /\ k < len
  BY <1>4
<1>6. n = saw.list[k + 1] /\ k + 1 \in 1 .. len
  BY <1>5 DEF NextRow
<1>7. n \in NodeIds
  BY <1>4, <1>5, <1>6 DEF Owned
<1>8. /\ req'[p].op = req[p].op /\ req'[p].arg = req[p].arg /\ req'[p].case = req[p].case
      /\ req'[p].tx = Writes(p, Row(n, new)) /\ req'[p].at = at
      /\ req'[p].saw.row = saw.row /\ req'[p].saw.order = saw.order
      /\ req'[p].saw.list = saw.list /\ req'[p].saw.done = k + 1
  BY <1>3, <1>4, <1>5 DEF On, Keeps
<1>9. NewOf(req'[p]) = NewOf(req[p]) /\ OldOf(req'[p]) = OldOf(req[p])
  BY <1>8 DEF OldOf, NewOf, NewDay
<1>10. PICK old, view : old = View(req[p]) /\ view = View(req[p])'
  OBVIOUS
<1>11. old \in [NodeIds -> NodeRow] /\ row = old[n]
  BY <1>2, <1>10, InShift, SeenRows
<1>12. /\ new.status = row.status /\ new.case = row.case /\ new.day = row.day
       /\ new.order = 100 * (k + 1)
  BY <1>5, <1>7, <1>11 DEF NodeRow
<1>13. ASSUME NEW m \in NodeIds
       PROVE  view[m] = IF m = n THEN new ELSE old[m]
  <2>1. /\ view[m] = Sight(req'[p], nodes)[m] /\ old[m] = Sight(req[p], nodes)[m]
        /\ m \in DOMAIN nodes
    BY <1>1, <1>4, <1>10 DEF View
  <2>2. DOMAIN Row(n, new) = {n} /\ Row(n, new)[n] = new
    BY DEF Row
  <2> QED
    BY <1>8, <2>1, <2>2, SightAfter
<1>14. ASSUME NEW m \in NodeIds
       PROVE  /\ view[m].status = old[m].status /\ view[m].case = old[m].case
              /\ view[m].day = old[m].day
              /\ m # n => view[m].order = old[m].order
              /\ m = n => view[m].order = 100 * (k + 1)
  BY <1>11, <1>12, <1>13
<1>15. PICK c, d : /\ c = req[p].case
                   /\ d = IF req[p].at = "number_new" THEN NewOf(req[p]) ELSE OldOf(req[p])
  OBVIOUS
<1>16. Torn(req[p]) = {d} /\ d \in Days
  BY <1>1, <1>4, <1>15 DEF Torn, Numbering
<1>17. /\ ~last => at = req[p].at
       /\ last => at \in {"read_old", "commit_node"}
  BY DEF AfterDay
<1>18. Torn(req'[p]) = IF last THEN {} ELSE {d}
  BY <1>1, <1>8, <1>9, <1>15, <1>16, <1>17 DEF Torn, Numbering
<1>19. ASSUME NEW b, NEW e PROVE OnDay(view, b, e) = OnDay(old, b, e)
  BY <1>14 DEF OnDay
<1>20. ASSUME PlaceApart
       PROVE  /\ \A m \in OnDay(old, c, d) : \E i \in 1 .. len : saw.list[i] = m
              /\ \A i, j \in 1 .. len : i # j => saw.list[i] # saw.list[j]
              /\ \A i \in 1 .. len : saw.list[i] \in NodeIds /\ old[saw.list[i]].day = d
              /\ \A i \in 1 .. k : i \in 1 .. len /\ old[saw.list[i]].order = 100 * i
              /\ \A e \in Days \ {d} : Distinct(old, c, e)
  <2>1. Placed(req[p])
    BY <1>20 DEF OrderInv
  <2>2. Listed(req[p], d) /\ \A e \in Days \ {d} : Distinct(old, c, e)
    BY <1>1, <1>2, <1>10, <1>15, <1>16, <2>1 DEF Placed
  <2>3. \A i \in 1 .. k : i \in 1 .. len
    BY <1>5
  <2> QED
    BY <1>4, <1>5, <1>10, <1>15, <2>2, <2>3 DEF Listed, Owned
<1> HIDE DEF saw, n, row, new
<1>21. ASSUME PlaceApart, NEW i \in 1 .. k + 1
       PROVE  i \in 1 .. len /\ view[req[p].saw.list[i]].order = 100 * i
  <2>1. i \in 1 .. len /\ (i \in 1 .. k \/ i = k + 1)
    BY <1>5
  <2>2. CASE i = k + 1
    BY <1>6, <1>7, <1>14, <2>1, <2>2 DEF saw
  <2>3. CASE i \in 1 .. k
    <3>1. i # k + 1
      BY <2>3
    <3>2. saw.list[i] # n
      BY <1>6, <1>20, <1>21, <2>1, <3>1
    <3> QED
      BY <1>14, <1>20, <1>21, <2>1, <2>3, <3>2 DEF saw
  <2> QED
    BY <2>1, <2>2, <2>3
<1>22. ASSUME PlaceApart, NEW e \in Days \ Torn(req'[p])
       PROVE  Distinct(view, c, e)
  <2>1. CASE e # d
    <3>1. \A m \in OnDay(view, c, e) : m # n
      <4>1. old[n].day = d
        BY <1>6, <1>20, <1>22
      <4> QED
        BY <1>7, <1>14, <2>1, <4>1 DEF OnDay
    <3>2. Distinct(old, c, e) /\ OnDay(view, c, e) = OnDay(old, c, e)
      BY <1>19, <1>20, <1>22, <2>1
    <3>3. \A m \in OnDay(view, c, e) : view[m].order = old[m].order
      BY <1>14, <3>1 DEF OnDay
    <3> QED
      BY <3>2, <3>3 DEF Distinct
  <2>2. CASE e = d
    <3>1. k + 1 = len
      BY <1>5, <1>18, <1>22, <2>2 DEF saw
    <3>2. SUFFICES ASSUME NEW a \in OnDay(view, c, d), NEW b \in OnDay(view, c, d), a # b
                   PROVE  view[a].order # view[b].order
      BY <2>2 DEF Distinct
    <3>3. PICK i \in 1 .. len : saw.list[i] = a
      BY <1>19, <1>20, <1>22
    <3>4. PICK j \in 1 .. len : saw.list[j] = b
      BY <1>19, <1>20, <1>22
    <3>5. view[a].order = 100 * i /\ view[b].order = 100 * j
      BY <1>21, <1>22, <3>1, <3>3, <3>4 DEF saw
    <3> QED
      BY <3>2, <3>3, <3>4, <3>5
  <2> QED
    BY <2>1, <2>2
<1>23. ASSUME PlaceApart, NEW e \in Torn(req'[p]) PROVE Listed(req[p], e)'
  <2>1. e = d
    BY <1>18
  <2>2. \A i \in 1 .. len : view[saw.list[i]].day = d
    BY <1>14, <1>20, <1>23
  <2>3. /\ \A m \in OnDay(view, c, d) : \E i \in 1 .. len : saw.list[i] = m
        /\ \A i, j \in 1 .. len : i # j => saw.list[i] # saw.list[j]
    BY <1>19, <1>20, <1>23
  <2>4. \A i \in 1 .. k + 1 : view[saw.list[i]].order = 100 * i
    BY <1>21, <1>23 DEF saw
  <2> QED
    BY <1>5, <1>8, <1>10, <1>15, <2>1, <2>2, <2>3, <2>4 DEF Listed
<1>24. at \notin Aims \cup {"node_insert", "tool_insert", "next_order"}
  BY <1>2 DEF Spread, Aims
<1>25. Heading(req'[p]) = at
  BY <1>2, <1>8 DEF Heading, Checks, Spread
<1>26. PlaceApart => Placed(req[p])'
  <2> HIDE DEF at
  <2> QED
    BY <1>8, <1>10, <1>15, <1>22, <1>23, <1>24, <1>25 DEF Placed
<1> QED
  BY <1>1, <1>26, OrderStill

\* The transaction is committed: the nodes are as it saw them.
LEMMA OrderCommits ==
    ASSUME FlowInv, FlowInv', AccessInv, TimeInv, TimeInv', OrderInv, NEW p \in Slots,
           Others(p), crossed \subseteq crossed', CommitNode(p)
    PROVE  OrderInv'
<1>1. /\ req[p].at = "commit_node" /\ nodes' = Seen(p, nodes)
      /\ Carry(p, "refetch", Nothing)
  BY DEF CommitNode, At
<1>2. req[p].at \in Aims \cup Spread /\ req[p].at \in Spread
  BY <1>1 DEF Spread
<1>3. /\ nodes' = View(req[p]) /\ req[p].op \in Shifts /\ Written(req[p])
      /\ nodes \in [NodeIds -> NodeRow]
  BY <1>1, <1>2, InShift, SeenRows DEF TimeInv, TimelineTypeOK
<1>4. PICK c : c = req[p].case
  OBVIOUS
<1>5. ASSUME NEW b, b # c PROVE Fade(b)
  <2> SUFFICES ASSUME NEW n \in NodeIds PROVE Fades(nodes[n], nodes'[n], b)
    BY DEF Fade
  <2>1. nodes'[n] = IF n \in DOMAIN req[p].tx THEN req[p].tx[n] ELSE nodes[n]
    BY <1>3 DEF View, Sight
  <2>2. n \in DOMAIN req[p].tx => nodes[n].case = c /\ req[p].tx[n].case = c
    BY <1>3, <1>4 DEF Written, Owned
  <2> QED
    BY <1>5, <2>1, <2>2 DEF Fades
<1>6. ASSUME PlaceApart, NEW b \in Cases, NEW d \in Days PROVE Distinct(nodes', b, d)
  <2>1. CASE b = c
    <3>1. Placed(req[p]) /\ Torn(req[p]) = {}
      BY <1>1, <1>6 DEF OrderInv, Torn
    <3> QED
      BY <1>2, <1>3, <1>4, <2>1, <3>1 DEF Placed
  <2>2. CASE b # c
    <3>1. PICK was, is : was = nodes /\ is = nodes'
                         /\ \A n \in NodeIds : Fades(was[n], is[n], b)
      BY <1>5, <2>2 DEF Fade
    <3>2. Distinct(was, b, d)
      BY <1>6, <3>1 DEF OrderInv
    <3> QED
      BY <3>1, <3>2, FadedDay
  <2> QED
    BY <2>1, <2>2
<1>7. ASSUME PlaceApart, NEW q \in Slots \ {p}, req[q].op \in PlacesNodes
      PROVE  Fade(req[q].case)
  <2>1. req[p].op \in PlacesNodes
    BY <1>3 DEF Shifts, PlacesNodes
  <2>2. PICK b : b = req[q].case
    OBVIOUS
  <2> QED
    BY <1>4, <1>5, <1>7, <2>1, <2>2, CasesApart
<1>8. req'[p].at = "refetch"
  BY <1>1 DEF Carry, FlowInv, Fields
<1>9. Placed(req[p])'
  BY <1>8, FreePlaced DEF Heading, Checks, Holding, Aims, Spread
<1> QED
  BY <1>6, <1>7, <1>9, OrderKept

-----------------------------------------------------------------------------
\* The days are in order at the start: the seeds are,
LEMMA OrderStart == WorkInit => OrderInv
<1> SUFFICES ASSUME WorkInit PROVE OrderInv
  OBVIOUS
<1>1. \A p \in Slots : req[p] = Idle
  BY DEF WorkInit, RequestInit
<1>2. menu \in Menus
  BY DEF WorkInit, RequestInit
<1>3. PICK seed \in TimelineSeeds[menu.about] : nodes = seed.nodes
  BY DEF WorkInit, TimelineInit
<1>4. \A a, b \in NodeIds :
         (/\ a # b /\ nodes[a].status = "active" /\ nodes[b].status = "active"
          /\ nodes[a].case = nodes[b].case /\ nodes[a].day = nodes[b].day)
            => nodes[a].order # nodes[b].order
  BY <1>2, <1>3, TimelineAssumption
<1>5. \A c \in Cases, d \in Days : Distinct(nodes, c, d)
  BY <1>4 DEF Distinct, OnDay
<1>6. \A p \in Slots : Placed(req[p])
  <2>1. \A p \in Slots : req[p].at \notin Holding /\ Heading(req[p]) \notin Holding
    BY <1>1 DEF Idle, Heading, Checks, Holding, Aims, Spread
  <2> QED
    BY <2>1 DEF Placed, Holding, Aims, Spread, Numbering
<1> QED
  BY <1>5, <1>6 DEF OrderInv

\* and every step keeps them so.
LEMMA OrderNext ==
    FlowInv /\ AccessInv /\ AgentInv /\ TimeInv /\ OrderInv /\ [Next]_vars => OrderInv'
<1> SUFFICES ASSUME FlowInv, AccessInv, AgentInv, TimeInv, OrderInv, [Next]_vars
             PROVE  OrderInv'
  OBVIOUS
<1>1. FlowInv' /\ TimeInv'
  BY FlowStep, TimeNext
<1>2. CASE UNCHANGED <<req, nodes, crossed>>
  <2>1. \A p \in Slots : Placed(req[p])' <=> Placed(req[p])
    BY <1>2 DEF Placed, Above, OnDay, Heading, OldOf, NewOf, NewDay, Renumbers, Torn,
       Distinct, Listed, View, Sight
  <2> QED
    BY <1>2, <2>1 DEF OrderInv, PlaceApart, Distinct, OnDay
<1>3. ASSUME NEW p \in Slots, Others(p), crossed \subseteq crossed', Kinds(p)
      PROVE  OrderInv'
  <2>1. CASE Idles(p) \/ (nodes' = nodes /\ Waiting(p))
    BY <1>1, <1>3, <2>1, OrderWaits DEF Idles
  <2>2. CASE ReadNextSort(p) \/ InsertNode(p)
    BY <1>1, <1>3, <2>2, OrderNextSort, OrderInserts
  <2>3. CASE FetchNode(p) \/ NextOrder(p) \/ WriteNode(p)
    BY <1>1, <1>3, <2>3, OrderFetches, OrderOrders, OrderWrites
  <2>4. CASE ReadDay(p) \/ NumberRow(p) \/ CommitNode(p)
    BY <1>1, <1>3, <2>4, OrderReadsDay, OrderNumbers, OrderCommits
  <2>5. CASE DeleteNode(p)
    BY <1>1, <1>3, <2>5, OrderDeletes
  <2>6. CASE (ToolSort(p) /\ nodes' = nodes) \/ ToolInsert(p)
    BY <1>1, <1>3, <2>6, OrderToolSort, OrderToolInsert
  <2> QED
    BY <1>3, <2>1, <2>2, <2>3, <2>4, <2>5, <2>6 DEF Kinds, Handles
<1> QED
  BY <1>2, <1>3, StepKinds

(***************************************************************************)
(* DayOrderUnambiguous: list_nodes has an order for any two nodes of a     *)
(* case, whatever is created, moved, updated, deleted or placed by the     *)
(* agent, as long as no two of the requests that place nodes overlapped.   *)
(***************************************************************************)
THEOREM DaysAreOrdered == Spec => []DayOrderUnambiguous
<1> DEFINE Ordered == FlowInv /\ AccessInv /\ AgentInv /\ TimeInv /\ OrderInv
<1>1. WorkInit => Ordered
  BY FlowInit, AccessInit, AgentStart, TimeStart, OrderStart
<1>2. Ordered /\ [Next]_vars => Ordered'
  BY FlowStep, AccessNext, AgentNext, TimeNext, OrderNext
<1>3. Ordered => DayOrderUnambiguous
  <2> SUFFICES ASSUME Ordered, PlaceApart, NEW c \in Cases,
                      NEW a \in ListNodes(c), NEW b \in ListNodes(c), a # b
               PROVE  ListedBefore(a, b) \/ ListedBefore(b, a)
    BY DEF DayOrderUnambiguous, PlaceApart
  <2>1. /\ nodes[a].day \in Days /\ nodes[b].day \in Days
        /\ nodes[a].order \in Nat /\ nodes[b].order \in Nat
        /\ a \in NodeIds /\ b \in NodeIds
    BY DEF ListNodes, TimeInv, TimelineTypeOK, NodeRow
  <2>2. nodes[a].day \in Nat /\ nodes[b].day \in Nat
    BY <2>1, TimelineAssumption
  <2>3. nodes[a].day = nodes[b].day => nodes[a].order # nodes[b].order
    <3>1. Distinct(nodes, c, nodes[a].day)
      BY <2>1 DEF OrderInv
    <3> QED
      BY <2>1, <3>1 DEF Distinct, OnDay, ListNodes
  <2> QED
    BY <2>1, <2>2, <2>3 DEF ListedBefore
<1> QED
  BY <1>1, <1>2, <1>3, PTL DEF Spec

-----------------------------------------------------------------------------
(***************************************************************************)
(* A move that met nobody.  The transaction numbers the days it touches    *)
(* one after the other; what it sees is compared with the nodes as they    *)
(* would be if it did no more than put the node in its place.              *)
(***************************************************************************)
Moved(r) == [n \in NodeIds |->
    IF n = r.arg.node THEN [nodes[n] EXCEPT !.day = NewOf(r), !.order = r.saw.order]
    ELSE nodes[n]]
FirstOf(r, d) == IF d = NewOf(r) THEN r.arg.node ELSE Keep

\* The list of a day has been numbered up to k,
Numbered(list, view, moved, k) == \A i \in DOMAIN list :
    view[list[i]] = IF i <= k THEN [moved[list[i]] EXCEPT !.order = 100 * i]
                    ELSE moved[list[i]]

\* or all of it.
DayNumbered(view, moved, c, d, first) ==
    \E list \in [1 .. Cardinality(OnDay(moved, c, d)) -> OnDay(moved, c, d)] :
        /\ Lists(list, moved, c, d, first)
        /\ Numbered(list, view, moved, Cardinality(OnDay(moved, c, d)))

\* The days it has begun to number, and those it has finished.
Entered(r) == CASE r.at = "read_new" -> {}
                [] r.at \in {"number_new", "read_old"} -> {NewOf(r)}
                [] OTHER -> {NewOf(r), OldOf(r)}
Finished(r) == CASE r.at \in {"read_new", "number_new"} -> {}
                 [] r.at \in {"read_old", "number_old"} -> {NewOf(r)}
                 [] OTHER -> {NewOf(r), OldOf(r)}

Follows(r, view, moved) ==
    /\ \A n \in NodeIds :
          (\A d \in Entered(r) : n \notin OnDay(moved, r.case, d)) => view[n] = moved[n]
    /\ \A d \in Finished(r) : DayNumbered(view, moved, r.case, d, FirstOf(r, d))
    /\ r.at \in Numbering => \A d \in Entered(r) \ Finished(r) :
          /\ Lists(r.saw.list, moved, r.case, d, FirstOf(r, d))
          /\ Numbered(r.saw.list, view, moved, r.saw.done)
    /\ r.at \in {"read_old", "number_old"} => NewOf(r) # OldOf(r)

Keeping(r) == Heading(r) \in Aims \cup Spread =>
    /\ r.saw.row = nodes[r.arg.node] /\ r.saw.row.status = "active"
    /\ r.at \in Spread /\ Renumbers(r) => Follows(r, View(r), Moved(r))

KeepInv == crossed = {} => \A p \in Slots : Keeping(req[p])

-----------------------------------------------------------------------------
\* The list of a day depends on the rows of the day.
LEMMA ListsAgree ==
    ASSUME NEW a, NEW b, NEW c, NEW d, NEW first, NEW list,
           OnDay(b, c, d) = OnDay(a, c, d),
           \A n \in OnDay(a, c, d) : b[n].order = a[n].order,
           Lists(list, a, c, d, first)
    PROVE  Lists(list, b, c, d, first)
<1> DEFINE rows == 1 .. Cardinality(OnDay(a, c, d))
<1>1. /\ list \in [rows -> OnDay(a, c, d)]
      /\ \A i, j \in rows : i < j => /\ list[i] # list[j]
                                     /\ Before(a, first, list[i], list[j])
  BY DEF Lists
<1>2. \A i \in rows : list[i] \in OnDay(a, c, d)
  BY <1>1
<1> HIDE DEF rows
<1>3. \A i, j \in rows :
         Before(a, first, list[i], list[j]) => Before(b, first, list[i], list[j])
  BY <1>2 DEF Before
<1> QED
  BY <1>1, <1>3 DEF Lists, rows

\* What a request follows, it follows beside changes of other cases.
LEMMA FollowsApart ==
    ASSUME NEW r, NEW now, NEW view, NEW moved, NEW seen, NEW put,
           now.op = r.op, now.at = r.at, now.case = r.case, now.arg = r.arg, now.saw = r.saw,
           \A n \in NodeIds :
              \/ seen[n] = view[n] /\ put[n] = moved[n]
              \/ /\ seen[n] = put[n]
                 /\ moved[n].status # "active" \/ moved[n].case # r.case
                 /\ put[n].status # "active" \/ put[n].case # r.case,
           Follows(r, view, moved)
    PROVE  Follows(now, seen, put)
<1>1. ASSUME NEW d
      PROVE  /\ OnDay(put, r.case, d) = OnDay(moved, r.case, d)
             /\ \A n \in OnDay(moved, r.case, d) :
                   n \in NodeIds /\ seen[n] = view[n] /\ put[n] = moved[n]
  BY DEF OnDay
<1>2. /\ Entered(now) = Entered(r) /\ Finished(now) = Finished(r)
      /\ NewOf(now) = NewOf(r) /\ OldOf(now) = OldOf(r)
      /\ \A d : FirstOf(now, d) = FirstOf(r, d)
  BY DEF Entered, Finished, NewOf, OldOf, NewDay, FirstOf
<1>3. ASSUME NEW d, NEW first, NEW list, Lists(list, moved, r.case, d, first)
      PROVE  /\ Lists(list, put, r.case, d, first)
             /\ \A k : Numbered(list, view, moved, k) => Numbered(list, seen, put, k)
  <2>1. Lists(list, put, r.case, d, first)
    BY <1>1, <1>3, ListsAgree
  <2>2. \A i \in DOMAIN list : list[i] \in OnDay(moved, r.case, d)
    BY <1>3 DEF Lists
  <2> QED
    BY <1>1, <2>1, <2>2 DEF Numbered
<1>4. ASSUME NEW d, NEW first, DayNumbered(view, moved, r.case, d, first)
      PROVE  DayNumbered(seen, put, r.case, d, first)
  <2>1. PICK k : k = Cardinality(OnDay(moved, r.case, d))
    OBVIOUS
  <2>2. PICK list \in [1 .. k -> OnDay(moved, r.case, d)] :
           Lists(list, moved, r.case, d, first) /\ Numbered(list, view, moved, k)
    BY <1>4, <2>1 DEF DayNumbered
  <2>3. Lists(list, put, r.case, d, first) /\ Numbered(list, seen, put, k)
    BY <1>3, <2>2
  <2> QED
    BY <1>1, <2>1, <2>3 DEF DayNumbered
<1>5. ASSUME NEW n \in NodeIds, \A d \in Entered(r) : n \notin OnDay(put, r.case, d)
      PROVE  seen[n] = put[n]
  <2>1. \A d \in Entered(r) : n \notin OnDay(moved, r.case, d)
    BY <1>1, <1>5
  <2> QED
    BY <2>1 DEF Follows
<1>6. \A d \in Finished(r) : DayNumbered(seen, put, r.case, d, FirstOf(r, d))
  BY <1>4 DEF Follows
<1>7. ASSUME r.at \in Numbering, NEW d \in Entered(r) \ Finished(r)
      PROVE  /\ Lists(r.saw.list, put, r.case, d, FirstOf(r, d))
             /\ Numbered(r.saw.list, seen, put, r.saw.done)
  <2>1. /\ Lists(r.saw.list, moved, r.case, d, FirstOf(r, d))
        /\ Numbered(r.saw.list, view, moved, r.saw.done)
    BY <1>7 DEF Follows
  <2> QED
    BY <1>3, <2>1
<1>8. r.at \in {"read_old", "number_old"} => NewOf(r) # OldOf(r)
  BY DEF Follows
<1> QED
  BY <1>2, <1>5, <1>6, <1>7, <1>8 DEF Follows

\* Nodes of one case change, or enter it.
Touches(b) == \A n \in NodeIds :
    \/ nodes'[n] = nodes[n]
    \/ (nodes[n].status = "none" \/ nodes[n].case = b) /\ nodes'[n].case = b

\* What a request keeps, it keeps beside changes of another case.
LEMMA OtherKeeps ==
    ASSUME FlowInv, TimeInv, TimeInv', NEW p \in Slots, Others(p), NEW q \in Slots \ {p},
           NEW b, Touches(b),
           req[q].op \in Shifts => req[q].case # b \/ nodes' = nodes, Keeping(req[q])
    PROVE  Keeping(req[q])'
<1> DEFINE r == req[q]
<1>1. /\ req'[q].op = r.op /\ req'[q].at = r.at /\ req'[q].then = r.then
      /\ req'[q].case = r.case /\ req'[q].arg = r.arg /\ req'[q].saw = r.saw
      /\ req'[q].tx = r.tx
  BY DEF Others, Fields
<1>2. Heading(req'[q]) = Heading(r)
  BY <1>1 DEF Heading
<1>3. SUFFICES ASSUME Heading(r) \in Aims \cup Spread
               PROVE  Keeping(req[q])'
  BY <1>2 DEF Keeping
<1>4. r.op \in Shifts /\ r.op \in NodeOps /\ r.arg.node \in NodeIds
  <2>1. r.op \in Shifts
    BY <1>3 DEF FlowInv, RequestOK, OnWay, Aims, Spread, Shifts
  <2> QED
    BY <2>1 DEF Shifts, NodeOps, TimeInv, Bound
<1>5. (r.case # b \/ nodes' = nodes) /\ Owned(r, r.arg.node) /\ Written(r)
  BY <1>4 DEF TimeInv, Reads, Owned
<1>6. nodes \in [NodeIds -> NodeRow] /\ nodes' \in [NodeIds -> NodeRow]
  BY DEF TimeInv, TimelineTypeOK
<1>7. \A n : Owned(r, n) => nodes'[n] = nodes[n]
  BY <1>5 DEF Owned, Touches
<1>8. /\ NewOf(req'[q]) = NewOf(r) /\ OldOf(req'[q]) = OldOf(r)
      /\ Renumbers(req'[q]) <=> Renumbers(r)
  BY <1>1 DEF NewOf, NewDay, OldOf, Renumbers
<1>9. PICK view, moved, seen, put : /\ view = View(r) /\ moved = Moved(r)
                                    /\ seen = View(req[q])' /\ put = Moved(req[q])'
  OBVIOUS
<1>10. ASSUME NEW n \in NodeIds
       PROVE  \/ seen[n] = view[n] /\ put[n] = moved[n]
              \/ /\ seen[n] = put[n]
                 /\ moved[n].status # "active" \/ moved[n].case # r.case
                 /\ put[n].status # "active" \/ put[n].case # r.case
  <2>1. /\ view[n] = IF n \in DOMAIN r.tx THEN r.tx[n] ELSE nodes[n]
        /\ seen[n] = IF n \in DOMAIN r.tx THEN r.tx[n] ELSE nodes'[n]
    BY <1>1, <1>6, <1>9 DEF View, Sight
  <2>2. /\ n # r.arg.node => moved[n] = nodes[n] /\ put[n] = nodes'[n]
        /\ nodes'[n] = nodes[n] => put[n] = moved[n]
    BY <1>1, <1>8, <1>9 DEF Moved
  <2>3. CASE nodes'[n] = nodes[n]
    BY <2>1, <2>2, <2>3
  <2>4. CASE nodes'[n] # nodes[n]
    <3>1. ~Owned(r, n) /\ n # r.arg.node /\ n \notin DOMAIN r.tx
      BY <1>4, <1>5, <1>7, <2>4 DEF Written
    <3>2. /\ nodes[n].status = "none" \/ nodes[n].case = b
          /\ nodes'[n].case = b
      BY <2>4 DEF Touches
    <3> QED
      BY <1>5, <2>1, <2>2, <3>1, <3>2
  <2> QED
    BY <2>3, <2>4
<1>11. ASSUME r.at \in Spread, Renumbers(r) PROVE Follows(req'[q], seen, put)
  <2>1. Follows(r, view, moved)
    BY <1>3, <1>9, <1>11 DEF Keeping
  <2>2. PICK now : now = req'[q]
    OBVIOUS
  <2> QED
    BY <1>1, <1>10, <2>1, <2>2, FollowsApart
<1>12. r.saw.row = nodes'[r.arg.node] /\ r.saw.row.status = "active"
  BY <1>3, <1>5, <1>7 DEF Keeping
<1> QED
  BY <1>1, <1>8, <1>9, <1>11, <1>12 DEF Keeping

\* A step of p keeps what it does for every other request, if it changes the
\* nodes of its own case only.
LEMMA KeepKept ==
    ASSUME FlowInv, FlowInv', AccessInv, TimeInv, TimeInv', KeepInv, NEW p \in Slots,
           Others(p), crossed \subseteq crossed', Touches(req[p].case),
           nodes' = nodes \/ req[p].op \notin {"none", "create_case"},
           crossed = {} => Keeping(req[p])'
    PROVE  KeepInv'
<1> SUFFICES ASSUME crossed' = {}, NEW q \in Slots PROVE Keeping(req[q])'
  BY DEF KeepInv
<1>1. crossed = {}
  OBVIOUS
<1>2. CASE q = p
  BY <1>1, <1>2
<1>3. CASE q # p
  <2>1. PICK b : b = req[p].case
    OBVIOUS
  <2>2. req[q].op \in Shifts => req[q].case # b \/ nodes' = nodes
    BY <1>1, <1>3, <2>1 DEF AccessInv, CrossPairs, Shifts
  <2>3. Keeping(req[q])
    BY <1>1 DEF KeepInv
  <2>4. Touches(b)
    BY <2>1
  <2> QED
    BY <1>3, <2>2, <2>3, <2>4, OtherKeeps
<1> QED
  BY <1>2, <1>3

\* The steps that leave the nodes alone,
LEMMA KeepStill ==
    ASSUME FlowInv, FlowInv', AccessInv, TimeInv, TimeInv', KeepInv, NEW p \in Slots,
           Others(p), crossed \subseteq crossed', nodes' = nodes,
           crossed = {} => Keeping(req[p])'
    PROVE  KeepInv'
<1>1. Touches(req[p].case)
  BY DEF Touches
<1> QED
  BY <1>1, KeepKept

\* of a request that has nothing of a move in hand,
LEMMA KeepFree ==
    ASSUME NEW p \in Slots, Heading(req'[p]) \notin Aims \cup Spread
    PROVE  Keeping(req[p])'
  BY DEF Keeping

\* or goes through the checks,
LEMMA KeepWaits ==
    ASSUME FlowInv, FlowInv', AccessInv, TimeInv, TimeInv', KeepInv, NEW p \in Slots,
           Others(p), crossed \subseteq crossed', nodes' = nodes, Idles(p) \/ Waiting(p)
    PROVE  KeepInv'
<1>1. CASE Idles(p)
  <2>1. Keeping(req[p])'
    BY <1>1, KeepFree DEF Idles, Holding
  <2> QED
    BY <2>1, KeepStill
<1>2. CASE Waiting(p)
  <2>1. /\ req'[p].arg = req[p].arg /\ req'[p].saw = req[p].saw
        /\ Heading(req'[p]) = Heading(req[p]) /\ Heading(req[p]) \in Aims
    BY <1>2 DEF Waiting
  <2>2. req'[p].at \notin Spread
    BY <2>1 DEF Heading, Checks, Aims, Spread
  <2>3. Keeping(req[p]) => Keeping(req[p])'
    BY <2>1, <2>2 DEF Keeping
  <2> QED
    BY <2>3, KeepStill DEF KeepInv
<1> QED
  BY <1>1, <1>2

\* or is about to place another node.
LEMMA KeepPlaces ==
    ASSUME FlowInv, FlowInv', AccessInv, TimeInv, TimeInv', KeepInv, NEW p \in Slots,
           Others(p), crossed \subseteq crossed', nodes' = nodes,
           ReadNextSort(p) \/ ToolSort(p)
    PROVE  KeepInv'
<1>1. req'[p].at \in {"node_insert", "tool_insert"}
  <2>1. CASE ReadNextSort(p)
    BY <2>1 DEF ReadNextSort, Learn, FlowInv, Fields
  <2>2. CASE ToolSort(p)
    BY <2>2 DEF ToolSort, Learn, FlowInv, Fields
  <2> QED
    BY <2>1, <2>2
<1>2. Heading(req'[p]) \notin Aims \cup Spread
  BY <1>1 DEF Heading, Checks, Aims, Spread
<1> QED
  BY <1>2, KeepFree, KeepStill

\* The steps that change them: a node is inserted,
LEMMA KeepInserts ==
    ASSUME FlowInv, FlowInv', AccessInv, TimeInv, TimeInv', KeepInv, NEW p \in Slots,
           Others(p), crossed \subseteq crossed', InsertNode(p) \/ ToolInsert(p)
    PROVE  KeepInv'
<1>1. /\ req[p].at \in {"node_insert", "tool_insert"}
      /\ req[p].op \in {"create_node", "post", "confirm"}
  <2>1. req[p].at \in {"node_insert", "tool_insert"}
    BY DEF InsertNode, ToolInsert, At
  <2> QED
    BY <2>1, Standing DEF At, OnWay, Checks
<1>2. p \in Inserting
  BY <1>1 DEF Inserting
<1>3. PICK c, d, order : /\ c = req[p].case /\ c \in Cases /\ d \in Days /\ order \in Nat
                         /\ nodes' = NodesWith(c, d, order)
                         /\ evidence' = evidence /\ evlinks' = evlinks
  <2>1. CASE InsertNode(p)
    <3>1. req[p].at = "node_insert" /\ req[p].op = "create_node"
      BY <1>1, <2>1, Standing DEF InsertNode, At, OnWay, Checks
    <3>2. req[p].case \in Cases /\ req[p].arg.day \in Days /\ req[p].saw \in Nat
      BY <3>1 DEF TimeInv, Bound, Reads
    <3> QED
      BY <2>1, <3>2 DEF InsertNode
  <2>2. CASE ToolInsert(p)
    <3>1. req[p].at = "tool_insert"
      BY <2>2 DEF ToolInsert, At
    <3>2. req[p].case \in Cases /\ req[p].saw.day \in Days /\ req[p].saw.order \in Nat
      BY <3>1 DEF TimeInv, Reads, Inside, Heading, Checks
    <3> QED
      BY <2>2, <3>2 DEF ToolInsert
  <2> QED
    BY <2>1, <2>2
<1>4. PICK n \in FreshNode : n = Min(FreshNode)
  BY <1>2, <1>3, NodeEnters
<1>5. n \in NodeIds /\ nodes[n].status = "none" /\ nodes \in [NodeIds -> NodeRow]
  BY DEF FreshNode, TimeInv, TimelineTypeOK
<1>6. nodes' = [nodes EXCEPT ![n] = [status |-> "active", case |-> c,
                                     day |-> d, order |-> order]]
  BY <1>3, <1>4 DEF NodesWith
<1>7. Touches(c)
  BY <1>5, <1>6 DEF Touches
<1>8. Heading(req'[p]) \notin Aims \cup Spread
  <2>1. CASE InsertNode(p)
    BY <2>1, LeavesIdle DEF InsertNode, Holding
  <2>2. CASE ToolInsert(p)
    <3>1. req'[p].at = "tool_done"
      BY <2>2 DEF ToolInsert, Carry, FlowInv, Fields
    <3> QED
      BY <3>1 DEF Heading, Checks, Aims, Spread
  <2> QED
    BY <2>1, <2>2
<1>9. Touches(req[p].case)
  BY <1>3, <1>7
<1> QED
  BY <1>1, <1>8, <1>9, KeepFree, KeepKept

\* or deleted,
LEMMA KeepDeletes ==
    ASSUME FlowInv, FlowInv', AccessInv, TimeInv, TimeInv', KeepInv, NEW p \in Slots,
           Others(p), crossed \subseteq crossed', DeleteNode(p)
    PROVE  KeepInv'
<1>1. /\ req[p].at = "delete_node" /\ CarryAndSucceed(p)
      /\ nodes' = [nodes EXCEPT ![req[p].arg.node].status = "deleted"]
      /\ nodes \in [NodeIds -> NodeRow]
  BY DEF DeleteNode, At, TimeInv, TimelineTypeOK
<1>2. req[p].op = "delete_node"
  BY <1>1, Standing DEF At, OnWay, Checks
<1>3. nodes[req[p].arg.node].case = req[p].case
  BY <1>2 DEF TimeInv, Reads, NodeOps
<1>4. Touches(req[p].case)
  BY <1>1, <1>3 DEF Touches, NodeRow
<1>5. Heading(req'[p]) \notin Aims \cup Spread
  BY <1>1, LeavesIdle DEF Holding
<1> QED
  BY <1>2, <1>4, <1>5, KeepFree, KeepKept

\* or a transaction is committed.
LEMMA KeepCommits ==
    ASSUME FlowInv, FlowInv', AccessInv, TimeInv, TimeInv', KeepInv, NEW p \in Slots,
           Others(p), crossed \subseteq crossed', CommitNode(p)
    PROVE  KeepInv'
<1>1. /\ req[p].at = "commit_node" /\ nodes' = Seen(p, nodes)
      /\ Carry(p, "refetch", Nothing)
  BY DEF CommitNode, At
<1>2. req[p].at \in Aims \cup Spread /\ req[p].at \in Spread
  BY <1>1 DEF Spread
<1>3. /\ nodes' = View(req[p]) /\ req[p].op \in Shifts /\ Written(req[p])
      /\ nodes \in [NodeIds -> NodeRow]
  BY <1>1, <1>2, InShift, SeenRows DEF TimeInv, TimelineTypeOK
<1>4. Touches(req[p].case)
  <2> SUFFICES ASSUME NEW n \in NodeIds, nodes'[n] # nodes[n]
               PROVE  nodes[n].case = req[p].case /\ nodes'[n].case = req[p].case
    BY DEF Touches
  <2>1. nodes'[n] = IF n \in DOMAIN req[p].tx THEN req[p].tx[n] ELSE nodes[n]
    BY <1>3 DEF View, Sight
  <2> QED
    BY <1>3, <2>1 DEF Written, Owned
<1>5. req'[p].at = "refetch"
  BY <1>1 DEF Carry, FlowInv, Fields
<1>6. Heading(req'[p]) \notin Aims \cup Spread
  BY <1>5 DEF Heading, Checks, Aims, Spread
<1> QED
  BY <1>3, <1>4, <1>6, KeepFree, KeepKept DEF Shifts

-----------------------------------------------------------------------------
\* fetch_node: the row that the transaction is to work with is there.
LEMMA KeepFetches ==
    ASSUME FlowInv, FlowInv', AccessInv, TimeInv, TimeInv', KeepInv, NEW p \in Slots,
           Others(p), crossed \subseteq crossed', FetchNode(p)
    PROVE  KeepInv'
<1> DEFINE r   == req[p]
           row == nodes[r.arg.node]
           saw == [row |-> row, order |-> FirstOrder(r, row), list |-> <<>>, done |-> 0]
           to  == AfterFetch(r, row)
<1>1. nodes' = nodes
  BY DEF FetchNode, timelineVars
<1>2. CASE Refuse(p)
  BY <1>1, <1>2, LeavesIdle, KeepFree, KeepStill DEF Holding
<1>3. CASE LearnAndCheck(p, saw, "write", to) /\ row.status = "active"
  <2>1. /\ req'[p].arg = r.arg /\ req'[p].at = "case" /\ req'[p].saw.row = row
    BY <1>3 DEF LearnAndCheck, FlowInv, Fields
  <2>2. Keeping(req[p])'
    BY <1>1, <1>3, <2>1 DEF Keeping, Spread
  <2> QED
    BY <1>1, <2>2, KeepStill
<1> QED
  BY <1>2, <1>3 DEF FetchNode

\* It still is after its next place was looked up.
LEMMA KeepOrders ==
    ASSUME FlowInv, FlowInv', AccessInv, TimeInv, TimeInv', KeepInv, NEW p \in Slots,
           Others(p), crossed \subseteq crossed', NextOrder(p)
    PROVE  KeepInv'
<1> DEFINE o   == NextSort(Seen(p, nodes), req[p].case, Day(p))
           saw == [req[p].saw EXCEPT !.order = o]
<1>1. nodes' = nodes /\ req[p].at = "next_order" /\ Learn(p, "write_node", saw)
  BY DEF NextOrder, At, timelineVars
<1>2. On(p, "write_node", saw, req[p].tx)
  BY <1>1, LearnOn
<1>3. /\ DOMAIN req[p].saw = {"row", "order", "list", "done"}
      /\ Heading(req[p]) = "next_order"
  BY <1>1, InShift DEF Aims
<1>4. /\ req'[p].arg = req[p].arg /\ req'[p].saw.row = req[p].saw.row
      /\ req'[p].at = "write_node"
  BY <1>2, <1>3 DEF On, Keeps
<1>5. Keeping(req[p]) => Keeping(req[p])'
  BY <1>1, <1>3, <1>4 DEF Keeping, Aims, Spread
<1> QED
  BY <1>1, <1>5, KeepStill DEF KeepInv

\* The node is in its place once it is written.
LEMMA KeepWrites ==
    ASSUME FlowInv, FlowInv', AccessInv, TimeInv, TimeInv', KeepInv, NEW p \in Slots,
           Others(p), crossed \subseteq crossed', WriteNode(p)
    PROVE  KeepInv'
<1> DEFINE n     == req[p].arg.node
           row   == Seen(p, nodes)[n]
           new   == [row EXCEPT !.day = Day(p), !.order = req[p].saw.order]
           rows  == IF row.status # "active" THEN <<>> ELSE Row(n, new)
           place == IF Resequences(p) THEN "read_new" ELSE "commit_node"
<1>1. nodes' = nodes /\ req[p].at = "write_node" /\ Buffer(p, place, rows)
  BY DEF WriteNode, At, timelineVars
<1>2. On(p, place, req[p].saw, Writes(p, rows))
  BY <1>1, BufferOn
<1>3. req[p].at \in Aims \cup Spread /\ req[p].at \notin Spread
  BY <1>1 DEF Aims, Spread
<1>4. /\ Heading(req[p]) = "write_node" /\ DOMAIN req[p].tx = {} /\ n \in NodeIds
      /\ Day(p) = NewOf(req[p]) /\ (Resequences(p) <=> Renumbers(req[p]))
  BY <1>1, <1>3, InShift DEF Written
<1>5. nodes \in [NodeIds -> NodeRow]
  BY DEF TimeInv, TimelineTypeOK
<1>6. \A k \in NodeIds : Sight(req[p], nodes)[k] = nodes[k]
  BY <1>4, <1>5 DEF Sight
<1>7. row = nodes[n]
  BY <1>4, <1>5 DEF Seen
<1>8. /\ req'[p].op = req[p].op /\ req'[p].arg = req[p].arg
      /\ req'[p].saw = req[p].saw /\ req'[p].at = place /\ req'[p].tx = Writes(p, rows)
  BY <1>2 DEF On, Keeps
<1>9. /\ NewOf(req'[p]) = NewOf(req[p]) /\ OldOf(req'[p]) = OldOf(req[p])
      /\ Renumbers(req'[p]) <=> Renumbers(req[p])
  BY <1>8 DEF OldOf, NewOf, NewDay, Renumbers
<1>10. PICK view, moved : view = View(req[p])' /\ moved = Moved(req[p])'
  OBVIOUS
<1>11. ASSUME Keeping(req[p]), NEW k \in NodeIds PROVE view[k] = moved[k]
  <2>1. row.status = "active"
    BY <1>3, <1>4, <1>7, <1>11 DEF Keeping, Aims
  <2>2. view = Sight(req'[p], nodes)
    BY <1>1, <1>10 DEF View
  <2>3. view[k] = IF k \in DOMAIN rows THEN rows[k] ELSE nodes[k]
    BY <1>5, <1>6, <1>8, <2>2, SightAfter
  <2>4. view[k] = IF k = n THEN new ELSE nodes[k]
    BY <2>1, <2>3 DEF Row
  <2>5. moved[k] = IF k = n THEN [nodes[n] EXCEPT !.day = Day(p), !.order = req[p].saw.order]
                   ELSE nodes[k]
    BY <1>1, <1>4, <1>8, <1>9, <1>10 DEF Moved
  <2> QED
    BY <1>7, <2>4, <2>5
<1>12. ASSUME Keeping(req[p]), Renumbers(req[p]) PROVE Follows(req'[p], view, moved)
  <2>1. req'[p].at = "read_new"
    BY <1>4, <1>8, <1>12
  <2> QED
    BY <1>11, <1>12, <2>1 DEF Follows, Finished, Numbering
<1>13. Keeping(req[p]) => /\ req'[p].saw.row = nodes'[req'[p].arg.node]
                          /\ req'[p].saw.row.status = "active"
  BY <1>1, <1>4, <1>8 DEF Keeping, Aims
<1>14. Keeping(req[p]) => Keeping(req[p])'
  <2> HIDE DEF rows, place
  <2> QED
    BY <1>9, <1>10, <1>12, <1>13 DEF Keeping
<1> QED
  BY <1>1, <1>14, KeepStill DEF KeepInv

\* What it sees and what it puts in place stay, if it writes nothing.
LEMMA SightStays ==
    ASSUME NEW p \in Slots, nodes' = nodes, req'[p].op = req[p].op,
           req'[p].arg = req[p].arg, req'[p].tx = req[p].tx, req'[p].case = req[p].case,
           req'[p].saw.row = req[p].saw.row, req'[p].saw.order = req[p].saw.order
    PROVE  /\ View(req[p])' = View(req[p]) /\ Moved(req[p])' = Moved(req[p])
           /\ NewOf(req'[p]) = NewOf(req[p]) /\ OldOf(req'[p]) = OldOf(req[p])
           /\ Renumbers(req'[p]) <=> Renumbers(req[p])
           /\ \A d : FirstOf(req'[p], d) = FirstOf(req[p], d)
<1>1. /\ NewOf(req'[p]) = NewOf(req[p]) /\ OldOf(req'[p]) = OldOf(req[p])
      /\ Renumbers(req'[p]) <=> Renumbers(req[p])
      /\ \A d : FirstOf(req'[p], d) = FirstOf(req[p], d)
  BY DEF OldOf, NewOf, NewDay, Renumbers, FirstOf
<1>2. View(req[p])' = View(req[p])
  BY DEF View, Sight
<1>3. Moved(req[p])' = Moved(req[p])
  BY <1>1 DEF Moved
<1> QED
  BY <1>1, <1>2, <1>3

\* What a day that has been numbered looks like.
LEMMA NumberedDay ==
    ASSUME NEW view, NEW moved \in [NodeIds -> NodeRow], NEW c, NEW d, NEW first,
           DayNumbered(view, moved, c, d, first)
    PROVE  LET day == OnDay(moved, c, d) IN
           /\ Cardinality(day) \in Nat
           /\ \A n \in day : \E i \in 1 .. Cardinality(day) :
                 view[n] = [moved[n] EXCEPT !.order = 100 * i]
           /\ \A i \in 1 .. Cardinality(day) : \E n \in day : view[n].order = 100 * i
           /\ \A a, b \in day : a # b =>
                 (view[a].order < view[b].order <=> Before(moved, first, a, b))
<1> DEFINE day == OnDay(moved, c, d)
<1>1. PICK k : k = Cardinality(day)
  OBVIOUS
<1>2. PICK list \in [1 .. k -> day] :
         Lists(list, moved, c, d, first) /\ Numbered(list, view, moved, k)
  BY <1>1 DEF DayNumbered
<1>3. /\ Len(list) = k /\ k \in Nat /\ DOMAIN list = 1 .. k
      /\ \A i \in 1 .. k : list[i] \in day
      /\ \A i, j \in 1 .. k : i # j => list[i] # list[j]
      /\ \A i, j \in 1 .. k : i < j => Before(moved, first, list[i], list[j])
      /\ \A n \in day : \E i \in 1 .. k : list[i] = n
  <2>1. Len(list) = Cardinality(OnDay(moved, c, d))
    BY <1>2, ListCovers
  <2>2. Len(list) = k
    BY <1>1, <2>1
  <2> QED
    BY <1>2, <2>2, ListCovers
<1>4. \A n \in day : n \in NodeIds /\ moved[n] \in NodeRow
  BY DEF OnDay
<1> HIDE DEF day
<1>5. ASSUME NEW i \in 1 .. k
      PROVE  /\ view[list[i]] = [moved[list[i]] EXCEPT !.order = 100 * i]
             /\ view[list[i]].order = 100 * i
  <2>1. i <= k
    BY <1>3
  <2>2. view[list[i]] = [moved[list[i]] EXCEPT !.order = 100 * i]
    BY <1>2, <1>3, <2>1 DEF Numbered
  <2>3. moved[list[i]] \in NodeRow
    BY <1>3, <1>4
  <2> QED
    BY <2>2, <2>3 DEF NodeRow
<1>6. ASSUME NEW a \in day, NEW b \in day, a # b
      PROVE  view[a].order < view[b].order <=> Before(moved, first, a, b)
  <2>1. PICK i \in 1 .. k : list[i] = a
    BY <1>3
  <2>2. PICK j \in 1 .. k : list[j] = b
    BY <1>3
  <2>3. view[a].order = 100 * i /\ view[b].order = 100 * j
    BY <1>5, <2>1, <2>2
  <2>4. i \in Nat /\ j \in Nat /\ i # j
    BY <1>3, <1>6, <2>1, <2>2
  <2>5. /\ i < j => Before(moved, first, a, b)
        /\ j < i => Before(moved, first, b, a)
    BY <1>3, <2>1, <2>2
  <2>6. ~(Before(moved, first, a, b) /\ Before(moved, first, b, a))
    BY <1>4, <1>6, AheadOrders DEF Ahead
  <2> QED
    BY <2>3, <2>4, <2>5, <2>6
<1>7. ASSUME NEW n \in day
      PROVE  \E i \in 1 .. k : view[n] = [moved[n] EXCEPT !.order = 100 * i]
  BY <1>3, <1>5
<1>8. ASSUME NEW i \in 1 .. k PROVE \E n \in day : view[n].order = 100 * i
  BY <1>3, <1>5
<1> QED
  BY <1>1, <1>3, <1>6, <1>7, <1>8 DEF day

\* It depends on its rows, too.
LEMMA DayKept ==
    ASSUME NEW view, NEW seen, NEW moved, NEW c, NEW d, NEW first,
           \A n \in OnDay(moved, c, d) : seen[n] = view[n],
           DayNumbered(view, moved, c, d, first)
    PROVE  DayNumbered(seen, moved, c, d, first)
<1>1. PICK k : k = Cardinality(OnDay(moved, c, d))
  OBVIOUS
<1>2. PICK list \in [1 .. k -> OnDay(moved, c, d)] :
         Lists(list, moved, c, d, first) /\ Numbered(list, view, moved, k)
  BY <1>1 DEF DayNumbered
<1>3. \A i \in DOMAIN list : seen[list[i]] = view[list[i]]
  BY <1>2
<1>4. Numbered(list, seen, moved, k)
  BY <1>2, <1>3 DEF Numbered
<1> QED
  BY <1>1, <1>2, <1>4 DEF DayNumbered

\* The rows of a transaction, and the nodes with one of them in its place.
LEMMA ShiftRows ==
    ASSUME FlowInv, TimeInv, NEW p \in Slots, req[p].at \in Spread
    PROVE  /\ View(req[p]) \in [NodeIds -> NodeRow] /\ Moved(req[p]) \in [NodeIds -> NodeRow]
           /\ \A n \in NodeIds :
                 /\ Moved(req[p])[n].status = nodes[n].status
                 /\ Moved(req[p])[n].case = nodes[n].case
                 /\ n # req[p].arg.node => Moved(req[p])[n] = nodes[n]
           /\ Moved(req[p])[req[p].arg.node].day = NewOf(req[p])
           /\ Moved(req[p])[req[p].arg.node].order = req[p].saw.order
<1>1. /\ req[p].op \in Shifts /\ NewOf(req[p]) \in Days /\ req[p].saw.order \in Nat
      /\ req[p].arg.node \in NodeIds
  BY InShift
<1>2. View(req[p]) \in [NodeIds -> NodeRow]
  BY <1>1, SeenRows
<1>3. nodes \in [NodeIds -> NodeRow]
  BY DEF TimeInv, TimelineTypeOK
<1> QED
  BY <1>1, <1>2, <1>3 DEF Moved, NodeRow

\* A day that is about to be numbered is still as it was.
LEMMA DayToRead ==
    ASSUME FlowInv, TimeInv, NEW p \in Slots, req[p].at \in {"read_new", "read_old"},
           NEW view, NEW moved, view = View(req[p]), moved = Moved(req[p]),
           Follows(req[p], view, moved),
           NEW d, d = IF req[p].at = "read_new" THEN NewOf(req[p]) ELSE OldOf(req[p])
    PROVE  /\ OnDay(view, req[p].case, d) = OnDay(moved, req[p].case, d)
           /\ \A n \in OnDay(moved, req[p].case, d) : view[n] = moved[n]
<1>1. /\ view \in [NodeIds -> NodeRow] /\ moved \in [NodeIds -> NodeRow]
  BY ShiftRows DEF Spread
<1>2. CASE req[p].at = "read_new"
  <2>1. \A n \in NodeIds : view[n] = moved[n]
    BY <1>2 DEF Follows, Entered
  <2> QED
    BY <2>1 DEF OnDay
<1>3. CASE req[p].at = "read_old"
  <2>1. d # NewOf(req[p])
    BY <1>3 DEF Follows
  <2>2. DayNumbered(view, moved, req[p].case, NewOf(req[p]), FirstOf(req[p], NewOf(req[p])))
    BY <1>3 DEF Follows, Finished
  <2>3. PICK e, first : /\ e = NewOf(req[p])
                        /\ DayNumbered(view, moved, req[p].case, e, first)
    BY <2>2
  <2>4. \A n \in OnDay(moved, req[p].case, e) :
           \E i : view[n] = [moved[n] EXCEPT !.order = 100 * i]
    BY <1>1, <2>3, NumberedDay
  <2>5. \A n \in NodeIds : n \notin OnDay(moved, req[p].case, e) => view[n] = moved[n]
    BY <1>3, <2>3 DEF Follows, Entered
  <2>6. ASSUME NEW n \in NodeIds PROVE view[n].day = moved[n].day
    <3>1. CASE n \in OnDay(moved, req[p].case, e)
      <4>1. PICK i : view[n] = [moved[n] EXCEPT !.order = 100 * i]
        BY <2>4, <3>1
      <4>2. moved[n] \in NodeRow
        BY <1>1
      <4> QED
        BY <4>1, <4>2 DEF NodeRow
    <3> QED
      BY <2>5, <3>1
  <2>7. ASSUME NEW n \in NodeIds, moved[n].day = d PROVE view[n] = moved[n]
    BY <2>1, <2>3, <2>5, <2>7 DEF OnDay
  <2> QED
    BY <2>6, <2>7 DEF OnDay
<1> QED
  BY <1>2, <1>3

\* The ids of a day are read: they list it,
LEMMA KeepReadsDay ==
    ASSUME FlowInv, FlowInv', AccessInv, TimeInv, TimeInv', KeepInv, NEW p \in Slots,
           Others(p), crossed \subseteq crossed', ReadDay(p)
    PROVE  KeepInv'
<1>1. /\ req[p].at \in {"read_new", "read_old"} /\ req[p].at \in Spread
      /\ req[p].at \in Aims \cup Spread /\ nodes' = nodes
  BY DEF ReadDay, Spread, timelineVars
<1>2. /\ DOMAIN req[p].saw = {"row", "order", "list", "done"}
      /\ Day(p) = NewOf(req[p]) /\ OldDay(p) = OldOf(req[p]) /\ Heading(req[p]) = req[p].at
  BY <1>1, InShift
<1>3. PICK d, first, list, place :
         /\ d = IF req[p].at = "read_new" THEN NewOf(req[p]) ELSE OldOf(req[p])
         /\ first = IF req[p].at = "read_new" THEN req[p].arg.node ELSE Keep
         /\ list = DaySequence(Seen(p, nodes), req[p].case, d, first)
         /\ place = IF list = <<>> THEN AfterDay(p)
                    ELSE IF At(p, "read_new") THEN "number_new" ELSE "number_old"
         /\ Learn(p, place, [req[p].saw EXCEPT !.list = list, !.done = 0])
  BY <1>1, <1>2 DEF ReadDay, At
<1>4. PICK view, moved : view = View(req[p]) /\ moved = Moved(req[p])
  OBVIOUS
<1>5. On(p, place, [req[p].saw EXCEPT !.list = list, !.done = 0], req[p].tx)
  BY <1>3, LearnOn
<1>6. /\ req'[p].op = req[p].op /\ req'[p].arg = req[p].arg /\ req'[p].case = req[p].case
      /\ req'[p].tx = req[p].tx /\ req'[p].at = place
      /\ req'[p].saw.row = req[p].saw.row /\ req'[p].saw.order = req[p].saw.order
      /\ req'[p].saw.list = list /\ req'[p].saw.done = 0
  BY <1>2, <1>5 DEF On, Keeps
<1>7. /\ View(req[p])' = view /\ Moved(req[p])' = moved
      /\ NewOf(req'[p]) = NewOf(req[p]) /\ OldOf(req'[p]) = OldOf(req[p])
      /\ Renumbers(req'[p]) <=> Renumbers(req[p])
      /\ \A e : FirstOf(req'[p], e) = FirstOf(req[p], e)
  BY <1>1, <1>4, <1>6, SightStays
<1>8. ASSUME Follows(req[p], view, moved) PROVE Follows(req'[p], view, moved)
  <2>1. req[p].at = "read_old" => NewOf(req[p]) # OldOf(req[p])
    BY <1>8 DEF Follows
  <2>2. first = FirstOf(req[p], d)
    BY <1>1, <1>3, <2>1 DEF FirstOf
  <2>3. /\ list = <<>> => place = IF req[p].at = "read_new" /\ NewOf(req[p]) # OldOf(req[p])
                                  THEN "read_old" ELSE "commit_node"
        /\ list # <<>> => place = IF req[p].at = "read_new" THEN "number_new"
                                  ELSE "number_old"
    BY <1>1, <1>2, <1>3 DEF AfterDay, At
  <2>4. /\ Entered(req'[p]) = Entered(req[p]) \cup {d}
        /\ Finished(req'[p]) = IF list = <<>> THEN Finished(req[p]) \cup {d}
                               ELSE Finished(req[p])
        /\ Entered(req[p]) = Finished(req[p])
    BY <1>1, <1>3, <1>6, <1>7, <2>1, <2>3 DEF Entered, Finished
  <2>5. Lists(list, moved, req[p].case, d, first)
    <3>1. Lists(list, view, req[p].case, d, first)
      BY <1>1, <1>3, <1>4, DayListed
    <3>2. /\ OnDay(view, req[p].case, d) = OnDay(moved, req[p].case, d)
          /\ \A n \in OnDay(moved, req[p].case, d) : view[n] = moved[n]
      BY <1>1, <1>3, <1>4, <1>8, DayToRead
    <3> QED
      BY <3>1, <3>2, ListsAgree
  <2>6. \A n \in OnDay(moved, req[p].case, d) : view[n] = moved[n]
    BY <1>1, <1>3, <1>4, <1>8, DayToRead
  <2>7. PICK k : k = Cardinality(OnDay(moved, req[p].case, d))
    OBVIOUS
  <2>8. list \in [1 .. k -> OnDay(moved, req[p].case, d)]
    BY <2>5, <2>7 DEF Lists
  <2>9. Numbered(list, view, moved, 0)
    <3>1. \A i \in 1 .. k : ~(i <= 0)
      OBVIOUS
    <3>2. \A i \in 1 .. k : view[list[i]] = moved[list[i]]
      BY <2>6, <2>8
    <3> QED
      BY <2>8, <3>1, <3>2 DEF Numbered
  <2>10. list = <<>> => DayNumbered(view, moved, req[p].case, d, first)
    <3>1. SUFFICES ASSUME list = <<>>
                   PROVE  DayNumbered(view, moved, req[p].case, d, first)
      OBVIOUS
    <3>2. DOMAIN list = {}
      BY <3>1
    <3>3. Numbered(list, view, moved, k)
      BY <3>2 DEF Numbered
    <3> QED
      BY <2>5, <2>7, <2>8, <3>3 DEF DayNumbered
  <2>11. ASSUME NEW n \in NodeIds,
                \A e \in Entered(req'[p]) : n \notin OnDay(moved, req[p].case, e)
         PROVE  view[n] = moved[n]
    BY <1>8, <2>4, <2>11 DEF Follows
  <2>12. ASSUME NEW e \in Finished(req'[p])
         PROVE  DayNumbered(view, moved, req[p].case, e, FirstOf(req[p], e))
    <3>1. CASE e = d /\ list = <<>>
      BY <2>2, <2>10, <3>1
    <3>2. CASE e \in Finished(req[p])
      BY <1>8, <3>2 DEF Follows
    <3> QED
      BY <2>4, <2>12, <3>1, <3>2
  <2>13. ASSUME NEW e \in Entered(req'[p]) \ Finished(req'[p])
         PROVE  /\ Lists(list, moved, req[p].case, e, FirstOf(req[p], e))
                /\ Numbered(list, view, moved, 0)
    <3>1. e = d
      BY <2>4, <2>13
    <3> QED
      BY <2>2, <2>5, <2>9, <3>1
  <2>14. req'[p].at \in {"read_old", "number_old"} => NewOf(req'[p]) # OldOf(req'[p])
    BY <1>1, <1>6, <1>7, <2>1, <2>3
  <2>15. PICK now : now = req'[p]
    OBVIOUS
  <2> QED
    BY <1>6, <1>7, <2>11, <2>12, <2>13, <2>14, <2>15 DEF Follows
<1>9. place \in Spread
  BY <1>3 DEF AfterDay, Spread
<1>10. Keeping(req[p]) => Keeping(req[p])'
  BY <1>1, <1>2, <1>4, <1>6, <1>7, <1>8 DEF Keeping
<1> QED
  BY <1>1, <1>10, KeepStill DEF KeepInv

\* and numbered one after the other.
LEMMA KeepNumbers ==
    ASSUME FlowInv, FlowInv', AccessInv, TimeInv, TimeInv', KeepInv, NEW p \in Slots,
           Others(p), crossed \subseteq crossed', NumberRow(p)
    PROVE  KeepInv'
<1> DEFINE saw  == req[p].saw
           n    == NextRow(p)
           row  == Seen(p, nodes)[n]
           last == saw.done + 1 = Len(saw.list)
           more == [saw EXCEPT !.done = @ + 1]
           new  == [row EXCEPT !.order = 100 * (saw.done + 1)]
           at   == IF last THEN AfterDay(p) ELSE req[p].at
<1>1. req[p].at \in Numbering /\ nodes' = nodes
  BY DEF NumberRow, Numbering, timelineVars
<1>2. req[p].at \in Aims \cup Spread /\ req[p].at \in Spread /\ at \in Spread
  BY <1>1 DEF Numbering, Spread, AfterDay
<1>3. On(p, at, more, Writes(p, Row(n, new)))
  BY DEF NumberRow, On, Keeps, FlowInv, Fields, bounds
<1>4. /\ saw.list \in Seq(NodeIds) /\ saw.done \in Nat /\ saw.done < Len(saw.list)
      /\ DOMAIN saw = {"row", "order", "list", "done"}
      /\ Day(p) = NewOf(req[p]) /\ OldDay(p) = OldOf(req[p])
      /\ Heading(req[p]) = req[p].at /\ nodes \in [NodeIds -> NodeRow]
  BY <1>1, <1>2, InShift DEF Written, TimeInv, TimelineTypeOK
<1>5. PICK len \in Nat, k \in Nat : len = Len(saw.list) /\ k = saw.done /\ k < len
  BY <1>4
<1>6. n = saw.list[k + 1] /\ k + 1 \in 1 .. len /\ (last <=> k + 1 = len)
  BY <1>5 DEF NextRow
<1>7. /\ req'[p].op = req[p].op /\ req'[p].arg = req[p].arg /\ req'[p].case = req[p].case
      /\ req'[p].tx = Writes(p, Row(n, new)) /\ req'[p].at = at
      /\ req'[p].saw.row = saw.row /\ req'[p].saw.order = saw.order
      /\ req'[p].saw.list = saw.list /\ req'[p].saw.done = k + 1
  BY <1>3, <1>4, <1>5 DEF On, Keeps
<1>8. /\ NewOf(req'[p]) = NewOf(req[p]) /\ OldOf(req'[p]) = OldOf(req[p])
      /\ Renumbers(req'[p]) <=> Renumbers(req[p])
      /\ \A e : FirstOf(req'[p], e) = FirstOf(req[p], e)
  BY <1>7 DEF OldOf, NewOf, NewDay, Renumbers, FirstOf
<1>9. PICK view, moved : view = View(req[p]) /\ moved = Moved(req[p])
  OBVIOUS
<1>10. PICK seen, put : seen = View(req[p])' /\ put = Moved(req[p])'
  OBVIOUS
<1>11. put = moved
  BY <1>1, <1>7, <1>8, <1>9, <1>10 DEF Moved
<1>12. /\ moved \in [NodeIds -> NodeRow] /\ Seen(p, nodes) = view /\ row = view[n]
  BY <1>2, <1>9, InShift, SeenRows, ShiftRows
<1>13. ASSUME NEW m \in NodeIds PROVE seen[m] = IF m = n THEN new ELSE view[m]
  <2>1. /\ seen[m] = Sight(req'[p], nodes)[m] /\ view[m] = Sight(req[p], nodes)[m]
        /\ m \in DOMAIN nodes
    BY <1>1, <1>4, <1>9, <1>10 DEF View
  <2>2. DOMAIN Row(n, new) = {n} /\ Row(n, new)[n] = new
    BY DEF Row
  <2> QED
    BY <1>7, <2>1, <2>2, SightAfter
<1>14. PICK c, d, list : /\ c = req[p].case /\ list = saw.list
                         /\ d = IF req[p].at = "number_new" THEN NewOf(req[p])
                                ELSE OldOf(req[p])
  OBVIOUS
<1>15. new = [view[n] EXCEPT !.order = 100 * (k + 1)]
  BY <1>5, <1>12
<1>16. at = IF k + 1 = len
            THEN IF req[p].at = "number_new" /\ NewOf(req[p]) # OldOf(req[p])
                 THEN "read_old" ELSE "commit_node"
            ELSE req[p].at
  BY <1>1, <1>4, <1>6 DEF AfterDay, Numbering
<1> HIDE DEF saw, n, row, last, more, new, at
<1>17. ASSUME Follows(req[p], view, moved) PROVE Follows(req'[p], seen, moved)
  <2>1. req[p].at = "number_old" => NewOf(req[p]) # OldOf(req[p])
    BY <1>17 DEF Follows
  <2>2. /\ Entered(req'[p]) = Entered(req[p]) /\ d \in Entered(req[p]) \ Finished(req[p])
        /\ Finished(req'[p]) = IF k + 1 = len THEN Finished(req[p]) \cup {d}
                               ELSE Finished(req[p])
        /\ Entered(req[p]) \ Finished(req[p]) = {d}
    BY <1>1, <1>7, <1>8, <1>14, <1>16, <2>1 DEF Entered, Finished, Numbering
  <2>3. PICK first : first = FirstOf(req[p], d)
    OBVIOUS
  <2>4. Lists(list, moved, c, d, first) /\ Numbered(list, view, moved, k)
    BY <1>1, <1>5, <1>14, <1>17, <2>2, <2>3 DEF Follows, saw
  <2>5. /\ Len(list) = Cardinality(OnDay(moved, c, d)) /\ DOMAIN list = 1 .. Len(list)
        /\ \A i \in 1 .. Len(list) : list[i] \in OnDay(moved, c, d)
        /\ \A i, j \in 1 .. Len(list) : i # j => list[i] # list[j]
    BY <1>12, <2>4, ListCovers
  <2>6. /\ len = Cardinality(OnDay(moved, c, d)) /\ DOMAIN list = 1 .. len
        /\ \A i \in 1 .. len : list[i] \in OnDay(moved, c, d)
        /\ \A i, j \in 1 .. len : i # j => list[i] # list[j]
    BY <1>5, <1>14, <2>5
  <2>7. n \in OnDay(moved, c, d) /\ n \in NodeIds /\ n = list[k + 1]
    BY <1>6, <1>14, <2>6 DEF OnDay
  <2>8. Numbered(list, seen, moved, k + 1)
    <3> SUFFICES ASSUME NEW i \in 1 .. len
                 PROVE  seen[list[i]] = IF i <= k + 1
                                        THEN [moved[list[i]] EXCEPT !.order = 100 * i]
                                        ELSE moved[list[i]]
      BY <2>6 DEF Numbered
    <3>1. /\ list[i] \in NodeIds
          /\ view[list[i]] = IF i <= k THEN [moved[list[i]] EXCEPT !.order = 100 * i]
                             ELSE moved[list[i]]
      BY <2>4, <2>6 DEF Numbered, OnDay
    <3>2. CASE i = k + 1
      <4>1. ~(i <= k)
        BY <3>2
      <4>2. view[n] = moved[n]
        BY <2>7, <3>1, <3>2, <4>1
      <4>3. seen[n] = [moved[n] EXCEPT !.order = 100 * (k + 1)]
        BY <1>13, <1>15, <2>7, <4>2
      <4>4. i <= k + 1
        BY <3>2
      <4> QED
        BY <2>7, <3>2, <4>3, <4>4
    <3>3. CASE i # k + 1
      <4>1. list[i] # n
        BY <1>6, <2>6, <2>7, <3>3
      <4>2. seen[list[i]] = view[list[i]]
        BY <1>13, <3>1, <4>1
      <4>3. i <= k + 1 <=> i <= k
        BY <3>3
      <4> QED
        BY <3>1, <4>2, <4>3
    <3> QED
      BY <3>2, <3>3
  <2>9. k + 1 = len => DayNumbered(seen, moved, c, d, first)
    <3>1. list \in [1 .. len -> OnDay(moved, c, d)]
      BY <2>4, <2>6 DEF Lists
    <3> QED
      BY <2>4, <2>6, <2>8, <3>1 DEF DayNumbered
  <2>10. ASSUME NEW e, e # d, NEW m \in OnDay(moved, c, e) PROVE seen[m] = view[m]
    <3>1. m \in NodeIds /\ m # n
      BY <2>7, <2>10 DEF OnDay
    <3> QED
      BY <1>13, <3>1
  <2>11. ASSUME NEW m \in NodeIds, \A e \in Entered(req'[p]) : m \notin OnDay(moved, c, e)
         PROVE  seen[m] = moved[m]
    <3>1. m # n
      BY <2>2, <2>7, <2>11
    <3>2. view[m] = moved[m]
      BY <1>14, <1>17, <2>2, <2>11 DEF Follows
    <3> QED
      BY <1>13, <3>1, <3>2
  <2>12. ASSUME NEW e \in Finished(req'[p])
         PROVE  DayNumbered(seen, moved, c, e, FirstOf(req[p], e))
    <3>1. CASE e = d
      BY <2>2, <2>3, <2>9, <2>12, <3>1
    <3>2. CASE e # d
      <4>1. DayNumbered(view, moved, c, e, FirstOf(req[p], e))
        BY <1>14, <1>17, <2>2, <2>12, <3>2 DEF Follows
      <4>2. \A m \in OnDay(moved, c, e) : seen[m] = view[m]
        BY <2>10, <3>2
      <4> QED
        BY <4>1, <4>2, DayKept
    <3> QED
      BY <3>1, <3>2
  <2>13. ASSUME NEW e \in Entered(req'[p]) \ Finished(req'[p])
         PROVE  /\ Lists(list, moved, c, e, FirstOf(req[p], e))
                /\ Numbered(list, seen, moved, k + 1)
    <3>1. e = d
      BY <2>2, <2>13
    <3> QED
      BY <2>3, <2>4, <2>8, <3>1
  <2>14. req'[p].at \in {"read_old", "number_old"} => NewOf(req'[p]) # OldOf(req'[p])
    BY <1>1, <1>7, <1>8, <1>16, <2>1 DEF Numbering
  <2>15. PICK now : now = req'[p]
    OBVIOUS
  <2>16. now.case = c /\ now.saw.list = list /\ now.saw.done = k + 1
    BY <1>7, <1>14, <2>15
  <2> QED
    BY <1>8, <2>11, <2>12, <2>13, <2>14, <2>15, <2>16 DEF Follows
<1>18. Keeping(req[p]) => Keeping(req[p])'
  BY <1>1, <1>2, <1>4, <1>7, <1>8, <1>9, <1>10, <1>11, <1>17 DEF Keeping, saw
<1> QED
  BY <1>1, <1>18, KeepStill DEF KeepInv

-----------------------------------------------------------------------------
\* At the start nobody has a node in hand,
LEMMA KeepStart == WorkInit => KeepInv
<1> SUFFICES ASSUME WorkInit, NEW p \in Slots PROVE Keeping(req[p])
  BY DEF KeepInv
<1>1. req[p] = Idle
  BY DEF WorkInit, RequestInit
<1> QED
  BY <1>1 DEF Keeping, Idle, Heading, Checks, Aims, Spread

\* and every step keeps what the requests follow.
LEMMA KeepNext ==
    FlowInv /\ AccessInv /\ AgentInv /\ TimeInv /\ KeepInv /\ [Next]_vars => KeepInv'
<1> SUFFICES ASSUME FlowInv, AccessInv, AgentInv, TimeInv, KeepInv, [Next]_vars
             PROVE  KeepInv'
  OBVIOUS
<1>1. FlowInv' /\ TimeInv'
  BY FlowStep, TimeNext
<1>2. CASE UNCHANGED <<req, nodes, crossed>>
  <2>1. ASSUME NEW p \in Slots, Keeping(req[p]) PROVE Keeping(req[p])'
    <3>1. /\ View(req[p])' = View(req[p]) /\ Moved(req[p])' = Moved(req[p])
          /\ req'[p] = req[p]
      BY <1>2, SightStays
    <3>2. PICK r, view, moved : r = req[p] /\ view = View(r) /\ moved = Moved(r)
      OBVIOUS
    <3>3. r.at \in Spread /\ Renumbers(r) /\ Heading(r) \in Aims \cup Spread
             => Follows(r, view, moved)
      BY <2>1, <3>2 DEF Keeping
    <3> QED
      BY <1>2, <2>1, <3>1, <3>2, <3>3 DEF Keeping
  <2> QED
    BY <1>2, <2>1 DEF KeepInv
<1>3. ASSUME NEW p \in Slots, Others(p), crossed \subseteq crossed', Kinds(p)
      PROVE  KeepInv'
  <2>1. CASE Idles(p) \/ (nodes' = nodes /\ Waiting(p))
    BY <1>1, <1>3, <2>1, KeepWaits DEF Idles
  <2>2. CASE ReadNextSort(p) \/ (ToolSort(p) /\ nodes' = nodes)
    BY <1>1, <1>3, <2>2, KeepPlaces DEF ReadNextSort, timelineVars
  <2>3. CASE InsertNode(p) \/ ToolInsert(p)
    BY <1>1, <1>3, <2>3, KeepInserts
  <2>4. CASE FetchNode(p) \/ NextOrder(p) \/ WriteNode(p)
    BY <1>1, <1>3, <2>4, KeepFetches, KeepOrders, KeepWrites
  <2>5. CASE ReadDay(p) \/ NumberRow(p) \/ CommitNode(p)
    BY <1>1, <1>3, <2>5, KeepReadsDay, KeepNumbers, KeepCommits
  <2>6. CASE DeleteNode(p)
    BY <1>1, <1>3, <2>6, KeepDeletes
  <2> QED
    BY <1>3, <2>1, <2>2, <2>3, <2>4, <2>5, <2>6 DEF Kinds, Handles
<1> QED
  BY <1>2, <1>3, StepKinds

\* A request reaches refetch from commit_node by the commit only.
LEMMA ShiftLeaves ==
    ASSUME FlowInv, TimeInv, [Next]_vars, NEW p \in Slots, At(p, "commit_node"),
           At(p, "refetch")'
    PROVE  CommitNode(p)
<1>1. req[p].op \in Shifts /\ req[p].at = "commit_node" /\ req'[p].at = "refetch"
  BY InShift DEF At, Spread
<1>2. req'[p].at # req[p].at /\ req[p].op \in {"update_node", "move_node"}
  BY <1>1 DEF Shifts
<1>3. ASSUME NEW q \in Slots, Others(q) PROVE q = p
  BY <1>2, <1>3 DEF Others, Fields
<1>4. ASSUME NEW q \in Slots, NEW ops, Turn(q, ops) PROVE req[p].op \in ops /\ q = p
  BY <1>2, <1>3, <1>4 DEF Turn
<1>5. ASSUME NEW q \in Slots, RequestStep(q) PROVE FALSE
  <2>1. q = p
    BY <1>3, <1>5, RequestStepTurn DEF RequestTurn
  <2>2. req' # [req EXCEPT ![p] = Idle]
    BY <1>1 DEF Idle, FlowInv, Fields
  <2> QED
    BY <1>1, <1>5, <2>1, <2>2 DEF RequestStep, Replay, LookupMiss, LookupFails, Record,
       RecordFails, CheckCase, CheckMember, CutShort, At
<1>6. ASSUME NEW q \in Slots, CaseStep(q) \/ PersonStep(q) \/ AgentStep(q)
                              \/ AccountStep(q)
      PROVE  FALSE
  BY <1>2, <1>4, <1>6, CaseTurn, PersonTurn, AgentTurn, AccountTurn
     DEF CaseOps, PersonOps, AgentOps, AccountOps
<1>7. ASSUME NEW q \in Slots, TimelineStep(q) PROVE CommitNode(p)
  <2>1. q = p
    BY <1>4, <1>7, TimelineTurn
  <2>2. NodeWanted(p) = {}
    BY <1>1 DEF NodeWanted, At
  <2>3. ~NodeDeadlock(p)
    BY <2>2 DEF NodeDeadlock, NodeWaitsFor
  <2>4. ~\E op, user : user \in Senders(p, op)
    BY <1>2 DEF Senders, Active
  <2> QED
    BY <1>1, <1>7, <2>1, <2>3, <2>4 DEF TimelineStep, SendCreateNode, ReadNextSort,
     InsertNode, SendToNode, SendUpdateNode, SendMoveNode, SendDeleteNode,
     SendLinkEvidence, SendUnlinkEvidence, FetchNode, NextOrder, WriteNode, ReadDay,
     NumberRow, RefetchNode, DeleteNode, FindEvidence, LinkNode, UnlinkNode,
     SendDeleteFile, FetchFile, DeleteEvidence, At
<1>8. WindowStep \/ AllServed \/ UNCHANGED vars => UNCHANGED req
  BY DEF WindowStep, WindowEnds, AllServed, vars, requestVars
<1> QED
  BY <1>2, <1>5, <1>6, <1>7, <1>8 DEF Next

\* What a move leaves: the days it touched are numbered, and the other nodes
\* are where they were.
LEMMA MoveEnds ==
    ASSUME FlowInv, TimeInv, KeepInv, crossed = {}, NEW p \in Slots, At(p, "commit_node"),
           Resequences(p), NEW moved, moved = Moved(req[p]), NEW view, view = View(req[p])
    PROVE  LET r == req[p] IN
           /\ view \in [NodeIds -> NodeRow] /\ moved \in [NodeIds -> NodeRow]
           /\ nodes \in [NodeIds -> NodeRow] /\ Day(p) = NewOf(r) /\ OldDay(p) = OldOf(r)
           /\ r.arg.node \in OnDay(moved, r.case, NewOf(r))
           /\ moved[r.arg.node].order = r.saw.order
           /\ \A m \in NodeIds : m # r.arg.node => moved[m] = nodes[m]
           /\ \A d \in {NewOf(r), OldOf(r)} :
                 DayNumbered(view, moved, r.case, d, FirstOf(r, d))
           /\ \A m \in NodeIds :
                 (\A d \in {NewOf(r), OldOf(r)} : m \notin OnDay(moved, r.case, d))
                    => view[m] = moved[m]
<1>1. req[p].at = "commit_node" /\ req[p].at \in Spread /\ req[p].at \in Aims \cup Spread
  BY DEF At, Spread
<1>2. /\ Owned(req[p], req[p].arg.node) /\ (Resequences(p) <=> Renumbers(req[p]))
      /\ Heading(req[p]) = req[p].at /\ Day(p) = NewOf(req[p]) /\ OldDay(p) = OldOf(req[p])
  BY <1>1, InShift
<1>3. /\ req[p].saw.row = nodes[req[p].arg.node] /\ req[p].saw.row.status = "active"
      /\ Follows(req[p], view, moved)
  BY <1>1, <1>2 DEF KeepInv, Keeping
<1>4. /\ Entered(req[p]) = {NewOf(req[p]), OldOf(req[p])}
      /\ Finished(req[p]) = {NewOf(req[p]), OldOf(req[p])}
  BY <1>1 DEF Entered, Finished
<1>5. /\ view \in [NodeIds -> NodeRow] /\ moved \in [NodeIds -> NodeRow]
      /\ nodes \in [NodeIds -> NodeRow]
      /\ \A m \in NodeIds : /\ moved[m].status = nodes[m].status
                            /\ moved[m].case = nodes[m].case
                            /\ m # req[p].arg.node => moved[m] = nodes[m]
      /\ moved[req[p].arg.node].day = NewOf(req[p])
      /\ moved[req[p].arg.node].order = req[p].saw.order
  BY <1>1, ShiftRows DEF TimeInv, TimelineTypeOK
<1>6. req[p].arg.node \in OnDay(moved, req[p].case, NewOf(req[p]))
  BY <1>2, <1>3, <1>5 DEF OnDay, Owned
<1> QED
  BY <1>2, <1>3, <1>4, <1>5, <1>6 DEF Follows

(***************************************************************************)
(* MoveKeepsOrder: a move that no other request on the case overlaps       *)
(* leaves the days it touches numbered 100, 200, ...; the other nodes keep *)
(* their days and their order, and the node that moved is before every     *)
(* node that was at or behind the place asked for.                         *)
(***************************************************************************)
THEOREM MovesKeepOrder == Spec => MoveKeepsOrder
<1> DEFINE Followed == FlowInv /\ AccessInv /\ AgentInv /\ TimeInv /\ KeepInv
           Whole(p) ==
             LET n == req[p].arg.node
                 c == req[p].case
                 days == {Day(p), OldDay(p)}
                 others == NodeIds \ {n}
             IN /\ nodes'[n].day = Day(p)
                /\ \A a \in others : nodes'[a] = [nodes[a] EXCEPT !.order = nodes'[a].order]
                /\ \A d \in days : LET there == OnDay(nodes', c, d) IN
                     {nodes'[a].order : a \in there} = {100 * i : i \in 1 .. Cardinality(there)}
                /\ \A a, b \in others : \A d \in Days :
                     ({a, b} \subseteq OnDay(nodes, c, d) /\ nodes[a].order < nodes[b].order)
                     => nodes'[a].order < nodes'[b].order
                /\ \A a \in others \cap OnDay(nodes, c, Day(p)) :
                     (req[p].saw.order <= nodes[a].order)
                     = (nodes'[n].order < nodes'[a].order)
<1>1. WorkInit => Followed
  BY FlowInit, AccessInit, AgentStart, TimeStart, KeepStart
<1>2. Followed /\ [Next]_vars => Followed'
  BY FlowStep, AccessNext, AgentNext, TimeNext, KeepNext
<1>3. ASSUME Followed, [Next]_vars, NEW p \in Slots, At(p, "commit_node"),
             At(p, "refetch")', Resequences(p), crossed = {}
      PROVE  Whole(p)
  <2> DEFINE n == req[p].arg.node
             c == req[p].case
             days == {Day(p), OldDay(p)}
             others == NodeIds \ {n}
  <2>1. PICK view, moved : view = View(req[p]) /\ moved = Moved(req[p])
    OBVIOUS
  <2>2. nodes' = view
    <3>1. CommitNode(p)
      BY <1>3, ShiftLeaves
    <3>2. req[p].op \in Shifts
      BY <1>3, InShift DEF At, Spread
    <3> QED
      BY <1>3, <2>1, <3>1, <3>2, SeenRows DEF CommitNode
  <2>3. /\ view \in [NodeIds -> NodeRow] /\ moved \in [NodeIds -> NodeRow]
        /\ nodes \in [NodeIds -> NodeRow]
        /\ n \in OnDay(moved, c, Day(p)) /\ moved[n].order = req[p].saw.order
        /\ \A m \in others : moved[m] = nodes[m]
        /\ \A d \in days : DayNumbered(view, moved, c, d, FirstOf(req[p], d))
        /\ \A m \in NodeIds :
              (\A d \in days : m \notin OnDay(moved, c, d)) => view[m] = moved[m]
        /\ FirstOf(req[p], Day(p)) = n
    BY <1>3, <2>1, MoveEnds DEF FirstOf
  <2> HIDE DEF n, c, days, others
  <2>4. ASSUME NEW d \in days
        PROVE  LET day == OnDay(moved, c, d) IN
               /\ \A m \in day : \E i \in 1 .. Cardinality(day) :
                     view[m] = [moved[m] EXCEPT !.order = 100 * i]
               /\ \A i \in 1 .. Cardinality(day) : \E m \in day : view[m].order = 100 * i
               /\ \A a, b \in day : a # b =>
                     (view[a].order < view[b].order
                         <=> Before(moved, FirstOf(req[p], d), a, b))
    <3>1. PICK first : first = FirstOf(req[p], d)
      OBVIOUS
    <3>2. DayNumbered(view, moved, c, d, first)
      BY <2>3, <3>1
    <3> QED
      BY <2>3, <3>1, <3>2, NumberedDay
  <2>5. ASSUME NEW m \in NodeIds
        PROVE  view[m] = [moved[m] EXCEPT !.order = view[m].order]
    <3>1. moved[m] \in NodeRow
      BY <2>3
    <3>2. CASE \E d \in days : m \in OnDay(moved, c, d)
      <4>1. PICK i : view[m] = [moved[m] EXCEPT !.order = 100 * i]
        BY <2>4, <3>2
      <4> QED
        BY <3>1, <4>1 DEF NodeRow
    <3>3. CASE \A d \in days : m \notin OnDay(moved, c, d)
      BY <2>3, <3>1, <3>3 DEF NodeRow
    <3> QED
      BY <3>2, <3>3
  <2>6. ASSUME NEW m \in NodeIds
        PROVE  /\ view[m].status = moved[m].status /\ view[m].case = moved[m].case
               /\ view[m].day = moved[m].day
    <3>1. moved[m] \in NodeRow
      BY <2>3
    <3> QED
      BY <2>5, <3>1 DEF NodeRow
  <2>7. nodes'[n].day = Day(p)
    BY <2>2, <2>3, <2>6 DEF OnDay
  <2>8. ASSUME NEW a \in others
        PROVE  nodes'[a] = [nodes[a] EXCEPT !.order = nodes'[a].order]
    BY <2>2, <2>3, <2>5, <2>8 DEF others
  <2>9. ASSUME NEW d \in days
        PROVE  LET there == OnDay(nodes', c, d) IN
               {nodes'[a].order : a \in there} = {100 * i : i \in 1 .. Cardinality(there)}
    <3>1. OnDay(nodes', c, d) = OnDay(moved, c, d)
      BY <2>2, <2>6 DEF OnDay
    <3>2. PICK day : day = OnDay(moved, c, d)
      OBVIOUS
    <3>3. PICK k : k = Cardinality(day)
      OBVIOUS
    <3>4. \A i \in 1 .. k : \E m \in day : view[m].order = 100 * i
      BY <2>4, <3>2, <3>3
    <3>5. ASSUME NEW m \in day PROVE \E i \in 1 .. k : view[m].order = 100 * i
      <4>1. m \in NodeIds /\ moved[m] \in NodeRow
        BY <2>3, <3>2 DEF OnDay
      <4>2. PICK i \in 1 .. k : view[m] = [moved[m] EXCEPT !.order = 100 * i]
        BY <2>4, <3>2, <3>3
      <4> QED
        BY <4>1, <4>2 DEF NodeRow
    <3>6. {view[a].order : a \in day} = {100 * i : i \in 1 .. k}
      BY <3>4, <3>5
    <3> QED
      BY <2>2, <3>1, <3>2, <3>3, <3>6
  <2>10. ASSUME NEW a \in others, NEW b \in others, NEW d \in Days,
                {a, b} \subseteq OnDay(nodes, c, d), nodes[a].order < nodes[b].order
         PROVE  nodes'[a].order < nodes'[b].order
    <3>1. /\ a \in OnDay(moved, c, d) /\ b \in OnDay(moved, c, d)
          /\ moved[a] = nodes[a] /\ moved[b] = nodes[b]
          /\ a \in NodeIds /\ b \in NodeIds
      BY <2>3, <2>10 DEF OnDay, others
    <3>2. a # b
      <4>1. nodes[a].order \in Nat
        BY <2>3, <3>1 DEF NodeRow
      <4> QED
        BY <2>10, <4>1
    <3>3. CASE d \in days
      <4>1. PICK first : first = FirstOf(req[p], d)
        OBVIOUS
      <4>2. Before(moved, first, a, b)
        BY <2>10, <3>1 DEF Before
      <4> QED
        BY <2>2, <2>4, <3>1, <3>2, <3>3, <4>1, <4>2
    <3>4. CASE d \notin days
      <4>1. \A e \in days : a \notin OnDay(moved, c, e) /\ b \notin OnDay(moved, c, e)
        BY <3>1, <3>4 DEF OnDay
      <4>2. view[a] = moved[a] /\ view[b] = moved[b]
        BY <2>3, <3>1, <4>1
      <4> QED
        BY <2>2, <2>10, <3>1, <4>2
    <3> QED
      BY <3>3, <3>4
  <2>11. ASSUME NEW a \in others \cap OnDay(nodes, c, Day(p))
         PROVE  (req[p].saw.order <= nodes[a].order)
                = (nodes'[n].order < nodes'[a].order)
    <3>1. /\ a \in OnDay(moved, c, Day(p)) /\ moved[a] = nodes[a] /\ a # n
          /\ a \in NodeIds /\ n \in NodeIds
      BY <2>3, <2>11 DEF OnDay, others
    <3>2. moved[a].order \in Nat /\ moved[n].order \in Nat
      BY <2>3, <3>1 DEF NodeRow
    <3>3. PICK new : new = Day(p)
      OBVIOUS
    <3>4. new \in days
      BY <3>3 DEF days
    <3>5. FirstOf(req[p], new) = n /\ n \in OnDay(moved, c, new) /\ a \in OnDay(moved, c, new)
      BY <2>3, <3>1, <3>3
    <3>6. view[n].order < view[a].order <=> Before(moved, n, n, a)
      BY <2>4, <3>1, <3>4, <3>5
    <3>7. Before(moved, n, n, a) <=> moved[n].order <= moved[a].order
      BY <3>1, <3>2 DEF Before
    <3>8. view[n].order < view[a].order <=> req[p].saw.order <= nodes[a].order
      BY <2>3, <3>1, <3>6, <3>7
    <3>9. (view[n].order < view[a].order) \in BOOLEAN
          /\ (req[p].saw.order <= nodes[a].order) \in BOOLEAN
      OBVIOUS
    <3> QED
      BY <2>2, <3>8, <3>9
  <2> QED
    BY <2>7, <2>8, <2>9, <2>10, <2>11 DEF n, c, days, others
<1>4. Followed /\ [Next]_vars
         => [\A p \in Slots :
               (/\ At(p, "commit_node") /\ At(p, "refetch")'
                /\ Resequences(p) /\ crossed = {})
               => Whole(p)]_<<req, nodes, crossed>>
  BY <1>3
<1> QED
  BY <1>1, <1>2, <1>4, PTL DEF Spec, MoveKeepsOrder
=============================================================================

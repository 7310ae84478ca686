-------------------------- MODULE RemTopology_proofs --------------------------
(***************************************************************************)
(* Proofs about RemTopology, for any ids, reports, limits and bounds.      *)
(***************************************************************************)
EXTENDS RemTopology, SequenceTheorems, WellFoundedInduction, TLAPS

---------------------------------------------------------------------------
(* Looking up.                                                             *)

\* The calls only read and make graphs of this type.
TypedGraph(g) ==
  /\ g \in [node : Seq([id : ID, age : Ages]),
            edge : Seq([source : Nat, target : Nat, age : Ages]),
            Nodes : Seq(Nat), Edges : Seq(Nat)]
  /\ \A r \in 1..Len(g.edge) : {g.edge[r].source, g.edge[r].target} \subseteq 1..Len(g.node)
  /\ \A k \in 1..Len(g.Nodes) : g.Nodes[k] \in 0..Len(g.node)
  /\ \A k \in 1..Len(g.Edges) : g.Edges[k] \in 0..Len(g.edge)

\* Outside a pass neither list has a nil.
NoNil(g) ==
  /\ \A k \in 1..Len(g.Nodes) : g.Nodes[k] # Nil
  /\ \A k \in 1..Len(g.Edges) : g.Edges[k] # Nil

\* A set of positions has a last one.
LEMMA LastExists ==
  ASSUME NEW n \in Nat, NEW F \in SUBSET (1..n), F # {}
  PROVE  \E k \in F : \A l \in F : l <= k
  <1>. DEFINE T == {n - k : k \in F}
  <1>1. T \subseteq Nat /\ T # {}
    <2>1. ASSUME NEW k \in F PROVE n - k \in Nat /\ n - k \in T
      <3>1. k \in 1..n
        OBVIOUS
      <3>. QED BY <3>1
    <2>. QED BY <2>1
  <1>2. PICK x \in T : \A y \in T : ~(<<y, x>> \in OpToRel(<, Nat))
    BY <1>1, WFMin, NatLessThanWellFounded, Zenon
  <1>3. \A y \in T : ~(y < x)
    BY <1>1, <1>2 DEF OpToRel
  <1>4. PICK k \in F : x = n - k
    BY <1>2, Zenon
  <1>5. \A l \in F : n - l \in T
    OBVIOUS
  <1>6. \A l \in F : ~(n - l < n - k)
    BY <1>3, <1>4, <1>5
  <1>. QED BY <1>6

\* GetNodeFromID returns a listed node with the id, nil if there is none.
LEMMA NodeFound ==
  ASSUME NEW g, TypedGraph(g), NEW x
  PROVE  \/ /\ GetNodeFromID(g, x) = Nil
            /\ \A k \in 1..Len(g.Nodes) : g.node[g.Nodes[k]].id # x
         \/ \E k \in 1..Len(g.Nodes) :
              GetNodeFromID(g, x) = g.Nodes[k] /\ g.node[g.Nodes[k]].id = x
  <1>. DEFINE found == {k \in DOMAIN g.Nodes : g.node[g.Nodes[k]].id = x}
  <1>1. DOMAIN g.Nodes = 1..Len(g.Nodes) /\ Len(g.Nodes) \in Nat
    BY DEF TypedGraph
  <1>2. GetNodeFromID(g, x) =
          IF found = {} THEN Nil
                        ELSE g.Nodes[CHOOSE k \in found : \A l \in found : l <= k]
    BY DEF GetNodeFromID, LastOf
  <1>3. CASE found = {}
    BY <1>1, <1>2, <1>3
  <1>4. CASE found # {}
    <2>1. \E k \in found : \A l \in found : l <= k
      BY <1>1, <1>4, LastExists, Zenon
    <2>. QED BY <1>1, <1>2, <1>4, <2>1
  <1>. QED BY <1>3, <1>4

\* No listed edge links the ids.
NoLink(g, x, y) ==
  \A k \in 1..Len(g.Edges) :
    ~(/\ g.node[g.edge[g.Edges[k]].source].id = x
      /\ g.node[g.edge[g.Edges[k]].target].id = y)

\* GetEdgeFromID likewise.
LEMMA EdgeFound ==
  ASSUME NEW g, TypedGraph(g), NEW x, NEW y
  PROVE  \/ GetEdgeFromID(g, x, y) = Nil /\ NoLink(g, x, y)
         \/ \E k \in 1..Len(g.Edges) :
              /\ GetEdgeFromID(g, x, y) = g.Edges[k]
              /\ g.node[g.edge[g.Edges[k]].source].id = x
              /\ g.node[g.edge[g.Edges[k]].target].id = y
  <1>. DEFINE found == {k \in DOMAIN g.Edges : /\ g.node[g.edge[g.Edges[k]].source].id = x
                                               /\ g.node[g.edge[g.Edges[k]].target].id = y}
  <1>1. DOMAIN g.Edges = 1..Len(g.Edges) /\ Len(g.Edges) \in Nat
    BY DEF TypedGraph
  <1>2. GetEdgeFromID(g, x, y) =
          IF found = {} THEN Nil
                        ELSE g.Edges[CHOOSE k \in found : \A l \in found : l <= k]
    BY DEF GetEdgeFromID, LastOf
  <1>3. CASE found = {}
    <2>1. NoLink(g, x, y)
      BY <1>1, <1>3, Zenon DEF NoLink
    <2>. QED BY <1>2, <1>3, <2>1, Zenon
  <1>4. CASE found # {}
    <2>1. \E k \in found : \A l \in found : l <= k
      BY <1>1, <1>4, LastExists
    <2>. DEFINE k == CHOOSE k \in found : \A l \in found : l <= k
    <2>2. k \in found
      BY <2>1, Zenon
    <2>3. GetEdgeFromID(g, x, y) = g.Edges[k]
      BY <1>2, <1>4, Zenon
    <2>. HIDE DEF k
    <2>4. /\ k \in 1..Len(g.Edges)
          /\ g.node[g.edge[g.Edges[k]].source].id = x
          /\ g.node[g.edge[g.Edges[k]].target].id = y
      BY <1>1, <2>2, Zenon
    <2>. QED BY <2>3, <2>4, Zenon
  <1>. QED BY <1>3, <1>4, Zenon

---------------------------------------------------------------------------
(* What the calls keep.                                                    *)

\* No id and no pair of ids is listed twice.
Once(g) ==
  /\ \A k, l \in 1..Len(g.Nodes) :
       /\ g.Nodes[k] # Nil /\ g.Nodes[l] # Nil
       /\ g.node[g.Nodes[k]].id = g.node[g.Nodes[l]].id
       => k = l
  /\ \A k, l \in 1..Len(g.Edges) :
       /\ g.Edges[k] # Nil /\ g.Edges[l] # Nil
       /\ g.node[g.edge[g.Edges[k]].source].id = g.node[g.edge[g.Edges[l]].source].id
       /\ g.node[g.edge[g.Edges[k]].target].id = g.node[g.edge[g.Edges[l]].target].id
       => k = l

\* A node with id x is listed that is not older than a.
HasNode(g, x, a) ==
  \E k \in 1..Len(g.Nodes) :
    g.Nodes[k] # Nil /\ g.node[g.Nodes[k]].id = x /\ g.node[g.Nodes[k]].age <= a

\* The nodes of a link are listed and not older than the link, by id: the node
\* objects the edge points to may have been deleted long ago.
Backed(g) ==
  \A k \in 1..Len(g.Edges) :
    LET e == g.edge[g.Edges[k]]
    IN g.Edges[k] # Nil /\ ~Expired(e.age) =>
         HasNode(g, g.node[e.source].id, e.age) /\ HasNode(g, g.node[e.target].id, e.age)

GoodGraph(g) == TypedGraph(g) /\ NoNil(g) /\ Once(g) /\ Backed(g)

\* Calls delete nothing, change no id and make nothing older.
Grown(g, h) ==
  /\ Len(g.node) <= Len(h.node) /\ Len(g.edge) <= Len(h.edge)
  /\ Len(g.Nodes) <= Len(h.Nodes) /\ Len(g.Edges) <= Len(h.Edges)
  /\ \A r \in 1..Len(g.node) : h.node[r].id = g.node[r].id /\ h.node[r].age <= g.node[r].age
  /\ \A k \in 1..Len(g.Nodes) : h.Nodes[k] = g.Nodes[k]
  /\ \A k \in 1..Len(g.Edges) : h.Edges[k] = g.Edges[k]

\* What TypedGraph says of the parts.
LEMMA GraphParts ==
  ASSUME NEW g, TypedGraph(g)
  PROVE  /\ g.node \in Seq([id : ID, age : Ages])
         /\ g.edge \in Seq([source : Nat, target : Nat, age : Ages])
         /\ g.Nodes \in Seq(Nat) /\ g.Edges \in Seq(Nat)
         /\ Len(g.node) \in Nat /\ Len(g.edge) \in Nat
         /\ Len(g.Nodes) \in Nat /\ Len(g.Edges) \in Nat
         /\ \A r \in 1..Len(g.node) : g.node[r] \in [id : ID, age : Ages]
         /\ \A r \in 1..Len(g.edge) : g.edge[r] \in [source : Nat, target : Nat, age : Ages]
  <1>1. /\ g.node \in Seq([id : ID, age : Ages])
        /\ g.edge \in Seq([source : Nat, target : Nat, age : Ages])
        /\ g.Nodes \in Seq(Nat) /\ g.Edges \in Seq(Nat)
    BY DEF TypedGraph
  <1>. QED BY <1>1, ElementOfSeq, LenProperties

LEMMA AgesAreNumbers == Ages \subseteq Nat /\ 0 \in Ages /\ DeleteAge \in Nat
  BY TopologyAssumption DEF Ages

LEMMA AgesOf ==
  ASSUME NEW g, TypedGraph(g)
  PROVE  /\ \A r \in 1..Len(g.node) : g.node[r].age \in Nat
         /\ \A r \in 1..Len(g.edge) : g.edge[r].age \in Nat
  <1>1. ASSUME NEW r \in 1..Len(g.node) PROVE g.node[r].age \in Nat
    <2>1. g.node[r] \in [id : ID, age : Ages]
      BY GraphParts
    <2>. QED BY <2>1, AgesAreNumbers
  <1>2. ASSUME NEW r \in 1..Len(g.edge) PROVE g.edge[r].age \in Nat
    <2>1. g.edge[r] \in [source : Nat, target : Nat, age : Ages]
      BY GraphParts
    <2>. QED BY <2>1, AgesAreNumbers
  <1>. QED BY <1>1, <1>2

LEMMA RefsOf ==
  ASSUME NEW g, TypedGraph(g)
  PROVE  /\ \A k \in 1..Len(g.Nodes) : g.Nodes[k] # Nil => g.Nodes[k] \in 1..Len(g.node)
         /\ \A k \in 1..Len(g.Edges) : g.Edges[k] # Nil => g.Edges[k] \in 1..Len(g.edge)
         /\ \A r \in 1..Len(g.edge) :
              g.edge[r].source \in 1..Len(g.node) /\ g.edge[r].target \in 1..Len(g.node)
  <1>1. Len(g.node) \in Nat /\ Len(g.edge) \in Nat
    BY GraphParts
  <1>2. /\ \A k \in 1..Len(g.Nodes) : g.Nodes[k] \in 0..Len(g.node)
        /\ \A k \in 1..Len(g.Edges) : g.Edges[k] \in 0..Len(g.edge)
    BY DEF TypedGraph
  <1>3. ASSUME NEW k \in 1..Len(g.Nodes), g.Nodes[k] # Nil PROVE g.Nodes[k] \in 1..Len(g.node)
    BY <1>1, <1>2, <1>3 DEF Nil
  <1>4. ASSUME NEW k \in 1..Len(g.Edges), g.Edges[k] # Nil PROVE g.Edges[k] \in 1..Len(g.edge)
    BY <1>1, <1>2, <1>4 DEF Nil
  <1>5. ASSUME NEW r \in 1..Len(g.edge)
        PROVE  g.edge[r].source \in 1..Len(g.node) /\ g.edge[r].target \in 1..Len(g.node)
    BY DEF TypedGraph
  <1>. QED BY <1>3, <1>4, <1>5

LEMMA GrownHas ==
  ASSUME NEW g, NEW h, TypedGraph(g), TypedGraph(h), Grown(g, h), NEW x, NEW a \in Nat,
         HasNode(g, x, a)
  PROVE  HasNode(h, x, a)
  <1>1. PICK k \in 1..Len(g.Nodes) :
          g.Nodes[k] # Nil /\ g.node[g.Nodes[k]].id = x /\ g.node[g.Nodes[k]].age <= a
    BY DEF HasNode
  <1>2. g.Nodes[k] \in 1..Len(g.node) /\ k \in 1..Len(h.Nodes) /\ h.Nodes[k] = g.Nodes[k]
    <2>1. g.Nodes[k] \in 0..Len(g.node) /\ g.Nodes[k] # 0
      BY <1>1 DEF TypedGraph, Nil
    <2>2. Len(g.node) \in Nat /\ Len(g.Nodes) \in Nat /\ Len(h.Nodes) \in Nat
      BY GraphParts
    <2>3. Len(g.Nodes) <= Len(h.Nodes) /\ h.Nodes[k] = g.Nodes[k]
      BY DEF Grown
    <2>. QED BY <2>1, <2>2, <2>3
  <1>3. h.node[g.Nodes[k]].id = x /\ h.node[g.Nodes[k]].age <= g.node[g.Nodes[k]].age
    BY <1>1, <1>2 DEF Grown
  <1>4. g.node[g.Nodes[k]].age \in Nat /\ h.node[g.Nodes[k]].age \in Nat
    <2>1. g.Nodes[k] \in 1..Len(h.node)
      <3>1. Len(g.node) \in Nat /\ Len(h.node) \in Nat /\ Len(g.node) <= Len(h.node)
        BY GraphParts DEF Grown
      <3>. QED BY <1>2, <3>1
    <2>2. /\ g.node[g.Nodes[k]] \in [id : ID, age : Ages]
          /\ h.node[g.Nodes[k]] \in [id : ID, age : Ages]
      BY <1>2, <2>1, GraphParts
    <2>. QED BY <2>2, AgesAreNumbers
  <1>5. h.node[h.Nodes[k]].id = x /\ h.node[h.Nodes[k]].age <= a /\ h.Nodes[k] # Nil
    <2>1. \A b, c \in Nat : b <= c /\ c <= a => b <= a
      OBVIOUS
    <2>. QED BY <1>1, <1>2, <1>3, <1>4, <2>1, Zenon
  <1>. QED BY <1>2, <1>5 DEF HasNode

\* The nodes change and the edges do not.
LEMMA BackedStays ==
  ASSUME NEW g, NEW h, GoodGraph(g), TypedGraph(h), Grown(g, h),
         h.edge = g.edge, h.Edges = g.Edges
  PROVE  Backed(h)
  <1>. SUFFICES ASSUME NEW k \in 1..Len(h.Edges), h.Edges[k] # Nil,
                       ~Expired(h.edge[h.Edges[k]].age)
                PROVE  LET e == h.edge[h.Edges[k]]
                       IN /\ HasNode(h, h.node[e.source].id, e.age)
                          /\ HasNode(h, h.node[e.target].id, e.age)
    BY DEF Backed
  <1>. DEFINE e == g.edge[g.Edges[k]]
  <1>1. g.Edges[k] \in 1..Len(g.edge)
    BY RefsOf DEF GoodGraph
  <1>2. e.source \in 1..Len(g.node) /\ e.target \in 1..Len(g.node) /\ e.age \in Nat
    BY <1>1, AgesOf, RefsOf DEF GoodGraph
  <1>3. HasNode(g, g.node[e.source].id, e.age) /\ HasNode(g, g.node[e.target].id, e.age)
    <2>1. k \in 1..Len(g.Edges) /\ g.Edges[k] # Nil /\ ~Expired(g.edge[g.Edges[k]].age)
      BY Zenon
    <2>. QED BY <2>1, Zenon DEF GoodGraph, Backed
  <1>4. h.node[e.source].id = g.node[e.source].id /\ h.node[e.target].id = g.node[e.target].id
    BY <1>2 DEF Grown
  <1>. QED BY <1>2, <1>3, <1>4, GrownHas, ZenonT(30) DEF GoodGraph

---------------------------------------------------------------------------
(* Nodes.                                                                  *)

\* A graph of which the nodes have changed.
LEMMA TypedNodes ==
  ASSUME NEW g, TypedGraph(g), NEW n \in Seq([id : ID, age : Ages]), NEW L \in Seq(Nat),
         Len(g.node) <= Len(n), \A k \in 1..Len(L) : L[k] \in 0..Len(n),
         NEW h, h = [node |-> n, edge |-> g.edge, Nodes |-> L, Edges |-> g.Edges]
  PROVE  TypedGraph(h)
  <1>1. /\ g.edge \in Seq([source : Nat, target : Nat, age : Ages]) /\ g.Edges \in Seq(Nat)
        /\ Len(g.node) \in Nat /\ Len(n) \in Nat
    BY GraphParts, LenProperties
  <1>2. h.node = n /\ h.edge = g.edge /\ h.Nodes = L /\ h.Edges = g.Edges
    OBVIOUS
  <1>3. h \in [node : Seq([id : ID, age : Ages]),
               edge : Seq([source : Nat, target : Nat, age : Ages]),
               Nodes : Seq(Nat), Edges : Seq(Nat)]
    BY <1>1
  <1>4. \A r \in 1..Len(g.edge) : {g.edge[r].source, g.edge[r].target} \subseteq 1..Len(n)
    <2>1. \A r \in 1..Len(g.edge) :
            g.edge[r].source \in 1..Len(g.node) /\ g.edge[r].target \in 1..Len(g.node)
      BY DEF TypedGraph
    <2>2. 1..Len(g.node) \subseteq 1..Len(n)
      BY <1>1
    <2>. QED BY <2>1, <2>2
  <1>5. \A k \in 1..Len(g.Edges) : g.Edges[k] \in 0..Len(g.edge)
    BY DEF TypedGraph
  <1>. QED BY <1>2, <1>3, <1>4, <1>5 DEF TypedGraph

\* A node object that is found gets young and stays the same otherwise.
LEMMA TouchedGood ==
  ASSUME NEW g, GoodGraph(g), NEW r \in 1..Len(g.node), NEW h, h = Touched(g, r)
  PROVE  /\ GoodGraph(h) /\ Grown(g, h)
         /\ h.node[r].age = 0 /\ Len(h.node) = Len(g.node)
         /\ h.edge = g.edge /\ h.Edges = g.Edges /\ h.Nodes = g.Nodes
  <1>0. TypedGraph(g)
    BY DEF GoodGraph
  <1>. DEFINE new == [g.node[r] EXCEPT !.age = 0]
              n == [g.node EXCEPT ![r] = new]
  <1>1. /\ g.node[r] \in [id : ID, age : Ages] /\ g.node \in Seq([id : ID, age : Ages])
        /\ Len(g.node) \in Nat /\ g.Nodes \in Seq(Nat)
    BY <1>0, GraphParts
  <1>2. new \in [id : ID, age : Ages] /\ new.id = g.node[r].id /\ new.age = 0
    BY <1>1, AgesAreNumbers
  <1>3. h = [node |-> n, edge |-> g.edge, Nodes |-> g.Nodes, Edges |-> g.Edges]
    BY <1>0 DEF Touched, TypedGraph
  <1>. HIDE DEF new
  <1>4. /\ n \in Seq([id : ID, age : Ages]) /\ Len(n) = Len(g.node)
        /\ \A q \in 1..Len(g.node) : n[q] = IF q = r THEN new ELSE g.node[q]
    BY <1>1, <1>2, ExceptSeq
  <1>. HIDE DEF n
  <1>5. h.node = n /\ h.edge = g.edge /\ h.Nodes = g.Nodes /\ h.Edges = g.Edges
    BY <1>3
  <1>6. TypedGraph(h)
    <2>1. \A k \in 1..Len(g.Nodes) : g.Nodes[k] \in 0..Len(n)
      BY <1>0, <1>4 DEF TypedGraph
    <2>2. Len(g.node) <= Len(n) /\ n \in Seq([id : ID, age : Ages]) /\ g.Nodes \in Seq(Nat)
      BY <1>1, <1>4
    <2>. QED BY <1>0, <1>3, <2>1, <2>2, TypedNodes, Zenon
  <1>7. \A q \in 1..Len(g.node) : n[q].id = g.node[q].id /\ n[q].age <= g.node[q].age
    <2>1. \A q \in 1..Len(g.node) : g.node[q].age \in Nat
      BY <1>0, AgesOf
    <2>. QED BY <1>2, <1>4, <2>1
  <1>8. Grown(g, h)
    <2>1. Len(g.edge) \in Nat /\ Len(g.Nodes) \in Nat /\ Len(g.Edges) \in Nat
      BY <1>0, GraphParts
    <2>. QED BY <1>1, <1>4, <1>5, <1>7, <2>1 DEF Grown
  <1>9. NoNil(h)
    BY <1>5, Zenon DEF GoodGraph, NoNil
  <1>10. Once(h)
    <2>1. \A k \in 1..Len(g.Nodes) : h.node[g.Nodes[k]].id = g.node[g.Nodes[k]].id
      <3>1. \A k \in 1..Len(g.Nodes) : g.Nodes[k] \in 1..Len(g.node)
        BY <1>0, RefsOf DEF GoodGraph, NoNil
      <3>. QED BY <1>5, <1>7, <3>1
    <2>2. \A k \in 1..Len(g.Edges) :
            /\ h.node[g.edge[g.Edges[k]].source].id = g.node[g.edge[g.Edges[k]].source].id
            /\ h.node[g.edge[g.Edges[k]].target].id = g.node[g.edge[g.Edges[k]].target].id
      <3>1. \A k \in 1..Len(g.Edges) : g.Edges[k] \in 1..Len(g.edge)
        BY <1>0, RefsOf DEF GoodGraph, NoNil
      <3>2. \A q \in 1..Len(g.edge) :
              g.edge[q].source \in 1..Len(g.node) /\ g.edge[q].target \in 1..Len(g.node)
        BY <1>0, RefsOf, Zenon
      <3>. QED BY <1>5, <1>7, <3>1, <3>2
    <2>3. ASSUME NEW k \in 1..Len(h.Nodes), NEW l \in 1..Len(h.Nodes),
                 h.Nodes[k] # Nil, h.Nodes[l] # Nil,
                 h.node[h.Nodes[k]].id = h.node[h.Nodes[l]].id
          PROVE  k = l
      <3>1. /\ k \in 1..Len(g.Nodes) /\ l \in 1..Len(g.Nodes)
            /\ g.Nodes[k] # Nil /\ g.Nodes[l] # Nil
            /\ g.node[g.Nodes[k]].id = g.node[g.Nodes[l]].id
        BY <1>5, <2>1, <2>3
      <3>. QED BY <3>1 DEF GoodGraph, Once
    <2>4. ASSUME NEW k \in 1..Len(h.Edges), NEW l \in 1..Len(h.Edges),
                 h.Edges[k] # Nil, h.Edges[l] # Nil,
                 h.node[h.edge[h.Edges[k]].source].id = h.node[h.edge[h.Edges[l]].source].id,
                 h.node[h.edge[h.Edges[k]].target].id = h.node[h.edge[h.Edges[l]].target].id
          PROVE  k = l
      <3>1. k \in 1..Len(g.Edges) /\ l \in 1..Len(g.Edges) /\ g.Edges[k] # Nil /\ g.Edges[l] # Nil
        BY <1>5, <2>4
      <3>2. /\ g.node[g.edge[g.Edges[k]].source].id = g.node[g.edge[g.Edges[l]].source].id
            /\ g.node[g.edge[g.Edges[k]].target].id = g.node[g.edge[g.Edges[l]].target].id
        BY <1>5, <2>2, <2>4, <3>1, Zenon
      <3>. QED BY <3>1, <3>2, Zenon DEF GoodGraph, Once
    <2>. QED BY <2>3, <2>4, ZenonT(30) DEF Once
  <1>11. Backed(h)
    BY <1>5, <1>6, <1>8, BackedStays
  <1>12. h.node[r].age = 0
    BY <1>2, <1>4, <1>5
  <1>. QED BY <1>4, <1>5, <1>6, <1>8, <1>9, <1>10, <1>11, <1>12 DEF GoodGraph

\* One that is not found is made, young, and listed last.
WithNode(g, x) == [g EXCEPT !.node = Append(@, [id |-> x, age |-> 0]),
                            !.Nodes = Append(@, Len(g.node) + 1)]

LEMMA CreatedGood ==
  ASSUME NEW g, GoodGraph(g), NEW x \in ID, GetNodeFromID(g, x) = Nil,
         NEW h, h = WithNode(g, x)
  PROVE  /\ GoodGraph(h) /\ Grown(g, h) /\ HasNode(h, x, 0)
         /\ h.edge = g.edge /\ h.Edges = g.Edges
  <1>0. TypedGraph(g)
    BY DEF GoodGraph
  <1>. DEFINE new == [id |-> x, age |-> 0]
              n == Append(g.node, new)
              L == Append(g.Nodes, Len(g.node) + 1)
  <1>1. /\ g.node \in Seq([id : ID, age : Ages]) /\ g.Nodes \in Seq(Nat)
        /\ Len(g.node) \in Nat /\ Len(g.Nodes) \in Nat
    BY <1>0, GraphParts
  <1>2. new \in [id : ID, age : Ages] /\ new.id = x /\ new.age = 0
    BY AgesAreNumbers
  <1>3. h = [node |-> n, edge |-> g.edge, Nodes |-> L, Edges |-> g.Edges]
    BY <1>0 DEF WithNode, TypedGraph
  <1>. HIDE DEF new
  <1>4. /\ n \in Seq([id : ID, age : Ages]) /\ Len(n) = Len(g.node) + 1
        /\ n[Len(g.node) + 1] = new
        /\ \A q \in 1..Len(g.node) : n[q] = g.node[q]
    BY <1>1, <1>2
  <1>5. /\ L \in Seq(Nat) /\ Len(L) = Len(g.Nodes) + 1
        /\ L[Len(g.Nodes) + 1] = Len(g.node) + 1
        /\ \A k \in 1..Len(g.Nodes) : L[k] = g.Nodes[k]
    BY <1>1
  <1>. HIDE DEF n, L
  <1>6. h.node = n /\ h.edge = g.edge /\ h.Nodes = L /\ h.Edges = g.Edges
    BY <1>3
  <1>7. \A k \in 1..Len(g.Nodes) : g.Nodes[k] \in 1..Len(g.node)
    BY <1>0, RefsOf DEF GoodGraph, NoNil
  <1>8. \A k \in 1..Len(L) : k \in 1..Len(g.Nodes) \/ k = Len(g.Nodes) + 1
    BY <1>1, <1>5
  <1>9. ASSUME NEW k \in 1..Len(L) PROVE L[k] \in 1..Len(n)
    <2>1. CASE k \in 1..Len(g.Nodes)
      <3>1. L[k] \in 1..Len(g.node)
        BY <1>5, <1>7, <2>1
      <3>. QED BY <1>1, <1>4, <3>1
    <2>2. CASE k = Len(g.Nodes) + 1
      BY <1>1, <1>4, <1>5, <2>2
    <2>. QED BY <1>8, <2>1, <2>2
  <1>10. TypedGraph(h)
    <2>1. \A k \in 1..Len(L) : L[k] \in 0..Len(n)
      BY <1>9
    <2>2. Len(g.node) <= Len(n) /\ n \in Seq([id : ID, age : Ages]) /\ L \in Seq(Nat)
      BY <1>1, <1>4, <1>5
    <2>. QED BY <1>0, <1>3, <2>1, <2>2, TypedNodes, Zenon
  <1>11. Grown(g, h)
    <2>1. Len(g.edge) \in Nat /\ Len(g.Edges) \in Nat
      BY <1>0, GraphParts
    <2>2. \A q \in 1..Len(g.node) : g.node[q].age \in Nat
      BY <1>0, AgesOf
    <2>. QED BY <1>1, <1>4, <1>5, <1>6, <2>1, <2>2 DEF Grown
  <1>12. NoNil(h)
    <2>1. \A k \in 1..Len(L) : L[k] # Nil
      BY <1>9 DEF Nil
    <2>. QED BY <1>6, <2>1 DEF GoodGraph, NoNil
  <1>13. HasNode(h, x, 0)
    <2>1. Len(g.Nodes) + 1 \in 1..Len(L) /\ L[Len(g.Nodes) + 1] # Nil
      BY <1>1, <1>5 DEF Nil
    <2>2. n[L[Len(g.Nodes) + 1]].id = x /\ n[L[Len(g.Nodes) + 1]].age <= 0
      BY <1>2, <1>4, <1>5
    <2>. QED BY <1>6, <2>1, <2>2 DEF HasNode
  <1>14. \A k, l \in 1..Len(L) : n[L[k]].id = n[L[l]].id => k = l
    <2>1. \A k \in 1..Len(g.Nodes) : g.node[g.Nodes[k]].id # x
      <3>1. \A k \in 1..Len(g.Nodes) : g.Nodes[k] # Nil
        BY <1>7 DEF Nil
      <3>. QED BY <1>0, <3>1, NodeFound
    <2>2. \A k \in 1..Len(g.Nodes) : n[L[k]].id = g.node[g.Nodes[k]].id
      BY <1>4, <1>5, <1>7, Zenon
    <2>3. n[L[Len(g.Nodes) + 1]].id = x
      BY <1>2, <1>4, <1>5, Zenon
    <2>4. \A k, l \in 1..Len(g.Nodes) :
            g.node[g.Nodes[k]].id = g.node[g.Nodes[l]].id => k = l
      BY <1>7 DEF GoodGraph, Once, Nil
    <2>. QED BY <1>8, <2>1, <2>2, <2>3, <2>4
  <1>15. Once(h)
    <2>1. \A k \in 1..Len(g.Edges) :
            /\ n[g.edge[g.Edges[k]].source].id = g.node[g.edge[g.Edges[k]].source].id
            /\ n[g.edge[g.Edges[k]].target].id = g.node[g.edge[g.Edges[k]].target].id
      <3>1. \A k \in 1..Len(g.Edges) : g.Edges[k] \in 1..Len(g.edge)
        BY <1>0, RefsOf DEF GoodGraph, NoNil
      <3>2. \A q \in 1..Len(g.edge) :
              g.edge[q].source \in 1..Len(g.node) /\ g.edge[q].target \in 1..Len(g.node)
        BY <1>0 DEF TypedGraph
      <3>. QED BY <1>4, <3>1, <3>2
    <2>2. ASSUME NEW k \in 1..Len(g.Edges), NEW l \in 1..Len(g.Edges),
                 g.Edges[k] # Nil, g.Edges[l] # Nil,
                 n[g.edge[g.Edges[k]].source].id = n[g.edge[g.Edges[l]].source].id,
                 n[g.edge[g.Edges[k]].target].id = n[g.edge[g.Edges[l]].target].id
          PROVE  k = l
      <3>1. /\ g.node[g.edge[g.Edges[k]].source].id = g.node[g.edge[g.Edges[l]].source].id
            /\ g.node[g.edge[g.Edges[k]].target].id = g.node[g.edge[g.Edges[l]].target].id
        BY <2>1, <2>2, Zenon
      <3>. QED BY <2>2, <3>1, Zenon DEF GoodGraph, Once
    <2>. QED BY <1>6, <1>14, <2>2 DEF Once
  <1>16. Backed(h)
    BY <1>6, <1>10, <1>11, BackedStays
  <1>. QED BY <1>6, <1>10, <1>11, <1>12, <1>13, <1>15, <1>16 DEF GoodGraph

\* ObtainNode.
LEMMA ObtainNodeGood ==
  ASSUME NEW g, GoodGraph(g), NEW x \in ID, NEW h, h = ObtainNode(g, x)
  PROVE  /\ GoodGraph(h) /\ Grown(g, h) /\ HasNode(h, x, 0)
         /\ h.edge = g.edge /\ h.Edges = g.Edges
  <1>. DEFINE r == GetNodeFromID(g, x)
  <1>0. TypedGraph(g)
    BY DEF GoodGraph
  <1>1. CASE r = Nil
    <2>1. h = WithNode(g, x)
      BY <1>1 DEF ObtainNode, WithNode
    <2>. QED BY <1>1, <2>1, CreatedGood
  <1>2. CASE r # Nil
    <2>1. h = Touched(g, r)
      BY <1>2 DEF ObtainNode
    <2>2. PICK k \in 1..Len(g.Nodes) : r = g.Nodes[k] /\ g.node[g.Nodes[k]].id = x
      BY <1>0, <1>2, NodeFound
    <2>3. r \in 1..Len(g.node)
      BY <1>0, <1>2, <2>2, RefsOf
    <2>4. /\ GoodGraph(h) /\ Grown(g, h) /\ h.node[r].age = 0
          /\ h.edge = g.edge /\ h.Edges = g.Edges /\ h.Nodes = g.Nodes
      BY <2>1, <2>3, TouchedGood
    <2>5. h.Nodes[k] # Nil /\ h.node[h.Nodes[k]].id = x /\ h.node[h.Nodes[k]].age <= 0
      BY <1>2, <2>2, <2>3, <2>4 DEF Grown
    <2>6. k \in 1..Len(h.Nodes)
      BY <2>4
    <2>. QED BY <2>4, <2>5, <2>6 DEF HasNode
  <1>. QED BY <1>1, <1>2

---------------------------------------------------------------------------
(* Edges.                                                                  *)

\* A graph of which the edges have changed.
LEMMA TypedEdges ==
  ASSUME NEW g, TypedGraph(g), NEW n \in Seq([source : Nat, target : Nat, age : Ages]),
         NEW L \in Seq(Nat),
         \A r \in 1..Len(n) : n[r].source \in 1..Len(g.node) /\ n[r].target \in 1..Len(g.node),
         \A k \in 1..Len(L) : L[k] \in 0..Len(n),
         NEW h, h = [node |-> g.node, edge |-> n, Nodes |-> g.Nodes, Edges |-> L]
  PROVE  TypedGraph(h)
  <1>1. g.node \in Seq([id : ID, age : Ages]) /\ g.Nodes \in Seq(Nat)
    BY GraphParts
  <1>2. h.node = g.node /\ h.edge = n /\ h.Nodes = g.Nodes /\ h.Edges = L
    OBVIOUS
  <1>3. h \in [node : Seq([id : ID, age : Ages]),
               edge : Seq([source : Nat, target : Nat, age : Ages]),
               Nodes : Seq(Nat), Edges : Seq(Nat)]
    BY <1>1
  <1>4. \A r \in 1..Len(n) : {n[r].source, n[r].target} \subseteq 1..Len(g.node)
    OBVIOUS
  <1>5. \A k \in 1..Len(g.Nodes) : g.Nodes[k] \in 0..Len(g.node)
    BY DEF TypedGraph
  <1>. QED BY <1>2, <1>3, <1>4, <1>5 DEF TypedGraph

WithYoung(g, r) == [g EXCEPT !.edge[r].age = 0]

\* A link that is found gets young, when its nodes already are.
LEMMA YoungGood ==
  ASSUME NEW g, GoodGraph(g), NEW r \in 1..Len(g.edge), NEW h, h = WithYoung(g, r),
         HasNode(g, g.node[g.edge[r].source].id, 0),
         HasNode(g, g.node[g.edge[r].target].id, 0)
  PROVE  GoodGraph(h) /\ Grown(g, h) /\ h.node = g.node
  <1>0. TypedGraph(g)
    BY DEF GoodGraph
  <1>. DEFINE new == [g.edge[r] EXCEPT !.age = 0]
              n == [g.edge EXCEPT ![r] = new]
  <1>1. /\ g.edge[r] \in [source : Nat, target : Nat, age : Ages]
        /\ g.edge \in Seq([source : Nat, target : Nat, age : Ages])
        /\ Len(g.edge) \in Nat /\ g.Edges \in Seq(Nat)
    BY <1>0, GraphParts
  <1>2. /\ new \in [source : Nat, target : Nat, age : Ages]
        /\ new.source = g.edge[r].source /\ new.target = g.edge[r].target /\ new.age = 0
    BY <1>1, AgesAreNumbers
  <1>3. h = [node |-> g.node, edge |-> n, Nodes |-> g.Nodes, Edges |-> g.Edges]
    BY <1>0 DEF WithYoung, TypedGraph
  <1>. HIDE DEF new
  <1>4. /\ n \in Seq([source : Nat, target : Nat, age : Ages]) /\ Len(n) = Len(g.edge)
        /\ \A q \in 1..Len(g.edge) : n[q] = IF q = r THEN new ELSE g.edge[q]
    <2>. DEFINE E == [source : Nat, target : Nat, age : Ages]
    <2>1. g.edge \in Seq(E) /\ new \in E
      BY <1>1, <1>2, Zenon
    <2>. HIDE DEF E
    <2>2. n \in Seq(E) /\ Len(n) = Len(g.edge)
          /\ \A q \in 1..Len(g.edge) : n[q] = IF q = r THEN new ELSE g.edge[q]
      BY <2>1, ExceptSeq
    <2>. QED BY <2>2 DEF E
  <1>. HIDE DEF n
  <1>5. h.node = g.node /\ h.edge = n /\ h.Nodes = g.Nodes /\ h.Edges = g.Edges
    BY <1>3
  <1>6. \A q \in 1..Len(n) : n[q].source = g.edge[q].source /\ n[q].target = g.edge[q].target
    BY <1>2, <1>4
  <1>7. TypedGraph(h)
    <2>1. \A q \in 1..Len(n) : n[q].source \in 1..Len(g.node) /\ n[q].target \in 1..Len(g.node)
      BY <1>0, <1>4, <1>6 DEF TypedGraph
    <2>2. \A k \in 1..Len(g.Edges) : g.Edges[k] \in 0..Len(n)
      BY <1>0, <1>4 DEF TypedGraph
    <2>3. n \in Seq([source : Nat, target : Nat, age : Ages]) /\ g.Edges \in Seq(Nat)
      BY <1>1, <1>4
    <2>. QED BY <1>0, <1>3, <2>1, <2>2, <2>3, TypedEdges, Zenon
  <1>8. Grown(g, h)
    <2>1. Len(g.node) \in Nat /\ Len(g.Nodes) \in Nat /\ Len(g.Edges) \in Nat
      BY <1>0, GraphParts
    <2>2. \A q \in 1..Len(g.node) : g.node[q].age \in Nat
      BY <1>0, AgesOf
    <2>3. Len(g.node) <= Len(h.node) /\ Len(g.edge) <= Len(h.edge)
          /\ Len(g.Nodes) <= Len(h.Nodes) /\ Len(g.Edges) <= Len(h.Edges)
      BY <1>1, <1>4, <1>5, <2>1
    <2>4. \A q \in 1..Len(g.node) : h.node[q].id = g.node[q].id /\ h.node[q].age <= g.node[q].age
      BY <1>5, <2>2
    <2>. QED BY <1>5, <2>3, <2>4 DEF Grown
  <1>9. NoNil(h)
    BY <1>5, Zenon DEF GoodGraph, NoNil
  <1>10. \A k \in 1..Len(g.Edges) : g.Edges[k] \in 1..Len(n)
    <2>1. \A k \in 1..Len(g.Edges) : g.Edges[k] \in 1..Len(g.edge)
      BY <1>0, RefsOf DEF GoodGraph, NoNil
    <2>. QED BY <1>4, <2>1
  <1>11. Once(h)
    <2>1. ASSUME NEW k \in 1..Len(h.Edges), NEW l \in 1..Len(h.Edges),
                 h.Edges[k] # Nil, h.Edges[l] # Nil,
                 h.node[h.edge[h.Edges[k]].source].id = h.node[h.edge[h.Edges[l]].source].id,
                 h.node[h.edge[h.Edges[k]].target].id = h.node[h.edge[h.Edges[l]].target].id
          PROVE  k = l
      <3>0. /\ k \in 1..Len(g.Edges) /\ l \in 1..Len(g.Edges)
            /\ g.Edges[k] # Nil /\ g.Edges[l] # Nil
            /\ g.node[n[g.Edges[k]].source].id = g.node[n[g.Edges[l]].source].id
            /\ g.node[n[g.Edges[k]].target].id = g.node[n[g.Edges[l]].target].id
        BY <1>5, <2>1
      <3>1. /\ g.node[g.edge[g.Edges[k]].source].id = g.node[g.edge[g.Edges[l]].source].id
            /\ g.node[g.edge[g.Edges[k]].target].id = g.node[g.edge[g.Edges[l]].target].id
        BY <1>6, <1>10, <3>0, Zenon
      <3>. QED BY <3>0, <3>1, ZenonT(30) DEF GoodGraph, Once
    <2>2. ASSUME NEW k \in 1..Len(h.Nodes), NEW l \in 1..Len(h.Nodes),
                 h.Nodes[k] # Nil, h.Nodes[l] # Nil,
                 h.node[h.Nodes[k]].id = h.node[h.Nodes[l]].id
          PROVE  k = l
      <3>1. /\ k \in 1..Len(g.Nodes) /\ l \in 1..Len(g.Nodes)
            /\ g.Nodes[k] # Nil /\ g.Nodes[l] # Nil
            /\ g.node[g.Nodes[k]].id = g.node[g.Nodes[l]].id
        BY <1>5, <2>2, Zenon
      <3>. QED BY <3>1, Zenon DEF GoodGraph, Once
    <2>. QED BY <2>1, <2>2, ZenonT(30) DEF Once
  <1>12. \A x, a : HasNode(g, x, a) => HasNode(h, x, a)
    BY <1>5 DEF HasNode
  <1>13. Backed(h)
    <2>. SUFFICES ASSUME NEW k \in 1..Len(h.Edges), h.Edges[k] # Nil,
                         ~Expired(h.edge[h.Edges[k]].age)
                  PROVE  LET e == h.edge[h.Edges[k]]
                         IN /\ HasNode(h, h.node[e.source].id, e.age)
                            /\ HasNode(h, h.node[e.target].id, e.age)
      BY Zenon DEF Backed
    <2>0. /\ k \in 1..Len(g.Edges) /\ g.Edges[k] # Nil /\ ~Expired(n[g.Edges[k]].age)
          /\ h.edge[h.Edges[k]] = n[g.Edges[k]] /\ h.node = g.node
      BY <1>5
    <2>1. CASE g.Edges[k] = r
      <3>1. n[g.Edges[k]] = new
        BY <1>4, <2>1
      <3>. QED BY <1>2, <1>12, <2>0, <3>1
    <2>2. CASE g.Edges[k] # r
      <3>1. n[g.Edges[k]] = g.edge[g.Edges[k]]
        BY <1>4, <1>10, <2>0, <2>2
      <3>2. /\ HasNode(g, g.node[g.edge[g.Edges[k]].source].id, g.edge[g.Edges[k]].age)
            /\ HasNode(g, g.node[g.edge[g.Edges[k]].target].id, g.edge[g.Edges[k]].age)
        BY <2>0, <3>1, Zenon DEF GoodGraph, Backed
      <3>. QED BY <1>12, <2>0, <3>1, <3>2, Zenon
    <2>. QED BY <2>1, <2>2, Zenon
  <1>. QED BY <1>5, <1>7, <1>8, <1>9, <1>11, <1>13 DEF GoodGraph

\* One that is not found is made, young, and listed last.
WithEdge(g, p, q, r) ==
  [g EXCEPT !.edge = Append(@, [source |-> p, target |-> q, age |-> 0]),
            !.Edges = Append(@, r + 1)]

LEMMA LinkedGood ==
  ASSUME NEW g, GoodGraph(g), NEW p \in 1..Len(g.node), NEW q \in 1..Len(g.node),
         HasNode(g, g.node[p].id, 0), HasNode(g, g.node[q].id, 0),
         NoLink(g, g.node[p].id, g.node[q].id),
         NEW h, h = WithEdge(g, p, q, Len(g.edge))
  PROVE  GoodGraph(h) /\ Grown(g, h) /\ h.node = g.node
  <1>0. TypedGraph(g)
    BY DEF GoodGraph
  <1>. DEFINE new == [source |-> p, target |-> q, age |-> 0]
              n == Append(g.edge, new)
              L == Append(g.Edges, Len(g.edge) + 1)
  <1>1. /\ g.edge \in Seq([source : Nat, target : Nat, age : Ages]) /\ g.Edges \in Seq(Nat)
        /\ Len(g.edge) \in Nat /\ Len(g.Edges) \in Nat /\ Len(g.node) \in Nat
    BY <1>0, GraphParts
  <1>2. /\ new \in [source : Nat, target : Nat, age : Ages]
        /\ new.source = p /\ new.target = q /\ new.age = 0
    BY <1>1, AgesAreNumbers
  <1>3. h = [node |-> g.node, edge |-> n, Nodes |-> g.Nodes, Edges |-> L]
    BY <1>0 DEF WithEdge, TypedGraph
  <1>. HIDE DEF new
  <1>4. /\ n \in Seq([source : Nat, target : Nat, age : Ages]) /\ Len(n) = Len(g.edge) + 1
        /\ n[Len(g.edge) + 1] = new
        /\ \A r \in 1..Len(g.edge) : n[r] = g.edge[r]
    BY <1>1, <1>2
  <1>5. /\ L \in Seq(Nat) /\ Len(L) = Len(g.Edges) + 1
        /\ L[Len(g.Edges) + 1] = Len(g.edge) + 1
        /\ \A k \in 1..Len(g.Edges) : L[k] = g.Edges[k]
    BY <1>1
  <1>. HIDE DEF n, L
  <1>6. h.node = g.node /\ h.edge = n /\ h.Nodes = g.Nodes /\ h.Edges = L
    BY <1>3
  <1>7. \A k \in 1..Len(g.Edges) : g.Edges[k] \in 1..Len(g.edge)
    BY <1>0, RefsOf DEF GoodGraph, NoNil
  <1>8. \A k \in 1..Len(L) : k \in 1..Len(g.Edges) \/ k = Len(g.Edges) + 1
    BY <1>1, <1>5
  <1>9. ASSUME NEW k \in 1..Len(L) PROVE L[k] \in 1..Len(n)
    <2>1. CASE k \in 1..Len(g.Edges)
      <3>1. L[k] \in 1..Len(g.edge)
        BY <1>5, <1>7, <2>1
      <3>. QED BY <1>1, <1>4, <3>1
    <2>2. CASE k = Len(g.Edges) + 1
      <3>1. L[k] = Len(g.edge) + 1
        BY <1>5, <2>2
      <3>. QED BY <1>1, <1>4, <3>1
    <2>. QED BY <1>8, <2>1, <2>2, Zenon
  <1>10. TypedGraph(h)
    <2>1. ASSUME NEW r \in 1..Len(n)
          PROVE  n[r].source \in 1..Len(g.node) /\ n[r].target \in 1..Len(g.node)
      <3>1. CASE r \in 1..Len(g.edge)
        <4>1. g.edge[r].source \in 1..Len(g.node) /\ g.edge[r].target \in 1..Len(g.node)
          BY <1>0, <3>1, RefsOf
        <4>. QED BY <1>4, <3>1, <4>1
      <3>2. CASE r = Len(g.edge) + 1
        BY <1>2, <1>4, <3>2
      <3>3. r \in 1..Len(g.edge) \/ r = Len(g.edge) + 1
        BY <1>1, <1>4
      <3>. QED BY <3>1, <3>2, <3>3, Zenon
    <2>2. \A k \in 1..Len(L) : L[k] \in 0..Len(n)
      BY <1>1, <1>4, <1>9
    <2>3. n \in Seq([source : Nat, target : Nat, age : Ages]) /\ L \in Seq(Nat)
      BY <1>4, <1>5
    <2>. QED BY <1>0, <1>3, <2>1, <2>2, <2>3, TypedEdges, Zenon
  <1>11. Grown(g, h)
    <2>1. Len(g.Nodes) \in Nat
      BY <1>0, GraphParts, Zenon
    <2>2. \A r \in 1..Len(g.node) : g.node[r].age \in Nat
      BY <1>0, AgesOf
    <2>3. Len(g.node) <= Len(h.node) /\ Len(g.edge) <= Len(h.edge)
          /\ Len(g.Nodes) <= Len(h.Nodes) /\ Len(g.Edges) <= Len(h.Edges)
      <3>1. /\ Len(h.node) = Len(g.node) /\ Len(h.edge) = Len(g.edge) + 1
            /\ Len(h.Nodes) = Len(g.Nodes) /\ Len(h.Edges) = Len(g.Edges) + 1
        BY <1>4, <1>5, <1>6
      <3>. QED BY <1>1, <2>1, <3>1
    <2>4. \A r \in 1..Len(g.node) : h.node[r].id = g.node[r].id /\ h.node[r].age <= g.node[r].age
      BY <1>6, <2>2
    <2>5. \A k \in 1..Len(g.Edges) : h.Edges[k] = g.Edges[k]
      BY <1>5, <1>6, Zenon
    <2>6. \A k \in 1..Len(g.Nodes) : h.Nodes[k] = g.Nodes[k]
      BY <1>6, Zenon
    <2>. QED BY <2>3, <2>4, <2>5, <2>6, Zenon DEF Grown
  <1>12. NoNil(h)
    <2>1. \A k \in 1..Len(L) : L[k] # Nil
      BY <1>4, <1>1, <1>9 DEF Nil
    <2>. QED BY <1>6, <2>1 DEF GoodGraph, NoNil
  <1>13. \A k \in 1..Len(g.Edges) : n[L[k]] = g.edge[g.Edges[k]]
    BY <1>4, <1>5, <1>7
  <1>14. n[L[Len(g.Edges) + 1]] = new
    BY <1>4, <1>5, Zenon
  <1>15. Once(h)
    <2>1. ASSUME NEW k \in 1..Len(h.Edges), NEW l \in 1..Len(h.Edges),
                 h.Edges[k] # Nil, h.Edges[l] # Nil,
                 h.node[h.edge[h.Edges[k]].source].id = h.node[h.edge[h.Edges[l]].source].id,
                 h.node[h.edge[h.Edges[k]].target].id = h.node[h.edge[h.Edges[l]].target].id
          PROVE  k = l
      <3>1. /\ k \in 1..Len(L) /\ l \in 1..Len(L)
            /\ g.node[n[L[k]].source].id = g.node[n[L[l]].source].id
            /\ g.node[n[L[k]].target].id = g.node[n[L[l]].target].id
        BY <1>6, <2>1
      <3>2. CASE k \in 1..Len(g.Edges) /\ l \in 1..Len(g.Edges)
        <4>1. n[L[k]] = g.edge[g.Edges[k]] /\ n[L[l]] = g.edge[g.Edges[l]]
          BY <1>13, <3>2, Zenon
        <4>2. /\ g.node[g.edge[g.Edges[k]].source].id = g.node[g.edge[g.Edges[l]].source].id
              /\ g.node[g.edge[g.Edges[k]].target].id = g.node[g.edge[g.Edges[l]].target].id
          BY <3>1, <4>1, Zenon
        <4>3. g.Edges[k] # Nil /\ g.Edges[l] # Nil
          BY <3>2, Zenon DEF GoodGraph, NoNil
        <4>. QED BY <3>2, <4>2, <4>3, Zenon DEF GoodGraph, Once
      <3>3. \A j \in 1..Len(g.Edges) :
              ~(/\ g.node[n[L[j]].source].id = g.node[p].id
                /\ g.node[n[L[j]].target].id = g.node[q].id)
        BY <1>13, Zenon DEF NoLink
      <3>4. /\ g.node[n[L[Len(g.Edges) + 1]].source].id = g.node[p].id
            /\ g.node[n[L[Len(g.Edges) + 1]].target].id = g.node[q].id
        BY <1>2, <1>14, Zenon
      <3>5. CASE k = Len(g.Edges) + 1 /\ l \in 1..Len(g.Edges)
        BY <3>1, <3>3, <3>4, <3>5, Zenon
      <3>6. CASE k \in 1..Len(g.Edges) /\ l = Len(g.Edges) + 1
        BY <3>1, <3>3, <3>4, <3>6, Zenon
      <3>7. /\ k \in 1..Len(g.Edges) \/ k = Len(g.Edges) + 1
            /\ l \in 1..Len(g.Edges) \/ l = Len(g.Edges) + 1
        BY <1>8, <3>1, Zenon
      <3>. QED BY <3>2, <3>5, <3>6, <3>7, Zenon
    <2>2. ASSUME NEW k \in 1..Len(h.Nodes), NEW l \in 1..Len(h.Nodes),
                 h.Nodes[k] # Nil, h.Nodes[l] # Nil,
                 h.node[h.Nodes[k]].id = h.node[h.Nodes[l]].id
          PROVE  k = l
      <3>1. /\ k \in 1..Len(g.Nodes) /\ l \in 1..Len(g.Nodes)
            /\ g.Nodes[k] # Nil /\ g.Nodes[l] # Nil
            /\ g.node[g.Nodes[k]].id = g.node[g.Nodes[l]].id
        BY <1>6, <2>2, Zenon
      <3>. QED BY <3>1, Zenon DEF GoodGraph, Once
    <2>. QED BY <2>1, <2>2, ZenonT(30) DEF Once
  <1>16. \A z, a : HasNode(g, z, a) => HasNode(h, z, a)
    BY <1>6, Zenon DEF HasNode
  <1>17. Backed(h)
    <2>. SUFFICES ASSUME NEW k \in 1..Len(h.Edges), h.Edges[k] # Nil,
                         ~Expired(h.edge[h.Edges[k]].age)
                  PROVE  LET e == h.edge[h.Edges[k]]
                         IN /\ HasNode(h, h.node[e.source].id, e.age)
                            /\ HasNode(h, h.node[e.target].id, e.age)
      BY Zenon DEF Backed
    <2>0. /\ k \in 1..Len(L) /\ ~Expired(n[L[k]].age)
          /\ h.edge[h.Edges[k]] = n[L[k]] /\ h.node = g.node
      BY <1>6
    <2>1. CASE k = Len(g.Edges) + 1
      BY <1>2, <1>14, <1>16, <2>0, <2>1, Zenon
    <2>2. CASE k \in 1..Len(g.Edges)
      <3>1. g.Edges[k] # Nil /\ n[L[k]] = g.edge[g.Edges[k]]
        BY <1>13, <2>2 DEF GoodGraph, NoNil
      <3>2. /\ HasNode(g, g.node[g.edge[g.Edges[k]].source].id, g.edge[g.Edges[k]].age)
            /\ HasNode(g, g.node[g.edge[g.Edges[k]].target].id, g.edge[g.Edges[k]].age)
        BY <2>0, <2>2, <3>1, Zenon DEF GoodGraph, Backed
      <3>. QED BY <1>16, <2>0, <3>1, <3>2, ZenonT(30)
    <2>. QED BY <1>8, <2>0, <2>1, <2>2
  <1>. QED BY <1>6, <1>10, <1>11, <1>12, <1>15, <1>17 DEF GoodGraph

LEMMA RangeGrows ==
  ASSUME NEW m \in Nat, NEW n \in Nat, m <= n
  PROVE  \A r \in 1..m : r \in 1..n
  OBVIOUS

LEMMA GrownTwice ==
  ASSUME NEW f, NEW g, NEW h, TypedGraph(f), TypedGraph(g), TypedGraph(h),
         Grown(f, g), Grown(g, h)
  PROVE  Grown(f, h)
  <1>1. /\ Len(f.node) \in Nat /\ Len(g.node) \in Nat /\ Len(h.node) \in Nat
        /\ Len(f.edge) \in Nat /\ Len(g.edge) \in Nat /\ Len(h.edge) \in Nat
        /\ Len(f.Nodes) \in Nat /\ Len(g.Nodes) \in Nat /\ Len(h.Nodes) \in Nat
        /\ Len(f.Edges) \in Nat /\ Len(g.Edges) \in Nat /\ Len(h.Edges) \in Nat
    BY GraphParts
  <1>2. /\ Len(f.node) <= Len(g.node) /\ Len(g.node) <= Len(h.node)
        /\ Len(f.edge) <= Len(g.edge) /\ Len(g.edge) <= Len(h.edge)
        /\ Len(f.Nodes) <= Len(g.Nodes) /\ Len(g.Nodes) <= Len(h.Nodes)
        /\ Len(f.Edges) <= Len(g.Edges) /\ Len(g.Edges) <= Len(h.Edges)
    BY DEF Grown
  <1>3. /\ Len(f.node) <= Len(h.node) /\ Len(f.edge) <= Len(h.edge)
        /\ Len(f.Nodes) <= Len(h.Nodes) /\ Len(f.Edges) <= Len(h.Edges)
    <2>1. \A a, b, c \in Nat : a <= b /\ b <= c => a <= c
      OBVIOUS
    <2>. QED BY <1>1, <1>2, <2>1, Zenon
  <1>4. ASSUME NEW r \in 1..Len(f.node)
        PROVE  h.node[r].id = f.node[r].id /\ h.node[r].age <= f.node[r].age
    <2>1. r \in 1..Len(g.node) /\ r \in 1..Len(h.node)
      BY <1>1, <1>2, <1>3, RangeGrows, Zenon
    <2>2. /\ g.node[r].id = f.node[r].id /\ g.node[r].age <= f.node[r].age
          /\ h.node[r].id = g.node[r].id /\ h.node[r].age <= g.node[r].age
      BY <2>1 DEF Grown
    <2>3. f.node[r].age \in Nat /\ g.node[r].age \in Nat /\ h.node[r].age \in Nat
      BY <2>1, AgesOf
    <2>. QED BY <2>2, <2>3
  <1>5. ASSUME NEW k \in 1..Len(f.Nodes) PROVE h.Nodes[k] = f.Nodes[k]
    <2>1. k \in 1..Len(g.Nodes)
      BY <1>1, <1>2
    <2>. QED BY <2>1 DEF Grown
  <1>6. ASSUME NEW k \in 1..Len(f.Edges) PROVE h.Edges[k] = f.Edges[k]
    <2>1. k \in 1..Len(g.Edges)
      BY <1>1, <1>2
    <2>. QED BY <2>1 DEF Grown
  <1>. QED BY <1>3, <1>4, <1>5, <1>6 DEF Grown

\* ObtainEdge, of a link whose nodes have just been obtained.
LEMMA ObtainEdgeGood ==
  ASSUME NEW g, GoodGraph(g), NEW x \in ID, NEW y \in ID,
         HasNode(g, x, 0), HasNode(g, y, 0), NEW m, m = ObtainEdge(g, x, y)
  PROVE  GoodGraph(m) /\ Grown(g, m)
  <1>. DEFINE r == GetEdgeFromID(g, x, y)
              h == ObtainNode(ObtainNode(g, x), y)
  <1>0. TypedGraph(g)
    BY DEF GoodGraph
  <1>1. CASE r # Nil
    <2>. DEFINE p == g.edge[r].source
                q == g.edge[r].target
                a == WithYoung(g, r)
                b == Touched(a, p)
    <2>1. m = Touched(b, q)
      BY <1>1 DEF ObtainEdge, WithYoung
    <2>2. PICK k \in 1..Len(g.Edges) : r = g.Edges[k] /\ g.node[p].id = x /\ g.node[q].id = y
      BY <1>0, <1>1, EdgeFound
    <2>3. r \in 1..Len(g.edge)
      BY <1>0, <1>1, <2>2, RefsOf
    <2>4. p \in 1..Len(g.node) /\ q \in 1..Len(g.node)
      BY <1>0, <2>3 DEF TypedGraph
    <2>. HIDE DEF r, p, q, a, b
    <2>5. GoodGraph(a) /\ Grown(g, a) /\ a.node = g.node
      BY <2>2, <2>3, YoungGood DEF a, p, q
    <2>6. GoodGraph(b) /\ Grown(a, b) /\ Len(b.node) = Len(a.node)
      BY <2>4, <2>5, TouchedGood DEF b
    <2>7. GoodGraph(m) /\ Grown(b, m)
      <3>1. q \in 1..Len(b.node)
        BY <2>4, <2>5, <2>6
      <3>. QED BY <2>1, <2>6, <3>1, TouchedGood
    <2>8. TypedGraph(a) /\ TypedGraph(b) /\ TypedGraph(m)
      BY <2>5, <2>6, <2>7 DEF GoodGraph
    <2>9. Grown(g, b)
      BY <1>0, <2>5, <2>6, <2>8, GrownTwice
    <2>. QED BY <1>0, <2>7, <2>8, <2>9, GrownTwice
  <1>2. CASE r = Nil
    <2>. DEFINE f == ObtainNode(g, x)
                p == GetNodeFromID(h, x)
                q == GetNodeFromID(h, y)
    <2>1. /\ GoodGraph(f) /\ Grown(g, f) /\ HasNode(f, x, 0)
          /\ f.edge = g.edge /\ f.Edges = g.Edges
      BY ObtainNodeGood
    <2>2. /\ GoodGraph(h) /\ Grown(f, h) /\ HasNode(h, y, 0)
          /\ h.edge = f.edge /\ h.Edges = f.Edges
      BY <2>1, ObtainNodeGood
    <2>3. m = WithEdge(h, p, q, Len(g.edge))
      BY <1>2 DEF ObtainEdge, WithEdge
    <2>. HIDE DEF f, h, p, q
    <2>0. \A l \in 1..Len(g.Edges) : g.Edges[l] # Nil
      BY DEF GoodGraph, NoNil
    <2>4. TypedGraph(f) /\ TypedGraph(h)
      BY <2>1, <2>2 DEF GoodGraph
    <2>5. HasNode(h, x, 0)
      BY <2>1, <2>2, <2>4, GrownHas
    <2>6. Grown(g, h)
      BY <1>0, <2>1, <2>2, <2>4, GrownTwice
    <2>7. ASSUME NEW z, HasNode(h, z, 0), NEW n, n = GetNodeFromID(h, z)
          PROVE  n \in 1..Len(h.node) /\ h.node[n].id = z
      <3>1. PICK k \in 1..Len(h.Nodes) : n = h.Nodes[k] /\ h.node[h.Nodes[k]].id = z
        BY <2>4, <2>7, NodeFound DEF HasNode
      <3>2. h.Nodes[k] \in 1..Len(h.node)
        BY <2>2, <2>4, RefsOf DEF GoodGraph, NoNil
      <3>. QED BY <3>1, <3>2
    <2>8. /\ p \in 1..Len(h.node) /\ h.node[p].id = x
          /\ q \in 1..Len(h.node) /\ h.node[q].id = y
      BY <2>2, <2>5, <2>7 DEF p, q
    <2>9. ASSUME NEW k \in 1..Len(h.Edges)
          PROVE  ~(/\ h.node[h.edge[h.Edges[k]].source].id = x
                   /\ h.node[h.edge[h.Edges[k]].target].id = y)
      <3>1. k \in 1..Len(g.Edges) /\ h.edge[h.Edges[k]] = g.edge[g.Edges[k]]
        BY <2>1, <2>2
      <3>2. g.Edges[k] \in 1..Len(g.edge)
        BY <1>0, <2>0, <3>1, RefsOf
      <3>3. /\ g.edge[g.Edges[k]].source \in 1..Len(g.node)
            /\ g.edge[g.Edges[k]].target \in 1..Len(g.node)
        BY <1>0, <3>2, RefsOf
      <3>4. g.Edges[k] # Nil
        BY <2>0, <3>1
      <3>5. ~(/\ g.node[g.edge[g.Edges[k]].source].id = x
              /\ g.node[g.edge[g.Edges[k]].target].id = y)
        <4>1. NoLink(g, x, y)
          BY <1>0, <1>2, <2>0, EdgeFound
        <4>. QED BY <3>1, <4>1, Zenon DEF NoLink
      <3>. QED BY <2>6, <3>1, <3>3, <3>5 DEF Grown
    <2>10. m = WithEdge(h, p, q, Len(h.edge))
      BY <2>1, <2>2, <2>3
    <2>11. GoodGraph(m) /\ Grown(h, m)
      <3>1. NoLink(h, h.node[p].id, h.node[q].id)
        BY <2>8, <2>9, Zenon DEF NoLink
      <3>2. HasNode(h, h.node[p].id, 0) /\ HasNode(h, h.node[q].id, 0)
        BY <2>2, <2>5, <2>8, Zenon
      <3>. QED BY <2>2, <2>8, <2>10, <3>1, <3>2, LinkedGood, Zenon
    <2>12. TypedGraph(m)
      BY <2>11 DEF GoodGraph
    <2>. QED BY <1>0, <2>4, <2>6, <2>11, <2>12, GrownTwice
  <1>. QED BY <1>1, <1>2

\* MakeEdgeFromIDs, as it is called.
LEMMA HandleGood ==
  ASSUME NEW g, GoodGraph(g), NEW x \in ID, NEW y \in ID,
         NEW m, m = MakeEdgeFromIDs(ObtainNode(ObtainNode(g, x), y), x, y)
  PROVE  GoodGraph(m) /\ Grown(g, m)
  <1>. DEFINE a == ObtainNode(g, x)
              b == ObtainNode(a, y)
              c == ObtainNode(b, y)
              d == ObtainNode(c, x)
  <1>0. m = ObtainEdge(d, x, y)
    BY DEF MakeEdgeFromIDs
  <1>1. GoodGraph(a) /\ Grown(g, a)
    BY ObtainNodeGood
  <1>2. GoodGraph(b) /\ Grown(a, b)
    BY <1>1, ObtainNodeGood
  <1>3. GoodGraph(c) /\ Grown(b, c) /\ HasNode(c, y, 0)
    BY <1>2, ObtainNodeGood
  <1>4. GoodGraph(d) /\ Grown(c, d) /\ HasNode(d, x, 0)
    BY <1>3, ObtainNodeGood
  <1>. HIDE DEF a, b, c, d
  <1>5. TypedGraph(g) /\ TypedGraph(a) /\ TypedGraph(b) /\ TypedGraph(c) /\ TypedGraph(d)
    BY <1>1, <1>2, <1>3, <1>4 DEF GoodGraph
  <1>6. HasNode(d, y, 0)
    BY <1>3, <1>4, <1>5, GrownHas
  <1>7. GoodGraph(m) /\ Grown(d, m)
    BY <1>0, <1>4, <1>6, ObtainEdgeGood
  <1>8. Grown(g, b) /\ TypedGraph(m)
    BY <1>1, <1>2, <1>5, <1>7, GrownTwice DEF GoodGraph
  <1>9. Grown(g, c)
    BY <1>3, <1>5, <1>8, GrownTwice
  <1>10. Grown(g, d)
    BY <1>4, <1>5, <1>9, GrownTwice
  <1>. QED BY <1>5, <1>7, <1>8, <1>10, GrownTwice

---------------------------------------------------------------------------
(* What a pass keeps.                                                      *)

\* What is left of a list, in any order, with nothing listed twice.
Part(L, M) ==
  \A j, m \in 1..Len(M) : M[j] # Nil /\ M[m] # Nil =>
    \E a, b \in 1..Len(L) : M[j] = L[a] /\ M[m] = L[b] /\ (a = b => j = m)

\* No object that is not expired has left the list.
Kept(L, M, object) ==
  \A k \in 1..Len(L) : L[k] # Nil /\ ~Expired(object[L[k]].age) =>
    \E j \in 1..Len(M) : M[j] = L[k]

LEMMA PartSame == ASSUME NEW L PROVE Part(L, L)
  BY DEF Part

\* The list while it is gone through: shortened to n, the rest of it nil.
Shortened(L, n) == n <= Len(L) /\ \A k \in 1..Len(L) : L[k] = Nil <=> k > n

\* The last element has taken the place of the k-th.
Swapped(L, n, k, M) ==
  /\ M \in Seq(Nat) /\ Len(M) = Len(L) /\ n - 1 \in Nat /\ Shortened(M, n - 1)
  /\ \A j \in 1..Len(L) : M[j] = Nil \/ \E a \in 1..Len(L) : a # k /\ M[j] = L[a]
  /\ \A l \in 1..Len(L) : L[l] # Nil /\ l # k => \E j \in 1..Len(M) : M[j] = L[l]
  /\ Part(L, M)

LEMMA SwapOutPart ==
  ASSUME NEW L \in Seq(Nat), NEW n \in Nat, Shortened(L, n),
         NEW k \in 1..Len(L), L[k] # Nil, NEW M, M = SwapOut(L, k, n)
  PROVE  Swapped(L, n, k, M)
  <1>1. Len(L) \in Nat /\ k <= n /\ n <= Len(L)
    BY DEF Shortened
  <1>2. n \in 1..Len(L)
    BY <1>1
  <1>3. L[n] \in Nat /\ L[k] \in Nat /\ Nil \in Nat /\ L[n] # Nil
    BY <1>1, <1>2, ElementOfSeq DEF Nil, Shortened
  <1>. DEFINE N == [L EXCEPT ![k] = L[n]]
  <1>4. /\ N \in Seq(Nat) /\ Len(N) = Len(L)
        /\ \A j \in 1..Len(L) : N[j] = IF j = k THEN L[n] ELSE L[j]
    BY <1>3, ExceptSeq
  <1>5. M = [N EXCEPT ![n] = Nil]
    BY DEF SwapOut
  <1>. HIDE DEF N
  <1>6. /\ M \in Seq(Nat) /\ Len(M) = Len(N)
        /\ \A j \in 1..Len(N) : M[j] = IF j = n THEN Nil ELSE N[j]
    <2>1. n \in 1..Len(N)
      BY <1>2, <1>4
    <2>2. Nil \in Nat /\ N \in Seq(Nat)
      BY <1>3, <1>4, Zenon
    <2>3. /\ [N EXCEPT ![n] = Nil] \in Seq(Nat) /\ Len([N EXCEPT ![n] = Nil]) = Len(N)
          /\ \A j \in 1..Len(N) : [N EXCEPT ![n] = Nil][j] = IF j = n THEN Nil ELSE N[j]
      BY <2>1, <2>2, ExceptSeq
    <2>. QED BY <1>5, <2>3, Zenon
  <1>7. \A j \in 1..Len(L) :
          M[j] = IF j = n THEN Nil ELSE IF j = k THEN L[n] ELSE L[j]
    BY <1>4, <1>6
  <1>8. Len(M) = Len(L)
    BY <1>4, <1>6
  <1>9. Shortened(M, n - 1)
    <2>1. ASSUME NEW j \in 1..Len(L) PROVE M[j] = Nil <=> j > n - 1
      <3>1. L[j] = Nil <=> j > n
        BY DEF Shortened
      <3>. QED BY <1>1, <1>3, <1>7, <3>1
    <2>. QED BY <1>1, <1>8, <2>1 DEF Shortened
  <1>10. \A j \in 1..Len(L) : M[j] = Nil \/ \E a \in 1..Len(L) : a # k /\ M[j] = L[a]
    BY <1>2, <1>7
  <1>11. ASSUME NEW l \in 1..Len(L), L[l] # Nil, l # k
         PROVE  \E j \in 1..Len(M) : M[j] = L[l]
    <2>1. CASE l = n
      BY <1>1, <1>7, <1>8, <1>11, <2>1
    <2>2. CASE l # n
      BY <1>7, <1>8, <1>11, <2>2
    <2>. QED BY <2>1, <2>2
  <1>12. Part(L, M)
    <2>1. ASSUME NEW j \in 1..Len(M), NEW m \in 1..Len(M), M[j] # Nil, M[m] # Nil
          PROVE  \E a, b \in 1..Len(L) : M[j] = L[a] /\ M[m] = L[b] /\ (a = b => j = m)
      <3>0. j \in 1..Len(L) /\ m \in 1..Len(L)
        BY <1>8
      <3>1. j # n /\ m # n
        BY <1>7, <2>1, <3>0
      <3>. DEFINE a == IF j = k THEN n ELSE j
                  b == IF m = k THEN n ELSE m
      <3>2. /\ a \in 1..Len(L) /\ b \in 1..Len(L) /\ M[j] = L[a] /\ M[m] = L[b]
            /\ (a = b => j = m)
        BY <1>2, <1>7, <3>0, <3>1
      <3>. QED BY <3>2
    <2>. QED BY <2>1, Zenon DEF Part
  <1>. QED BY <1>1, <1>6, <1>8, <1>9, <1>10, <1>11, <1>12 DEF Swapped

\* What is past the end of the shortened slice is cut off.
Cut(L, n, M) ==
  /\ M \in Seq(Nat) /\ Len(M) = n
  /\ \A j \in 1..n : j \in 1..Len(L) /\ M[j] = L[j] /\ M[j] # Nil
  /\ \A l \in 1..Len(L) : L[l] # Nil => \E j \in 1..Len(M) : M[j] = L[l]
  /\ Part(L, M)

LEMMA SubSeqPart ==
  ASSUME NEW L \in Seq(Nat), NEW n \in Nat, Shortened(L, n), NEW M, M = SubSeq(L, 1, n)
  PROVE  Cut(L, n, M)
  <1>1. Len(L) \in Nat /\ n <= Len(L) /\ \A k \in 1..Len(L) : L[k] = Nil <=> k > n
    BY DEF Shortened
  <1>2. \A k \in 1..n : k \in 1..Len(L) /\ L[k] \in Nat
    <2>1. \A k \in 1..n : k \in 1..Len(L)
      BY <1>1
    <2>. QED BY <2>1, ElementOfSeq
  <1>3. M \in Seq(Nat) /\ Len(M) = n /\ \A j \in 1..n : M[j] = L[j]
    <2>1. /\ SubSeq(L, 1, n) \in Seq(Nat)
          /\ Len(SubSeq(L, 1, n)) = IF 1 <= n THEN n - 1 + 1 ELSE 0
          /\ \A j \in 1..n - 1 + 1 : SubSeq(L, 1, n)[j] = L[1 + j - 1]
      BY <1>2, SubSeqProperties
    <2>2. \A j \in 1..n : 1 + j - 1 = j /\ j \in 1..n - 1 + 1
      OBVIOUS
    <2>. QED BY <2>1, <2>2
  <1>4. \A j \in 1..n : j \in 1..Len(L) /\ M[j] = L[j] /\ M[j] # Nil
    BY <1>1, <1>2, <1>3
  <1>5. \A l \in 1..Len(L) : L[l] # Nil => \E j \in 1..Len(M) : M[j] = L[l]
    <2>1. \A l \in 1..Len(L) : L[l] # Nil => l \in 1..n
      BY <1>1
    <2>. QED BY <1>3, <2>1
  <1>6. Part(L, M)
    <2>1. \A k \in 1..Len(M) : k \in 1..Len(L) /\ M[k] = L[k]
      BY <1>3, <1>4
    <2>. QED BY <2>1, Zenon DEF Part
  <1>. QED BY <1>3, <1>4, <1>5, <1>6 DEF Cut

\* A list with one element less, or a shorter one, makes no double.
LEMMA OncePart ==
  ASSUME NEW g, NEW h, Once(g), h.node = g.node, h.edge = g.edge,
         Part(g.Nodes, h.Nodes), Part(g.Edges, h.Edges)
  PROVE  Once(h)
  <1>1. ASSUME NEW k \in 1..Len(h.Nodes), NEW l \in 1..Len(h.Nodes),
               h.Nodes[k] # Nil, h.Nodes[l] # Nil,
               h.node[h.Nodes[k]].id = h.node[h.Nodes[l]].id
        PROVE  k = l
    <2>1. PICK a \in 1..Len(g.Nodes), b \in 1..Len(g.Nodes) :
            h.Nodes[k] = g.Nodes[a] /\ h.Nodes[l] = g.Nodes[b] /\ (a = b => k = l)
      BY <1>1, Zenon DEF Part
    <2>2. /\ g.Nodes[a] # Nil /\ g.Nodes[b] # Nil
          /\ g.node[g.Nodes[a]].id = g.node[g.Nodes[b]].id
      BY <1>1, <2>1, Zenon
    <2>3. a = b
      BY <2>2, Zenon DEF Once
    <2>. QED BY <2>1, <2>3
  <1>2. ASSUME NEW k \in 1..Len(h.Edges), NEW l \in 1..Len(h.Edges),
               h.Edges[k] # Nil, h.Edges[l] # Nil,
               h.node[h.edge[h.Edges[k]].source].id = h.node[h.edge[h.Edges[l]].source].id,
               h.node[h.edge[h.Edges[k]].target].id = h.node[h.edge[h.Edges[l]].target].id
        PROVE  k = l
    <2>1. PICK a \in 1..Len(g.Edges), b \in 1..Len(g.Edges) :
            h.Edges[k] = g.Edges[a] /\ h.Edges[l] = g.Edges[b] /\ (a = b => k = l)
      BY <1>2, Zenon DEF Part
    <2>2. /\ g.Edges[a] # Nil /\ g.Edges[b] # Nil
          /\ g.node[g.edge[g.Edges[a]].source].id = g.node[g.edge[g.Edges[b]].source].id
          /\ g.node[g.edge[g.Edges[a]].target].id = g.node[g.edge[g.Edges[b]].target].id
      BY <1>2, <2>1, Zenon
    <2>3. a = b
      BY <2>2, Zenon DEF Once
    <2>. QED BY <2>1, <2>3
  <1>. QED BY <1>1, <1>2, Zenon DEF Once

\* The nodes of a link that is not expired are not expired either: the pass over
\* the nodes leaves them.
LEMMA BackedPart ==
  ASSUME NEW g, NEW h, TypedGraph(g), Backed(g), h.node = g.node, h.edge = g.edge,
         Part(g.Edges, h.Edges), Kept(g.Nodes, h.Nodes, g.node)
  PROVE  Backed(h)
  <1>. SUFFICES ASSUME NEW k \in 1..Len(h.Edges), h.Edges[k] # Nil,
                       ~Expired(h.edge[h.Edges[k]].age)
                PROVE  LET e == h.edge[h.Edges[k]]
                       IN /\ HasNode(h, h.node[e.source].id, e.age)
                          /\ HasNode(h, h.node[e.target].id, e.age)
    BY Zenon DEF Backed
  <1>1. PICK a \in 1..Len(g.Edges) : h.Edges[k] = g.Edges[a]
    BY Zenon DEF Part
  <1>. DEFINE e == g.edge[g.Edges[a]]
  <1>2. e = h.edge[h.Edges[k]] /\ g.Edges[a] # Nil /\ ~Expired(e.age)
    BY <1>1, Zenon
  <1>3. HasNode(g, g.node[e.source].id, e.age) /\ HasNode(g, g.node[e.target].id, e.age)
    BY <1>2 DEF Backed
  <1>4. e.age \in Nat
    <2>1. g.Edges[a] \in 1..Len(g.edge)
      BY <1>2, RefsOf
    <2>2. e \in [source : Nat, target : Nat, age : Ages]
      BY <2>1, GraphParts
    <2>. QED BY <2>2, AgesAreNumbers
  <1>. HIDE DEF e
  <1>5. ASSUME NEW x, HasNode(g, x, e.age) PROVE HasNode(h, x, e.age)
    <2>1. PICK l \in 1..Len(g.Nodes) :
            g.Nodes[l] # Nil /\ g.node[g.Nodes[l]].id = x /\ g.node[g.Nodes[l]].age <= e.age
      BY <1>5 DEF HasNode
    <2>2. g.node[g.Nodes[l]].age \in Nat
      <3>1. g.Nodes[l] \in 1..Len(g.node)
        BY <2>1, RefsOf
      <3>. QED BY <3>1, AgesOf
    <2>3. ~Expired(g.node[g.Nodes[l]].age)
      BY <1>2, <1>4, <2>1, <2>2, AgesAreNumbers DEF Expired
    <2>4. PICK j \in 1..Len(h.Nodes) : h.Nodes[j] = g.Nodes[l]
      BY <2>1, <2>3 DEF Kept
    <2>. QED BY <2>1, <2>4 DEF HasNode
  <1>. QED BY <1>2, <1>3, <1>5, ZenonT(30)

---------------------------------------------------------------------------
(* The invariant.                                                          *)

\* A pass that has begun shortens one of the lists.
PassInv ==
  /\ pass \in {"none", "edges", "nodes"}
  /\ i \in Nat \ {0}
  /\ live \in Nat
  /\ pass = "edges" => Shortened(Edges, live)
  /\ pass = "nodes" => Shortened(Nodes, live)
  /\ pass # "nodes" => \A k \in 1..Len(Nodes) : Nodes[k] # Nil
  /\ pass # "edges" => \A k \in 1..Len(Edges) : Edges[k] # Nil

TopoInv == TypedGraph(Graph) /\ Once(Graph) /\ Backed(Graph) /\ PassInv

LEMMA GraphFields ==
  /\ Graph.node = node /\ Graph.edge = edge /\ Graph.Nodes = Nodes /\ Graph.Edges = Edges
  /\ Graph'.node = node' /\ Graph'.edge = edge' /\ Graph'.Nodes = Nodes' /\ Graph'.Edges = Edges'
  BY DEF Graph

LEMMA ListsAreSequences ==
  ASSUME TypedGraph(Graph)
  PROVE  /\ Nodes \in Seq(Nat) /\ Edges \in Seq(Nat)
         /\ Len(Nodes) \in Nat /\ Len(Edges) \in Nat
         /\ Len(node) \in Nat /\ Len(edge) \in Nat
         /\ DOMAIN Nodes = 1..Len(Nodes) /\ DOMAIN Edges = 1..Len(Edges)
         /\ DOMAIN node = 1..Len(node) /\ DOMAIN edge = 1..Len(edge)
  BY GraphParts, GraphFields, LenProperties

LEMMA InitInv == Init => TopoInv
  <1>. SUFFICES ASSUME Init PROVE TopoInv
    OBVIOUS
  <1>1. /\ node = <<>> /\ edge = <<>> /\ Nodes = <<>> /\ Edges = <<>>
        /\ pass = "none" /\ i = 1 /\ live = 0
    BY DEF Init
  <1>2. /\ <<>> \in Seq([id : ID, age : Ages])
        /\ <<>> \in Seq([source : Nat, target : Nat, age : Ages])
        /\ <<>> \in Seq(Nat) /\ Len(<<>>) = 0
    BY EmptySeq
  <1>3. TypedGraph(Graph)
    BY <1>1, <1>2 DEF TypedGraph, Graph
  <1>4. Once(Graph) /\ Backed(Graph)
    BY <1>1, <1>2 DEF Graph, Once, Backed
  <1>5. PassInv
    BY <1>1, <1>2 DEF PassInv
  <1>. QED BY <1>3, <1>4, <1>5 DEF TopoInv

\* A call while no pass is going on.
LEMMA UpdateInv ==
  ASSUME TopoInv, pass = "none", NEW h, GoodGraph(h), Grown(Graph, h), Update(h)
  PROVE  /\ TopoInv'
         /\ \A k \in 1..Len(Nodes) : k \in 1..Len(Nodes') /\ Nodes'[k] = Nodes[k]
         /\ \A k \in 1..Len(Edges) : k \in 1..Len(Edges') /\ Edges'[k] = Edges[k]
  <1>1. /\ node' = h.node /\ edge' = h.edge /\ Nodes' = h.Nodes /\ Edges' = h.Edges
        /\ pass' = pass /\ i' = i /\ live' = live
    BY DEF Update
  <1>2. TypedGraph(h) /\ TypedGraph(Graph)
    BY DEF GoodGraph, TopoInv
  <1>3. Graph' = h
    <2>1. h = [node |-> h.node, edge |-> h.edge, Nodes |-> h.Nodes, Edges |-> h.Edges]
      BY <1>2 DEF TypedGraph
    <2>. QED BY <1>1, <2>1 DEF Graph
  <1>4. TypedGraph(Graph') /\ Once(Graph') /\ Backed(Graph')
    BY <1>3 DEF GoodGraph
  <1>5. PassInv'
    BY <1>1 DEF TopoInv, PassInv, GoodGraph, NoNil
  <1>6. /\ \A k \in 1..Len(Nodes) : k \in 1..Len(h.Nodes) /\ h.Nodes[k] = Nodes[k]
        /\ \A k \in 1..Len(Edges) : k \in 1..Len(h.Edges) /\ h.Edges[k] = Edges[k]
    <2>1. /\ Len(Nodes) \in Nat /\ Len(h.Nodes) \in Nat /\ Len(Edges) \in Nat
          /\ Len(h.Edges) \in Nat
      BY <1>2, GraphParts, GraphFields
    <2>2. /\ Len(Nodes) <= Len(h.Nodes) /\ Len(Edges) <= Len(h.Edges)
          /\ \A k \in 1..Len(Nodes) : h.Nodes[k] = Nodes[k]
          /\ \A k \in 1..Len(Edges) : h.Edges[k] = Edges[k]
      BY GraphFields DEF Grown
    <2>. QED BY <2>1, <2>2
  <1>. QED BY <1>1, <1>4, <1>5, <1>6 DEF TopoInv

LEMMA FunctionIsSeq ==
  ASSUME NEW S, NEW n \in Nat, NEW f \in [1..n -> S]
  PROVE  f \in Seq(S)
  BY SeqDef

\* Time makes everything older alike.
LEMMA AgedAges ==
  /\ \A a \in Ages : Aged(a) \in Ages /\ (Expired(a) => Expired(Aged(a)))
  /\ \A a, b \in Ages : a <= b => Aged(a) <= Aged(b)
  BY TopologyAssumption DEF Ages, Aged, Expired

LEMMA TickInv ==
  ASSUME TopoInv, Tick
  PROVE  TopoInv'
  <1>1. TypedGraph(Graph) /\ Once(Graph) /\ Backed(Graph) /\ PassInv
    BY DEF TopoInv
  <1>2. /\ Len(node) \in Nat /\ Len(edge) \in Nat
        /\ DOMAIN node = 1..Len(node) /\ DOMAIN edge = 1..Len(edge)
        /\ node \in Seq([id : ID, age : Ages])
        /\ edge \in Seq([source : Nat, target : Nat, age : Ages])
        /\ \A r \in 1..Len(node) : node[r] \in [id : ID, age : Ages]
        /\ \A r \in 1..Len(edge) : edge[r] \in [source : Nat, target : Nat, age : Ages]
    BY <1>1, ListsAreSequences, GraphParts, GraphFields
  <1>3. /\ \A k \in 1..Len(Nodes) : Nodes[k] \in 0..Len(node)
        /\ \A k \in 1..Len(Edges) : Edges[k] \in 0..Len(edge)
        /\ \A r \in 1..Len(edge) : edge[r].source \in 1..Len(node) /\ edge[r].target \in 1..Len(node)
        /\ Nodes \in Seq(Nat) /\ Edges \in Seq(Nat)
    BY <1>1, ListsAreSequences, GraphFields DEF TypedGraph
  <1>4. /\ node' = [r \in 1..Len(node) |-> [node[r] EXCEPT !.age = Aged(@)]]
        /\ edge' = [r \in 1..Len(edge) |-> [edge[r] EXCEPT !.age = Aged(@)]]
        /\ UNCHANGED <<Nodes, Edges, pass, i, live>>
    BY <1>2 DEF Tick
  <1>5. ASSUME NEW r \in 1..Len(node)
        PROVE  /\ node'[r] \in [id : ID, age : Ages]
               /\ node'[r].id = node[r].id /\ node'[r].age = Aged(node[r].age)
    <2>1. node'[r] = [node[r] EXCEPT !.age = Aged(node[r].age)]
      BY <1>4
    <2>2. node[r] \in [id : ID, age : Ages] /\ Aged(node[r].age) \in Ages
      BY <1>2, AgedAges
    <2>. QED BY <2>1, <2>2
  <1>6. ASSUME NEW r \in 1..Len(edge)
        PROVE  /\ edge'[r] \in [source : Nat, target : Nat, age : Ages]
               /\ edge'[r].source = edge[r].source /\ edge'[r].target = edge[r].target
               /\ edge'[r].age = Aged(edge[r].age)
    <2>1. edge'[r] = [edge[r] EXCEPT !.age = Aged(edge[r].age)]
      BY <1>4
    <2>2. edge[r] \in [source : Nat, target : Nat, age : Ages] /\ Aged(edge[r].age) \in Ages
      BY <1>2, AgedAges
    <2>. QED BY <2>1, <2>2
  <1>7. /\ node' \in Seq([id : ID, age : Ages]) /\ Len(node') = Len(node)
        /\ edge' \in Seq([source : Nat, target : Nat, age : Ages]) /\ Len(edge') = Len(edge)
    <2>1. node' \in [1..Len(node) -> [id : ID, age : Ages]]
      BY <1>4, <1>5
    <2>2. edge' \in [1..Len(edge) -> [source : Nat, target : Nat, age : Ages]]
      BY <1>4, <1>6
    <2>3. /\ node' \in Seq([id : ID, age : Ages])
          /\ edge' \in Seq([source : Nat, target : Nat, age : Ages])
      BY <1>2, <2>1, <2>2, FunctionIsSeq
    <2>. QED BY <1>2, <2>1, <2>2, <2>3, LenProperties
  <1>8. TypedGraph(Graph')
    <2>1. Graph' \in [node : Seq([id : ID, age : Ages]),
                      edge : Seq([source : Nat, target : Nat, age : Ages]),
                      Nodes : Seq(Nat), Edges : Seq(Nat)]
      BY <1>3, <1>4, <1>7 DEF Graph
    <2>2. \A r \in 1..Len(edge') : {edge'[r].source, edge'[r].target} \subseteq 1..Len(node')
      BY <1>3, <1>6, <1>7
    <2>3. /\ \A k \in 1..Len(Nodes') : Nodes'[k] \in 0..Len(node')
          /\ \A k \in 1..Len(Edges') : Edges'[k] \in 0..Len(edge')
      BY <1>3, <1>4, <1>7
    <2>. QED BY <2>1, <2>2, <2>3, GraphFields DEF TypedGraph
  <1>9. ASSUME NEW k \in 1..Len(Nodes), Nodes[k] # Nil PROVE Nodes[k] \in 1..Len(node)
    <2>1. Nodes[k] \in 0..Len(node) /\ Nodes[k] # 0
      BY <1>3, <1>9 DEF Nil
    <2>. QED BY <1>2, <2>1
  <1>10. ASSUME NEW k \in 1..Len(Edges), Edges[k] # Nil PROVE Edges[k] \in 1..Len(edge)
    <2>1. Edges[k] \in 0..Len(edge) /\ Edges[k] # 0
      BY <1>3, <1>10 DEF Nil
    <2>. QED BY <1>2, <2>1
  <1>11. ASSUME NEW k \in 1..Len(Edges), Edges[k] # Nil
         PROVE  /\ edge'[Edges[k]].source = edge[Edges[k]].source
                /\ edge'[Edges[k]].target = edge[Edges[k]].target
                /\ edge'[Edges[k]].age = Aged(edge[Edges[k]].age)
                /\ node'[edge[Edges[k]].source].id = node[edge[Edges[k]].source].id
                /\ node'[edge[Edges[k]].target].id = node[edge[Edges[k]].target].id
                /\ edge[Edges[k]].age \in Ages
    <2>1. Edges[k] \in 1..Len(edge)
      BY <1>10, <1>11, Zenon
    <2>2. edge[Edges[k]].source \in 1..Len(node) /\ edge[Edges[k]].target \in 1..Len(node)
      BY <1>3, <2>1, Zenon
    <2>. QED BY <1>2, <1>5, <1>6, <2>1, <2>2
  <1>12. Once(Graph')
    <2>1. ASSUME NEW k \in 1..Len(Nodes), NEW l \in 1..Len(Nodes),
                 Nodes[k] # Nil, Nodes[l] # Nil, node'[Nodes[k]].id = node'[Nodes[l]].id
          PROVE  k = l
      <3>1. node[Nodes[k]].id = node[Nodes[l]].id
        BY <1>5, <1>9, <2>1
      <3>. QED BY <1>1, <2>1, <3>1, GraphFields DEF Once
    <2>2. ASSUME NEW k \in 1..Len(Edges), NEW l \in 1..Len(Edges),
                 Edges[k] # Nil, Edges[l] # Nil,
                 node'[edge'[Edges[k]].source].id = node'[edge'[Edges[l]].source].id,
                 node'[edge'[Edges[k]].target].id = node'[edge'[Edges[l]].target].id
          PROVE  k = l
      <3>1. /\ node[edge[Edges[k]].source].id = node[edge[Edges[l]].source].id
            /\ node[edge[Edges[k]].target].id = node[edge[Edges[l]].target].id
        BY <1>11, <2>2
      <3>. QED BY <1>1, <2>2, <3>1, GraphFields DEF Once
    <2>3. \A k, l \in 1..Len(Graph'.Nodes) :
            /\ Graph'.Nodes[k] # Nil /\ Graph'.Nodes[l] # Nil
            /\ Graph'.node[Graph'.Nodes[k]].id = Graph'.node[Graph'.Nodes[l]].id
            => k = l
      BY <1>4, <2>1, GraphFields
    <2>4. ASSUME NEW k \in 1..Len(Graph'.Edges), NEW l \in 1..Len(Graph'.Edges),
                 Graph'.Edges[k] # Nil, Graph'.Edges[l] # Nil,
                 Graph'.node[Graph'.edge[Graph'.Edges[k]].source].id
                   = Graph'.node[Graph'.edge[Graph'.Edges[l]].source].id,
                 Graph'.node[Graph'.edge[Graph'.Edges[k]].target].id
                   = Graph'.node[Graph'.edge[Graph'.Edges[l]].target].id
          PROVE  k = l
      <3>1. Graph'.Edges = Edges /\ Graph'.edge = edge' /\ Graph'.node = node'
        BY <1>4, GraphFields
      <3>. QED BY <2>2, <2>4, <3>1
    <2>. QED BY <2>3, <2>4, Zenon DEF Once
  <1>13. ASSUME NEW x, NEW a \in Ages, HasNode(Graph, x, a) PROVE HasNode(Graph', x, Aged(a))
    <2>1. PICK k \in 1..Len(Nodes) : Nodes[k] # Nil /\ node[Nodes[k]].id = x /\ node[Nodes[k]].age <= a
      BY <1>13, GraphFields DEF HasNode
    <2>2. Nodes[k] \in 1..Len(node)
      BY <1>9, <2>1
    <2>3. node[Nodes[k]].age \in Ages
      BY <1>2, <2>2
    <2>4. node'[Nodes[k]].id = x /\ node'[Nodes[k]].age <= Aged(a)
      BY <1>5, <2>1, <2>2, <2>3, AgedAges
    <2>5. /\ k \in 1..Len(Graph'.Nodes) /\ Graph'.Nodes[k] # Nil
          /\ Graph'.node[Graph'.Nodes[k]].id = x /\ Graph'.node[Graph'.Nodes[k]].age <= Aged(a)
      BY <1>4, <2>1, <2>4, GraphFields, Zenon
    <2>. QED BY <2>5, Zenon DEF HasNode
  <1>14. Backed(Graph')
    <2>. SUFFICES ASSUME NEW k \in 1..Len(Edges), Edges[k] # Nil,
                         ~Expired(edge'[Edges[k]].age)
                  PROVE  LET e == edge'[Edges[k]]
                         IN /\ HasNode(Graph', node'[e.source].id, e.age)
                            /\ HasNode(Graph', node'[e.target].id, e.age)
      BY <1>4, GraphFields DEF Backed
    <2>1. ~Expired(edge[Edges[k]].age)
      BY <1>11, AgedAges
    <2>2. /\ HasNode(Graph, node[edge[Edges[k]].source].id, edge[Edges[k]].age)
          /\ HasNode(Graph, node[edge[Edges[k]].target].id, edge[Edges[k]].age)
      BY <1>1, <2>1, GraphFields DEF Backed
    <2>3. /\ HasNode(Graph', node[edge[Edges[k]].source].id, Aged(edge[Edges[k]].age))
          /\ HasNode(Graph', node[edge[Edges[k]].target].id, Aged(edge[Edges[k]].age))
      BY <1>11, <1>13, <2>2, Zenon
    <2>. QED BY <1>11, <2>3, Zenon
  <1>15. PassInv'
    BY <1>1, <1>4 DEF PassInv
  <1>. QED BY <1>8, <1>12, <1>14, <1>15 DEF TopoInv

\* What a pass makes of a list.
Remains(L, M, object) ==
  /\ M \in Seq(Nat)
  /\ \A j \in 1..Len(M) : M[j] = Nil \/ \E a \in 1..Len(L) : M[j] = L[a]
  /\ Part(L, M)
  /\ Kept(L, M, object)

LEMMA RemainsSame == ASSUME NEW L \in Seq(Nat), NEW object PROVE Remains(L, L, object)
  BY PartSame DEF Remains, Kept

\* An element that is expired goes.
LEMMA SwapOutRemains ==
  ASSUME NEW L \in Seq(Nat), NEW n \in Nat, Shortened(L, n),
         NEW k \in 1..Len(L), L[k] # Nil, NEW object, Expired(object[L[k]].age),
         NEW M, M = SwapOut(L, k, n)
  PROVE  n - 1 \in Nat /\ Shortened(M, n - 1) /\ Remains(L, M, object)
  <1>0. Swapped(L, n, k, M)
    BY SwapOutPart
  <1>1. /\ M \in Seq(Nat) /\ Len(M) = Len(L) /\ n - 1 \in Nat /\ Shortened(M, n - 1)
        /\ \A j \in 1..Len(L) : M[j] = Nil \/ \E a \in 1..Len(L) : M[j] = L[a]
        /\ \A l \in 1..Len(L) : L[l] # Nil /\ l # k => \E j \in 1..Len(M) : M[j] = L[l]
        /\ Part(L, M)
    BY <1>0 DEF Swapped
  <1>2. Kept(L, M, object)
    BY <1>1 DEF Kept
  <1>. QED BY <1>1, <1>2 DEF Remains

\* The nil entries go.
LEMMA SubSeqRemains ==
  ASSUME NEW L \in Seq(Nat), NEW n \in Nat, Shortened(L, n), NEW object,
         NEW M, M = SubSeq(L, 1, n)
  PROVE  Remains(L, M, object) /\ \A k \in 1..Len(M) : M[k] # Nil
  <1>0. Cut(L, n, M)
    BY SubSeqPart
  <1>1. /\ M \in Seq(Nat) /\ Len(M) = n
        /\ \A j \in 1..n : j \in 1..Len(L) /\ M[j] = L[j] /\ M[j] # Nil
        /\ \A l \in 1..Len(L) : L[l] # Nil => \E j \in 1..Len(M) : M[j] = L[l]
        /\ Part(L, M)
    BY <1>0 DEF Cut
  <1>2. Kept(L, M, object)
    BY <1>1 DEF Kept
  <1>. QED BY <1>1, <1>2 DEF Remains

\* What a step of a pass does.
PassStep ==
  /\ node' = node /\ edge' = edge
  /\ Remains(Nodes, Nodes', node)
  /\ Remains(Edges, Edges', edge)

\* A step of a pass: the objects stay, a list loses elements.
LEMMA PassStepInv ==
  ASSUME TopoInv, PassStep, PassInv'
  PROVE  TopoInv'
  <1>1. TypedGraph(Graph) /\ Once(Graph) /\ Backed(Graph)
    BY DEF TopoInv
  <1>0. node' = node /\ edge' = edge /\ Nodes' \in Seq(Nat) /\ Edges' \in Seq(Nat)
    BY DEF PassStep, Remains
  <1>2. /\ Len(node) \in Nat /\ Len(edge) \in Nat
        /\ \A k \in 1..Len(Nodes) : Nodes[k] \in 0..Len(node)
        /\ \A k \in 1..Len(Edges) : Edges[k] \in 0..Len(edge)
        /\ \A r \in 1..Len(edge) : {edge[r].source, edge[r].target} \subseteq 1..Len(node)
    BY <1>1, ListsAreSequences, GraphFields DEF TypedGraph
  <1>3. /\ \A k \in 1..Len(Nodes') : Nodes'[k] \in 0..Len(node)
        /\ \A k \in 1..Len(Edges') : Edges'[k] \in 0..Len(edge)
    <2>1. Nil \in 0..Len(node) /\ Nil \in 0..Len(edge)
      BY <1>2 DEF Nil
    <2>2. ASSUME NEW k \in 1..Len(Nodes') PROVE Nodes'[k] \in 0..Len(node)
      BY <1>2, <2>1 DEF PassStep, Remains
    <2>3. ASSUME NEW k \in 1..Len(Edges') PROVE Edges'[k] \in 0..Len(edge)
      BY <1>2, <2>1 DEF PassStep, Remains
    <2>. QED BY <2>2, <2>3
  <1>4. TypedGraph(Graph')
    <2>1. Graph' \in [node : Seq([id : ID, age : Ages]),
                      edge : Seq([source : Nat, target : Nat, age : Ages]),
                      Nodes : Seq(Nat), Edges : Seq(Nat)]
      BY <1>0, <1>1, GraphParts, GraphFields DEF Graph
    <2>. QED BY <1>0, <1>2, <1>3, <2>1, GraphFields DEF TypedGraph
  <1>5. Once(Graph')
    BY <1>0, <1>1, OncePart, GraphFields DEF PassStep, Remains
  <1>6. Backed(Graph')
    <2>1. Kept(Graph.Nodes, Graph'.Nodes, Graph.node)
      BY GraphFields DEF PassStep, Remains
    <2>. QED BY <1>0, <1>1, <2>1, BackedPart, GraphFields DEF PassStep, Remains
  <1>. QED BY <1>4, <1>5, <1>6 DEF TopoInv

\* The steps of a pass.
LEMMA CleanStep ==
  ASSUME TopoInv, Clean
  PROVE  PassStep /\ PassInv'
  <1>1. TypedGraph(Graph) /\ PassInv
    BY DEF TopoInv
  <1>2. /\ Nodes \in Seq(Nat) /\ Edges \in Seq(Nat)
        /\ Len(Nodes) \in Nat /\ Len(Edges) \in Nat
    BY <1>1, ListsAreSequences
  <1>3. i \in Nat \ {0} /\ live \in Nat
    BY <1>1 DEF PassInv
  <1>4. Remains(Nodes, Nodes, node) /\ Remains(Edges, Edges, edge)
    BY <1>2, RemainsSame
  <1>5. CASE StartPass
    <2>1. /\ pass = "none" /\ pass' = "edges" /\ i' = 1 /\ live' = Len(Edges)
          /\ node' = node /\ edge' = edge /\ Nodes' = Nodes /\ Edges' = Edges
      BY <1>5 DEF StartPass
    <2>2. /\ \A k \in 1..Len(Nodes) : Nodes[k] # Nil
          /\ \A k \in 1..Len(Edges) : Edges[k] # Nil
      BY <1>1, <2>1 DEF PassInv
    <2>3. Shortened(Edges, Len(Edges))
      BY <1>2, <2>2 DEF Shortened
    <2>4. PassInv'
      BY <1>2, <2>1, <2>2, <2>3 DEF PassInv
    <2>. QED BY <1>4, <2>1, <2>4 DEF PassStep
  <1>6. CASE CleanEdge
    <2>1. /\ pass = "edges" /\ pass' = pass /\ i' = i + 1
          /\ node' = node /\ edge' = edge /\ Nodes' = Nodes /\ i <= Len(Edges)
      BY <1>6 DEF CleanEdge
    <2>2. Shortened(Edges, live) /\ \A k \in 1..Len(Nodes) : Nodes[k] # Nil
      BY <1>1, <2>1 DEF PassInv
    <2>3. CASE Edges' = Edges /\ live' = live
      <3>1. PassInv'
        BY <1>3, <2>1, <2>2, <2>3 DEF PassInv
      <3>. QED BY <1>4, <2>1, <2>3, <3>1 DEF PassStep
    <2>4. CASE /\ Edges[i] # Nil /\ Expired(edge[Edges[i]].age)
               /\ Edges' = SwapOut(Edges, i, live) /\ live' = live - 1
      <3>1. i \in 1..Len(Edges)
        BY <1>2, <1>3, <2>1
      <3>2. live - 1 \in Nat /\ Shortened(Edges', live - 1) /\ Remains(Edges, Edges', edge)
        BY <1>2, <1>3, <2>2, <2>4, <3>1, SwapOutRemains
      <3>3. PassInv'
        BY <1>3, <2>1, <2>2, <2>4, <3>2 DEF PassInv
      <3>. QED BY <1>4, <2>1, <3>2, <3>3 DEF PassStep
    <2>. QED BY <1>6, <2>3, <2>4 DEF CleanEdge
  <1>7. CASE EdgesCleaned
    <2>1. /\ pass = "edges" /\ pass' = "nodes" /\ i' = 1 /\ live' = Len(Nodes)
          /\ Edges' = SubSeq(Edges, 1, live)
          /\ node' = node /\ edge' = edge /\ Nodes' = Nodes
      BY <1>7 DEF EdgesCleaned
    <2>2. Shortened(Edges, live) /\ \A k \in 1..Len(Nodes) : Nodes[k] # Nil
      BY <1>1, <2>1 DEF PassInv
    <2>3. Remains(Edges, Edges', edge) /\ \A k \in 1..Len(Edges') : Edges'[k] # Nil
      BY <1>2, <1>3, <2>1, <2>2, SubSeqRemains
    <2>5. Shortened(Nodes, Len(Nodes))
      BY <1>2, <2>2 DEF Shortened
    <2>6. PassInv'
      <3>1. live' \in Nat /\ i' \in Nat \ {0} /\ pass' \in {"none", "edges", "nodes"}
        BY <1>2, <2>1
      <3>2. Shortened(Nodes', live') /\ \A k \in 1..Len(Edges') : Edges'[k] # Nil
        BY <2>1, <2>3, <2>5
      <3>. QED BY <2>1, <3>1, <3>2 DEF PassInv
    <2>. QED BY <1>4, <2>1, <2>3, <2>6 DEF PassStep
  <1>8. CASE CleanNode
    <2>1. /\ pass = "nodes" /\ pass' = pass /\ i' = i + 1
          /\ node' = node /\ edge' = edge /\ Edges' = Edges /\ i <= Len(Nodes)
      BY <1>8 DEF CleanNode
    <2>2. Shortened(Nodes, live) /\ \A k \in 1..Len(Edges) : Edges[k] # Nil
      BY <1>1, <2>1 DEF PassInv
    <2>3. CASE Nodes' = Nodes /\ live' = live
      <3>1. PassInv'
        BY <1>3, <2>1, <2>2, <2>3 DEF PassInv
      <3>. QED BY <1>4, <2>1, <2>3, <3>1 DEF PassStep
    <2>4. CASE /\ Nodes[i] # Nil /\ Expired(node[Nodes[i]].age)
               /\ Nodes' = SwapOut(Nodes, i, live) /\ live' = live - 1
      <3>1. i \in 1..Len(Nodes)
        BY <1>2, <1>3, <2>1
      <3>2. live - 1 \in Nat /\ Shortened(Nodes', live - 1) /\ Remains(Nodes, Nodes', node)
        BY <1>2, <1>3, <2>2, <2>4, <3>1, SwapOutRemains
      <3>3. PassInv'
        BY <1>3, <2>1, <2>2, <2>4, <3>2 DEF PassInv
      <3>. QED BY <1>4, <2>1, <3>2, <3>3 DEF PassStep
    <2>. QED BY <1>8, <2>3, <2>4 DEF CleanNode
  <1>9. CASE NodesCleaned
    <2>1. /\ pass = "nodes" /\ pass' = "none" /\ i' = 1 /\ live' = 0
          /\ Nodes' = SubSeq(Nodes, 1, live)
          /\ node' = node /\ edge' = edge /\ Edges' = Edges
      BY <1>9 DEF NodesCleaned
    <2>2. Shortened(Nodes, live) /\ \A k \in 1..Len(Edges) : Edges[k] # Nil
      BY <1>1, <2>1 DEF PassInv
    <2>3. Remains(Nodes, Nodes', node) /\ \A k \in 1..Len(Nodes') : Nodes'[k] # Nil
      BY <1>2, <1>3, <2>1, <2>2, SubSeqRemains
    <2>5. PassInv'
      <3>1. /\ \A k \in 1..Len(Nodes') : Nodes'[k] # Nil
            /\ \A k \in 1..Len(Edges') : Edges'[k] # Nil
        BY <2>1, <2>2, <2>3
      <3>2. i' \in Nat \ {0} /\ live' \in Nat
        BY <2>1
      <3>. QED BY <2>1, <3>1, <3>2 DEF PassInv
    <2>. QED BY <1>4, <2>1, <2>3, <2>5 DEF PassStep
  <1>. QED BY <1>5, <1>6, <1>7, <1>8, <1>9 DEF Clean

\* The steps that leave both lists as long as they are, or longer.
LEMMA CallStep ==
  ASSUME TopoInv, Next, ~Clean
  PROVE  /\ TopoInv'
         /\ \A k \in 1..Len(Nodes) : k \in 1..Len(Nodes') /\ Nodes'[k] = Nodes[k]
         /\ \A k \in 1..Len(Edges) : k \in 1..Len(Edges') /\ Edges'[k] = Edges[k]
  <1>1. pass = "none" => GoodGraph(Graph)
    <2>1. pass = "none" => NoNil(Graph)
      BY GraphFields DEF TopoInv, PassInv, NoNil
    <2>. QED BY <2>1 DEF GoodGraph, TopoInv
  <1>2. ASSUME NEW p \in Report, Handle(p[1], p[2])
        PROVE  /\ TopoInv'
               /\ \A k \in 1..Len(Nodes) : k \in 1..Len(Nodes') /\ Nodes'[k] = Nodes[k]
               /\ \A k \in 1..Len(Edges) : k \in 1..Len(Edges') /\ Edges'[k] = Edges[k]
    <2>. DEFINE m == MakeEdgeFromIDs(ObtainNode(ObtainNode(Graph, p[1]), p[2]), p[1], p[2])
    <2>1. p[1] \in ID /\ p[2] \in ID
      BY TopologyAssumption
    <2>2. pass = "none" /\ Update(m)
      BY <1>2 DEF Handle
    <2>. HIDE DEF m
    <2>3. GoodGraph(m) /\ Grown(Graph, m)
      BY <1>1, <2>1, <2>2, HandleGood DEF m
    <2>. QED BY <2>2, <2>3, UpdateInv
  <1>3. CASE CreateRoot
    <2>. DEFINE m == ObtainNode(Graph, Root)
    <2>1. pass = "none" /\ Update(m)
      BY <1>3 DEF CreateRoot
    <2>. HIDE DEF m
    <2>2. GoodGraph(m) /\ Grown(Graph, m)
      BY <1>1, <2>1, ObtainNodeGood, TopologyAssumption DEF m
    <2>. QED BY <2>1, <2>2, UpdateInv
  <1>4. CASE Tick
    BY <1>4, TickInv DEF Tick
  <1>. QED BY <1>2, <1>3, <1>4 DEF Next

LEMMA StepInv == TopoInv /\ [Next]_vars => TopoInv'
  <1>. SUFFICES ASSUME TopoInv, [Next]_vars PROVE TopoInv'
    OBVIOUS
  <1>1. CASE Clean
    <2>1. PassStep /\ PassInv'
      BY <1>1, CleanStep
    <2>. QED BY <2>1, PassStepInv
  <1>2. CASE Next /\ ~Clean
    BY <1>2, CallStep
  <1>3. CASE UNCHANGED vars
    <2>1. Graph' = Graph
      BY <1>3 DEF vars, Graph
    <2>2. PassInv'
      BY <1>3 DEF vars, PassInv, TopoInv
    <2>. QED BY <2>1, <2>2 DEF TopoInv
  <1>. QED BY <1>1, <1>2, <1>3 DEF Next

\* The invariant of the calls, the passing of time and the passes.
THEOREM InvHolds == Spec => []TopoInv
  BY InitInv, StepInv, PTL DEF Spec

---------------------------------------------------------------------------
(* The properties.                                                         *)

LEMMA InvType == TopoInv => TypeOK
  <1>. SUFFICES ASSUME TopoInv PROVE TypeOK
    OBVIOUS
  <1>1. TypedGraph(Graph) /\ PassInv
    BY DEF TopoInv
  <1>2. /\ Len(node) \in Nat /\ Len(edge) \in Nat
        /\ DOMAIN node = 1..Len(node) /\ DOMAIN edge = 1..Len(edge)
        /\ Nodes \in Seq(Nat) /\ Edges \in Seq(Nat)
    BY <1>1, ListsAreSequences
  <1>3. /\ node \in Seq([id : ID, age : Ages])
        /\ edge \in Seq([source : Nat, target : Nat, age : Ages])
        /\ \A r \in 1..Len(edge) : edge[r] \in [source : Nat, target : Nat, age : Ages]
    BY <1>1, GraphParts, GraphFields
  <1>4. /\ \A r \in 1..Len(edge) : {edge[r].source, edge[r].target} \subseteq 1..Len(node)
        /\ \A k \in 1..Len(Nodes) : Nodes[k] \in 0..Len(node)
        /\ \A k \in 1..Len(Edges) : Edges[k] \in 0..Len(edge)
    BY <1>1, GraphFields DEF TypedGraph
  <1>5. ASSUME NEW S, NEW T, NEW f \in Seq(S), \A k \in 1..Len(f) : f[k] \in T
        PROVE  f \in Seq(T)
    <2>1. Len(f) \in Nat /\ f \in [1..Len(f) -> S]
      BY LenProperties
    <2>2. f \in [1..Len(f) -> T]
      BY <1>5, <2>1
    <2>. QED BY <2>1, <2>2, FunctionIsSeq
  <1>6. edge \in Seq([source : DOMAIN node, target : DOMAIN node, age : Ages])
    <2>1. ASSUME NEW r \in 1..Len(edge)
          PROVE  edge[r] \in [source : DOMAIN node, target : DOMAIN node, age : Ages]
      BY <1>2, <1>3, <1>4
    <2>. QED BY <1>3, <1>5, <2>1
  <1>7. Nodes \in Seq(DOMAIN node \cup {Nil})
    <2>1. ASSUME NEW k \in 1..Len(Nodes) PROVE Nodes[k] \in DOMAIN node \cup {Nil}
      BY <1>2, <1>4 DEF Nil
    <2>. QED BY <1>2, <1>5, <2>1
  <1>8. Edges \in Seq(DOMAIN edge \cup {Nil})
    <2>1. ASSUME NEW k \in 1..Len(Edges) PROVE Edges[k] \in DOMAIN edge \cup {Nil}
      BY <1>2, <1>4 DEF Nil
    <2>. QED BY <1>2, <1>5, <2>1
  <1>. QED BY <1>1, <1>3, <1>6, <1>7, <1>8 DEF TypeOK, PassInv

LEMMA InvNoPanic == TopoInv => NoPanic
  <1>. SUFFICES ASSUME TopoInv PROVE NoPanic
    OBVIOUS
  <1>1. TypedGraph(Graph) /\ PassInv
    BY DEF TopoInv
  <1>2. DOMAIN Nodes = 1..Len(Nodes) /\ DOMAIN Edges = 1..Len(Edges)
    BY <1>1, ListsAreSequences
  <1>. QED BY <1>1, <1>2 DEF NoPanic, PassInv, Shortened

LEMMA InvListedOnce == TopoInv => ListedOnce
  <1>. SUFFICES ASSUME TopoInv PROVE ListedOnce
    OBVIOUS
  <1>1. TypedGraph(Graph) /\ Once(Graph)
    BY DEF TopoInv
  <1>2. DOMAIN Nodes = 1..Len(Nodes) /\ DOMAIN Edges = 1..Len(Edges)
    BY <1>1, ListsAreSequences
  <1>. QED BY <1>1, <1>2, GraphFields DEF ListedOnce, Once, SourceID, TargetID

LEMMA InvLinksHaveNodes == TopoInv => LinksHaveNodes
  <1>. SUFFICES ASSUME TopoInv, NEW e \in Listed(Edges), ~Expired(edge[e].age)
                PROVE  {SourceID(e), TargetID(e)} \subseteq {node[n].id : n \in Listed(Nodes)}
    BY DEF LinksHaveNodes
  <1>1. TypedGraph(Graph) /\ Backed(Graph)
    BY DEF TopoInv
  <1>2. DOMAIN Nodes = 1..Len(Nodes) /\ DOMAIN Edges = 1..Len(Edges)
    BY <1>1, ListsAreSequences
  <1>3. PICK k \in 1..Len(Edges) : e = Edges[k] /\ Edges[k] # Nil
    BY <1>2 DEF Listed
  <1>4. HasNode(Graph, SourceID(e), edge[e].age) /\ HasNode(Graph, TargetID(e), edge[e].age)
    BY <1>1, <1>3, GraphFields DEF Backed, SourceID, TargetID
  <1>5. ASSUME NEW x, HasNode(Graph, x, edge[e].age)
        PROVE  x \in {node[n].id : n \in Listed(Nodes)}
    <2>1. PICK l \in 1..Len(Nodes) : Nodes[l] # Nil /\ node[Nodes[l]].id = x
      BY <1>5, GraphFields DEF HasNode
    <2>2. Nodes[l] \in Listed(Nodes)
      BY <1>2, <2>1 DEF Listed
    <2>. QED BY <2>1, <2>2
  <1>. QED BY <1>4, <1>5

\* What a list keeps it lists.
LEMMA KeptListed ==
  ASSUME NEW L \in Seq(Nat), NEW M \in Seq(Nat), NEW object, Kept(L, M, object),
         NEW n \in Listed(L), ~Expired(object[n].age)
  PROVE  n \in Listed(M)
  <1>1. DOMAIN L = 1..Len(L) /\ DOMAIN M = 1..Len(M)
    BY LenProperties
  <1>2. PICK k \in 1..Len(L) : n = L[k] /\ n # Nil
    BY <1>1 DEF Listed
  <1>3. PICK j \in 1..Len(M) : M[j] = n
    BY <1>2 DEF Kept
  <1>. QED BY <1>1, <1>2, <1>3 DEF Listed

Fresh ==
  /\ \A n \in Listed(Nodes) : ~Expired(node[n].age) => n \in Listed(Nodes)'
  /\ \A e \in Listed(Edges) : ~Expired(edge[e].age) => e \in Listed(Edges)'

LEMMA FreshStep == TopoInv /\ TopoInv' /\ [Next]_vars => [Fresh]_vars
  <1>. SUFFICES ASSUME TopoInv, TopoInv', Next PROVE Fresh
    OBVIOUS
  <1>1. /\ Nodes \in Seq(Nat) /\ Edges \in Seq(Nat)
        /\ Nodes' \in Seq(Nat) /\ Edges' \in Seq(Nat)
    <2>1. TypedGraph(Graph) /\ TypedGraph(Graph')
      BY DEF TopoInv
    <2>. QED BY <2>1, GraphParts, GraphFields
  <1>2. Kept(Nodes, Nodes', node) /\ Kept(Edges, Edges', edge)
    <2>1. CASE Clean
      BY <2>1, CleanStep DEF PassStep, Remains
    <2>2. CASE ~Clean
      <3>1. /\ \A k \in 1..Len(Nodes) : k \in 1..Len(Nodes') /\ Nodes'[k] = Nodes[k]
            /\ \A k \in 1..Len(Edges) : k \in 1..Len(Edges') /\ Edges'[k] = Edges[k]
        BY <2>2, CallStep
      <3>. QED BY <3>1 DEF Kept
    <2>. QED BY <2>1, <2>2
  <1>3. ASSUME NEW n \in Listed(Nodes), ~Expired(node[n].age) PROVE n \in Listed(Nodes')
    BY <1>1, <1>2, <1>3, KeptListed
  <1>4. ASSUME NEW e \in Listed(Edges), ~Expired(edge[e].age) PROVE e \in Listed(Edges')
    BY <1>1, <1>2, <1>4, KeptListed
  <1>. QED BY <1>3, <1>4 DEF Fresh, Listed

---------------------------------------------------------------------------
(* The directory.                                                          *)

\* What the lists of a graph show.
DevicesOf(g) == {g.node[g.Nodes[k]] : k \in {j \in 1..Len(g.Nodes) : g.Nodes[j] # Nil}}
Entry(g, r) == [source |-> g.node[g.edge[r].source].id, target |-> g.node[g.edge[r].target].id,
                age |-> g.edge[r].age]
LinksOf(g) == {Entry(g, g.Edges[k]) : k \in {j \in 1..Len(g.Edges) : g.Edges[j] # Nil}}

Renewed(D, ids) == {d \in D : d.id \notin ids} \cup [id : ids, age : {0}]
Relinked(L, x, y) == {l \in L : ~(l.source = x /\ l.target = y)} \cup
                     {[source |-> x, target |-> y, age |-> 0]}

LEMMA ListedOf ==
  ASSUME NEW list \in Seq(Nat)
  PROVE  Listed(list) = {list[k] : k \in {j \in 1..Len(list) : list[j] # Nil}}
  <1>1. DOMAIN list = 1..Len(list)
    BY LenProperties
  <1>. QED BY <1>1 DEF Listed

LEMMA DevicesTyped ==
  ASSUME NEW g, TypedGraph(g)
  PROVE  DevicesOf(g) \subseteq [id : ID, age : Ages]
  BY RefsOf, GraphParts DEF DevicesOf

\* The nodes of a report are renewed one by one, and more than once.
LEMMA RenewedTwice ==
  ASSUME NEW D \in SUBSET [id : ID, age : Ages], NEW x \in ID, NEW y \in ID
  PROVE  Renewed(Renewed(D, {x}), {y}) = Renewed(D, {x, y})
  <1>1. ASSUME NEW d \in Renewed(Renewed(D, {x}), {y}) PROVE d \in Renewed(D, {x, y})
    BY <1>1 DEF Renewed
  <1>2. ASSUME NEW d \in Renewed(D, {x, y}) PROVE d \in Renewed(Renewed(D, {x}), {y})
    BY <1>2 DEF Renewed
  <1>. QED BY <1>1, <1>2

LEMMA RenewedAgain ==
  ASSUME NEW D \in SUBSET [id : ID, age : Ages], NEW X \in SUBSET ID, NEW x \in X
  PROVE  Renewed(Renewed(D, X), {x}) = Renewed(D, X)
  <1>1. ASSUME NEW d \in Renewed(Renewed(D, X), {x}) PROVE d \in Renewed(D, X)
    BY <1>1 DEF Renewed
  <1>2. ASSUME NEW d \in Renewed(D, X) PROVE d \in Renewed(Renewed(D, X), {x})
    BY <1>2 DEF Renewed
  <1>. QED BY <1>1, <1>2

LEMMA RenewedOne ==
  ASSUME NEW D, NEW x
  PROVE  Renewed(D, {x}) = {d \in D : d.id # x} \cup {[id |-> x, age |-> 0]}
  <1>1. [id : {x}, age : {0}] = {[id |-> x, age |-> 0]}
    <2>1. ASSUME NEW d \in [id : {x}, age : {0}] PROVE d = [id |-> x, age |-> 0]
      OBVIOUS
    <2>2. [id |-> x, age |-> 0] \in [id : {x}, age : {0}]
      OBVIOUS
    <2>. QED BY <2>1, <2>2
  <1>2. {d \in D : d.id \notin {x}} = {d \in D : d.id # x}
    OBVIOUS
  <1>. QED BY <1>1, <1>2, Zenon DEF Renewed

\* Links are shown by the ids of their nodes, which stay.
LEMMA LinksShown ==
  ASSUME NEW g, NEW h, TypedGraph(g), Grown(g, h), h.edge = g.edge, h.Edges = g.Edges
  PROVE  LinksOf(h) = LinksOf(g)
  <1>1. ASSUME NEW k \in 1..Len(g.Edges), g.Edges[k] # Nil
        PROVE  Entry(h, h.Edges[k]) = Entry(g, g.Edges[k])
    <2>1. g.Edges[k] \in 1..Len(g.edge)
      BY <1>1, RefsOf
    <2>2. /\ g.edge[g.Edges[k]].source \in 1..Len(g.node)
          /\ g.edge[g.Edges[k]].target \in 1..Len(g.node)
      BY <2>1, RefsOf
    <2>. QED BY <2>2 DEF Grown, Entry
  <1>. QED BY <1>1 DEF LinksOf

\* A node object that is touched shows when it is listed and was not young.
LEMMA TouchedShown ==
  ASSUME NEW g, GoodGraph(g), NEW r \in 1..Len(g.node), NEW h, h = Touched(g, r)
  PROVE  /\ h.node[r] = [id |-> g.node[r].id, age |-> 0]
         /\ \A q \in 1..Len(g.node) : q # r => h.node[q] = g.node[q]
  <1>1. g.node \in Seq([id : ID, age : Ages]) /\ g.node[r] \in [id : ID, age : Ages]
    BY GraphParts DEF GoodGraph
  <1>. DEFINE new == [g.node[r] EXCEPT !.age = 0]
  <1>2. h.node = [g.node EXCEPT ![r] = new]
    BY DEF Touched, GoodGraph, TypedGraph
  <1>3. new = [id |-> g.node[r].id, age |-> 0] /\ new \in [id : ID, age : Ages]
    BY <1>1, AgesAreNumbers
  <1>. HIDE DEF new
  <1>4. \A q \in 1..Len(g.node) : h.node[q] = IF q = r THEN new ELSE g.node[q]
    BY <1>1, <1>2, <1>3, ExceptSeq
  <1>. QED BY <1>3, <1>4

\* An object that is young already, or not listed, does not show.
LEMMA TouchedUnseen ==
  ASSUME NEW g, GoodGraph(g), NEW r \in 1..Len(g.node), NEW h, h = Touched(g, r),
         \A d \in DevicesOf(g) : d.id = g.node[r].id => d.age = 0
  PROVE  DevicesOf(h) = DevicesOf(g)
  <1>1. h.Nodes = g.Nodes /\ \A k \in 1..Len(g.Nodes) : g.Nodes[k] # Nil => g.Nodes[k] \in 1..Len(g.node)
    BY TouchedGood, RefsOf DEF GoodGraph
  <1>2. ASSUME NEW k \in 1..Len(g.Nodes), g.Nodes[k] # Nil
        PROVE  h.node[g.Nodes[k]] = g.node[g.Nodes[k]]
    <2>1. CASE g.Nodes[k] # r
      <3>1. g.Nodes[k] \in 1..Len(g.node)
        BY <1>1, <1>2
      <3>2. \A q \in 1..Len(g.node) : q # r => h.node[q] = g.node[q]
        BY TouchedShown
      <3>. QED BY <2>1, <3>1, <3>2
    <2>2. CASE g.Nodes[k] = r
      <3>1. g.node[r] \in DevicesOf(g)
        BY <1>2, <2>2 DEF DevicesOf
      <3>2. g.node[r] \in [id : ID, age : Ages] /\ g.node[r].age = 0
        BY <3>1, GraphParts DEF GoodGraph
      <3>3. g.node[r] = [id |-> g.node[r].id, age |-> 0]
        BY <3>2
      <3>. QED BY <2>2, <3>3, TouchedShown
    <2>. QED BY <2>1, <2>2
  <1>. QED BY <1>1, <1>2 DEF DevicesOf

\* ObtainNode renews the one entry.
LEMMA ObtainNodeShown ==
  ASSUME NEW g, GoodGraph(g), NEW x \in ID, NEW h, h = ObtainNode(g, x)
  PROVE  DevicesOf(h) = Renewed(DevicesOf(g), {x}) /\ LinksOf(h) = LinksOf(g)
  <1>. DEFINE r == GetNodeFromID(g, x)
              new == [id |-> x, age |-> 0]
  <1>0. TypedGraph(g)
    BY DEF GoodGraph
  <1>1. LinksOf(h) = LinksOf(g)
    BY <1>0, ObtainNodeGood, LinksShown
  <1>2. /\ \A k \in 1..Len(g.Nodes) : g.Nodes[k] # Nil /\ g.Nodes[k] \in 1..Len(g.node)
        /\ \A q \in 1..Len(g.node) : g.node[q] \in [id : ID, age : Ages]
        /\ Len(g.Nodes) \in Nat /\ Len(g.node) \in Nat
        /\ g.node \in Seq([id : ID, age : Ages]) /\ g.Nodes \in Seq(Nat)
    BY <1>0, GraphParts, RefsOf DEF GoodGraph, NoNil
  <1>3. CASE r = Nil
    <2>1. h = WithNode(g, x) /\ \A k \in 1..Len(g.Nodes) : g.node[g.Nodes[k]].id # x
      <3>1. h = WithNode(g, x)
        BY <1>3 DEF ObtainNode, WithNode
      <3>2. \A k \in 1..Len(g.Nodes) : g.node[g.Nodes[k]].id # x
        BY <1>0, <1>2, <1>3, NodeFound
      <3>. QED BY <3>1, <3>2
    <2>2. h.node = Append(g.node, new) /\ h.Nodes = Append(g.Nodes, Len(g.node) + 1)
      BY <1>0, <2>1 DEF WithNode, TypedGraph
    <2>3. new \in [id : ID, age : Ages] /\ Len(g.node) + 1 \in Nat
      BY <1>2, AgesAreNumbers
    <2>. HIDE DEF new
    <2>4. /\ Len(h.Nodes) = Len(g.Nodes) + 1
          /\ h.Nodes[Len(g.Nodes) + 1] = Len(g.node) + 1 /\ h.node[Len(g.node) + 1] = new
          /\ \A k \in 1..Len(g.Nodes) : h.Nodes[k] = g.Nodes[k]
          /\ \A q \in 1..Len(g.node) : h.node[q] = g.node[q]
      BY <1>2, <2>2, <2>3, AppendProperties
    <2>5. ASSUME NEW k \in 1..Len(g.Nodes)
          PROVE  h.node[h.Nodes[k]] = g.node[g.Nodes[k]] /\ k \in 1..Len(h.Nodes) /\ h.Nodes[k] # Nil
      <3>1. h.Nodes[k] = g.Nodes[k] /\ g.Nodes[k] # Nil /\ g.Nodes[k] \in 1..Len(g.node)
        BY <1>2, <2>4, Zenon
      <3>2. k \in 1..Len(h.Nodes)
        BY <1>2, <2>4
      <3>. QED BY <2>4, <3>1, <3>2, Zenon
    <2>6. /\ Len(g.Nodes) + 1 \in 1..Len(h.Nodes) /\ h.Nodes[Len(g.Nodes) + 1] # Nil
          /\ h.node[h.Nodes[Len(g.Nodes) + 1]] = new
      BY <1>2, <2>4 DEF Nil
    <2>7. DevicesOf(h) = DevicesOf(g) \cup {new}
      <3>1. ASSUME NEW d \in DevicesOf(h) PROVE d \in DevicesOf(g) \cup {new}
        <4>1. PICK k \in 1..Len(h.Nodes) : d = h.node[h.Nodes[k]]
          BY DEF DevicesOf
        <4>2. CASE k = Len(g.Nodes) + 1
          BY <2>6, <4>1, <4>2
        <4>3. CASE k # Len(g.Nodes) + 1
          <5>1. k \in 1..Len(g.Nodes)
            BY <1>2, <2>4, <4>3
          <5>. QED BY <1>2, <2>5, <4>1, <5>1 DEF DevicesOf
        <4>. QED BY <4>2, <4>3
      <3>2. ASSUME NEW d \in DevicesOf(g) PROVE d \in DevicesOf(h)
        <4>1. PICK k \in 1..Len(g.Nodes) : d = g.node[g.Nodes[k]]
          BY DEF DevicesOf
        <4>. QED BY <2>5, <4>1 DEF DevicesOf
      <3>3. new \in DevicesOf(h)
        BY <2>6 DEF DevicesOf
      <3>. QED BY <3>1, <3>2, <3>3
    <2>8. \A d \in DevicesOf(g) : d.id # x
      BY <2>1 DEF DevicesOf
    <2>9. {d \in DevicesOf(g) : d.id # x} = DevicesOf(g)
      BY <2>8
    <2>. QED BY <1>1, <2>7, <2>9, RenewedOne DEF new
  <1>4. CASE r # Nil
    <2>1. PICK l \in 1..Len(g.Nodes) : r = g.Nodes[l] /\ g.node[g.Nodes[l]].id = x
      BY <1>0, <1>4, NodeFound
    <2>2. h = Touched(g, r) /\ r \in 1..Len(g.node)
      BY <1>2, <1>4, <2>1 DEF ObtainNode
    <2>3. h.node[r] = new /\ \A q \in 1..Len(g.node) : q # r => h.node[q] = g.node[q]
      BY <2>1, <2>2, TouchedShown
    <2>4. h.Nodes = g.Nodes
      BY <2>2, TouchedGood
    <2>5. ASSUME NEW k \in 1..Len(g.Nodes)
          PROVE  h.node[g.Nodes[k]] = IF g.node[g.Nodes[k]].id = x THEN new ELSE g.node[g.Nodes[k]]
      <3>1. CASE k = l
        BY <2>1, <2>3, <3>1
      <3>2. CASE k # l
        <4>1. g.node[g.Nodes[k]].id # x
          BY <1>2, <2>1, <3>2 DEF GoodGraph, Once
        <4>2. g.Nodes[k] # r
          BY <2>1, <4>1
        <4>. QED BY <1>2, <2>3, <4>1, <4>2
      <3>. QED BY <3>1, <3>2
    <2>6. h.node[g.Nodes[l]] = new
      BY <2>1, <2>3
    <2>. HIDE DEF new
    <2>7. DevicesOf(h) = {d \in DevicesOf(g) : d.id # x} \cup {new}
      <3>1. ASSUME NEW d \in DevicesOf(h) PROVE d \in {e \in DevicesOf(g) : e.id # x} \cup {new}
        <4>1. PICK k \in 1..Len(g.Nodes) : d = h.node[g.Nodes[k]]
          BY <2>4 DEF DevicesOf
        <4>2. g.node[g.Nodes[k]] \in DevicesOf(g)
          BY <1>2 DEF DevicesOf
        <4>. QED BY <2>5, <4>1, <4>2
      <3>2. ASSUME NEW d \in DevicesOf(g), d.id # x PROVE d \in DevicesOf(h)
        <4>1. PICK k \in 1..Len(g.Nodes) : d = g.node[g.Nodes[k]]
          BY DEF DevicesOf
        <4>2. h.node[g.Nodes[k]] = d
          BY <2>5, <3>2, <4>1
        <4>. QED BY <1>2, <2>4, <4>2 DEF DevicesOf
      <3>3. new \in DevicesOf(h)
        BY <1>2, <2>4, <2>6 DEF DevicesOf
      <3>. QED BY <3>1, <3>2, <3>3
    <2>. QED BY <1>1, <2>7, RenewedOne DEF new
  <1>. QED BY <1>3, <1>4

\* What is listed of edges, and their entries.
LEMMA EdgeParts ==
  ASSUME NEW g, GoodGraph(g)
  PROVE  /\ \A k \in 1..Len(g.Edges) : g.Edges[k] # Nil /\ g.Edges[k] \in 1..Len(g.edge)
         /\ \A r \in 1..Len(g.edge) : g.edge[r] \in [source : Nat, target : Nat, age : Ages]
         /\ Len(g.Edges) \in Nat /\ Len(g.edge) \in Nat
         /\ g.edge \in Seq([source : Nat, target : Nat, age : Ages]) /\ g.Edges \in Seq(Nat)
  <1>1. TypedGraph(g) /\ NoNil(g)
    BY DEF GoodGraph
  <1>2. \A k \in 1..Len(g.Edges) : g.Edges[k] # Nil /\ g.Edges[k] \in 1..Len(g.edge)
    BY <1>1, RefsOf DEF NoNil
  <1>. QED BY <1>1, <1>2, GraphParts

LEMMA LinksListed ==
  ASSUME NEW g, \A k \in 1..Len(g.Edges) : g.Edges[k] # Nil
  PROVE  LinksOf(g) = {Entry(g, g.Edges[k]) : k \in 1..Len(g.Edges)}
  <1>1. ASSUME NEW e \in LinksOf(g) PROVE e \in {Entry(g, g.Edges[k]) : k \in 1..Len(g.Edges)}
    BY Zenon DEF LinksOf
  <1>2. ASSUME NEW k \in 1..Len(g.Edges) PROVE Entry(g, g.Edges[k]) \in LinksOf(g)
    BY Zenon DEF LinksOf
  <1>. QED BY <1>1, <1>2, Zenon

LEMMA EntriesOnce ==
  ASSUME NEW g, GoodGraph(g), NEW k \in 1..Len(g.Edges), NEW l \in 1..Len(g.Edges), k # l
  PROVE  ~(/\ Entry(g, g.Edges[k]).source = Entry(g, g.Edges[l]).source
           /\ Entry(g, g.Edges[k]).target = Entry(g, g.Edges[l]).target)
  <1>1. Once(g) /\ g.Edges[k] # Nil /\ g.Edges[l] # Nil
    BY DEF GoodGraph, NoNil
  <1>. QED BY <1>1, Zenon DEF Once, Entry

\* The edge that is found is renewed.
LEMMA YoungShown ==
  ASSUME NEW g, GoodGraph(g), NEW l \in 1..Len(g.Edges), NEW r, r = g.Edges[l],
         NEW h, h = WithYoung(g, r), NEW x, x = g.node[g.edge[r].source].id,
         NEW y, y = g.node[g.edge[r].target].id
  PROVE  DevicesOf(h) = DevicesOf(g) /\ LinksOf(h) = Relinked(LinksOf(g), x, y)
  <1>. DEFINE old == [g.edge[r] EXCEPT !.age = 0]
              new == [source |-> x, target |-> y, age |-> 0]
  <1>0. LinksOf(g) = {Entry(g, g.Edges[k]) : k \in 1..Len(g.Edges)}
    BY LinksListed DEF GoodGraph, NoNil
  <1>1. r \in 1..Len(g.edge) /\ g.edge[r] \in [source : Nat, target : Nat, age : Ages]
    BY EdgeParts
  <1>2. /\ h.node = g.node /\ h.Nodes = g.Nodes /\ h.Edges = g.Edges
        /\ h.edge = [g.edge EXCEPT ![r] = old]
    BY DEF WithYoung, GoodGraph, TypedGraph
  <1>3. /\ old \in [source : Nat, target : Nat, age : Ages]
        /\ old.source = g.edge[r].source /\ old.target = g.edge[r].target /\ old.age = 0
    <2>1. old = [source |-> g.edge[r].source, target |-> g.edge[r].target, age |-> 0]
      BY <1>1
    <2>. QED BY <1>1, <2>1, AgesAreNumbers
  <1>. HIDE DEF old
  <1>4. h.edge[r] = old /\ \A q \in 1..Len(g.edge) : q # r => h.edge[q] = g.edge[q]
    <2>1. g.edge \in Seq([source : Nat, target : Nat, age : Ages])
      BY EdgeParts
    <2>2. \A q \in 1..Len(g.edge) :
            [g.edge EXCEPT ![r] = old][q] = IF q = r THEN old ELSE g.edge[q]
      BY ONLY <1>1, <1>3, <2>1, ExceptSeq
    <2>. QED BY ONLY <1>1, <1>2, <2>2, Zenon
  <1>5. Entry(h, r) = new
    <2>1. h.edge[r].source = g.edge[r].source /\ h.edge[r].target = g.edge[r].target
      BY ONLY <1>3, <1>4, Zenon
    <2>2. h.edge[r].age = 0
      BY ONLY <1>3, <1>4, Zenon
    <2>3. h.node[h.edge[r].source].id = x /\ h.node[h.edge[r].target].id = y
      BY ONLY <1>2, <2>1, x = g.node[g.edge[r].source].id, y = g.node[g.edge[r].target].id, Zenon
    <2>. QED BY ONLY <2>2, <2>3, Zenon DEF Entry, new
  <1>6. ASSUME NEW q \in 1..Len(g.edge), q # r PROVE Entry(h, q) = Entry(g, q)
    <2>1. h.edge[q] = g.edge[q]
      BY <1>4, <1>6, Zenon
    <2>. QED BY ONLY <1>2, <2>1, Zenon DEF Entry
  <1>7. LinksOf(h) = {Entry(h, g.Edges[k]) : k \in 1..Len(g.Edges)}
    <2>1. \A k \in 1..Len(h.Edges) : h.Edges[k] # Nil
      BY <1>2, Zenon DEF GoodGraph, NoNil
    <2>2. LinksOf(h) = {Entry(h, h.Edges[k]) : k \in 1..Len(h.Edges)}
      BY ONLY <2>1, LinksListed
    <2>. QED BY ONLY <1>2, <2>2, Zenon
  <1>8. Entry(g, r).source = x /\ Entry(g, r).target = y
    BY Zenon DEF Entry
  <1>. HIDE DEF new
  <1>9. ASSUME NEW k \in 1..Len(g.Edges), k # l
        PROVE  /\ Entry(h, g.Edges[k]) = Entry(g, g.Edges[k])
               /\ ~(Entry(g, g.Edges[k]).source = x /\ Entry(g, g.Edges[k]).target = y)
    <2>1. ~(/\ Entry(g, g.Edges[k]).source = Entry(g, g.Edges[l]).source
            /\ Entry(g, g.Edges[k]).target = Entry(g, g.Edges[l]).target)
      BY <1>9, EntriesOnce, Zenon
    <2>2. ~(Entry(g, g.Edges[k]).source = x /\ Entry(g, g.Edges[k]).target = y)
      BY <2>1, <1>8, Zenon
    <2>3. g.Edges[k] # r
      BY ONLY <1>8, <2>2, Zenon
    <2>4. g.Edges[k] \in 1..Len(g.edge)
      BY EdgeParts, Zenon
    <2>. QED BY <1>6, <2>2, <2>3, <2>4, Zenon
  <1>10. LinksOf(h) = {e \in LinksOf(g) : ~(e.source = x /\ e.target = y)} \cup {new}
    <2>1. ASSUME NEW e \in LinksOf(h)
          PROVE  e \in {f \in LinksOf(g) : ~(f.source = x /\ f.target = y)} \cup {new}
      <3>1. PICK k \in 1..Len(g.Edges) : e = Entry(h, g.Edges[k])
        BY ONLY <1>7, <2>1, Zenon
      <3>2. CASE k = l
        <4>1. e = Entry(h, r)
          BY ONLY <3>1, <3>2, r = g.Edges[l], Zenon
        <4>. QED BY ONLY <1>5, <4>1
      <3>3. CASE k # l
        <4>1. e = Entry(g, g.Edges[k]) /\ ~(e.source = x /\ e.target = y)
          BY ONLY <1>9, <3>1, <3>3, Zenon
        <4>2. e \in LinksOf(g)
          BY ONLY <1>0, <4>1, Zenon
        <4>. QED BY ONLY <4>1, <4>2
      <3>. QED BY ONLY <3>2, <3>3
    <2>2. ASSUME NEW e \in LinksOf(g), ~(e.source = x /\ e.target = y) PROVE e \in LinksOf(h)
      <3>1. PICK k \in 1..Len(g.Edges) : e = Entry(g, g.Edges[k])
        BY ONLY <1>0, <2>2, Zenon
      <3>2. k # l
        BY ONLY <1>8, <2>2, <3>1, r = g.Edges[l], Zenon
      <3>. QED BY ONLY <1>7, <1>9, <3>1, <3>2, Zenon
    <2>3. new \in LinksOf(h)
      BY <1>5, <1>7, Zenon
    <2>. QED BY ONLY <2>1, <2>2, <2>3
  <1>11. DevicesOf(h) = DevicesOf(g)
    BY ONLY <1>2, Zenon DEF DevicesOf
  <1>. QED BY ONLY <1>10, <1>11, Zenon DEF Relinked, new

\* One that is not found is added.
LEMMA LinkedShown ==
  ASSUME NEW g, GoodGraph(g), NEW p \in 1..Len(g.node), NEW q \in 1..Len(g.node),
         NEW x, x = g.node[p].id, NEW y, y = g.node[q].id, NoLink(g, x, y),
         NEW h, h = WithEdge(g, p, q, Len(g.edge))
  PROVE  DevicesOf(h) = DevicesOf(g) /\ LinksOf(h) = Relinked(LinksOf(g), x, y)
  <1>. DEFINE object == [source |-> p, target |-> q, age |-> 0]
              new == [source |-> x, target |-> y, age |-> 0]
  <1>0. LinksOf(g) = {Entry(g, g.Edges[k]) : k \in 1..Len(g.Edges)}
    BY LinksListed DEF GoodGraph, NoNil
  <1>1. /\ h.node = g.node /\ h.Nodes = g.Nodes /\ h.edge = Append(g.edge, object)
        /\ h.Edges = Append(g.Edges, Len(g.edge) + 1)
    BY DEF WithEdge, GoodGraph, TypedGraph
  <1>2. object \in [source : Nat, target : Nat, age : Ages] /\ Len(g.edge) + 1 \in Nat
    <2>1. p \in Nat /\ q \in Nat /\ Len(g.edge) \in Nat
      BY GraphParts DEF GoodGraph
    <2>. QED BY <2>1, AgesAreNumbers
  <1>3. object.source = p /\ object.target = q /\ object.age = 0
    OBVIOUS
  <1>. HIDE DEF object
  <1>4. /\ Len(h.Edges) = Len(g.Edges) + 1
        /\ h.Edges[Len(g.Edges) + 1] = Len(g.edge) + 1 /\ h.edge[Len(g.edge) + 1] = object
        /\ \A k \in 1..Len(g.Edges) : h.Edges[k] = g.Edges[k]
        /\ \A k \in 1..Len(g.edge) : h.edge[k] = g.edge[k]
    <2>1. /\ g.Edges \in Seq(Nat) /\ g.edge \in Seq([source : Nat, target : Nat, age : Ages])
          /\ Len(g.edge) \in Nat
      BY EdgeParts
    <2>2. /\ Len(Append(g.Edges, Len(g.edge) + 1)) = Len(g.Edges) + 1
          /\ Append(g.Edges, Len(g.edge) + 1)[Len(g.Edges) + 1] = Len(g.edge) + 1
          /\ \A k \in 1..Len(g.Edges) : Append(g.Edges, Len(g.edge) + 1)[k] = g.Edges[k]
      BY ONLY <1>2, <2>1, AppendProperties
    <2>3. /\ Append(g.edge, object)[Len(g.edge) + 1] = object
          /\ \A k \in 1..Len(g.edge) : Append(g.edge, object)[k] = g.edge[k]
      BY ONLY <1>2, <2>1, AppendProperties
    <2>. QED BY ONLY <1>1, <2>2, <2>3, Zenon
  <1>5. Entry(h, h.Edges[Len(g.Edges) + 1]) = new
    <2>1. h.edge[h.Edges[Len(g.Edges) + 1]] = object
      BY ONLY <1>4, Zenon
    <2>2. h.node[object.source].id = x /\ h.node[object.target].id = y
      BY ONLY <1>1, <1>3, x = g.node[p].id, y = g.node[q].id, Zenon
    <2>. QED BY ONLY <1>3, <2>1, <2>2 DEF Entry, new
  <1>6. ASSUME NEW k \in 1..Len(g.Edges)
        PROVE  /\ Entry(h, h.Edges[k]) = Entry(g, g.Edges[k])
               /\ k \in 1..Len(h.Edges) /\ h.Edges[k] # Nil
    <2>1. h.Edges[k] = g.Edges[k] /\ g.Edges[k] # Nil /\ g.Edges[k] \in 1..Len(g.edge)
      BY <1>4, EdgeParts, Zenon
    <2>2. h.edge[h.Edges[k]] = g.edge[g.Edges[k]]
      BY <1>4, <2>1, Zenon
    <2>3. k \in 1..Len(h.Edges)
      BY <1>4, EdgeParts
    <2>4. Entry(h, h.Edges[k]) = Entry(g, g.Edges[k])
      BY ONLY <1>1, <2>2, Zenon DEF Entry
    <2>. QED BY ONLY <2>1, <2>3, <2>4, Zenon
  <1>7. /\ Len(g.Edges) + 1 \in 1..Len(h.Edges) /\ h.Edges[Len(g.Edges) + 1] # Nil
        /\ \A k \in 1..Len(h.Edges) : k = Len(g.Edges) + 1 \/ k \in 1..Len(g.Edges)
    <2>1. Len(g.Edges) \in Nat /\ Len(g.edge) \in Nat
      BY EdgeParts
    <2>2. Len(g.edge) + 1 # Nil
      BY <2>1 DEF Nil
    <2>. QED BY ONLY <1>4, <2>1, <2>2
  <1>8. \A e \in LinksOf(g) : ~(e.source = x /\ e.target = y)
    <2>1. ASSUME NEW k \in 1..Len(g.Edges)
          PROVE  ~(Entry(g, g.Edges[k]).source = x /\ Entry(g, g.Edges[k]).target = y)
      BY DEF NoLink, Entry
    <2>. SUFFICES ASSUME NEW e \in LinksOf(g) PROVE ~(e.source = x /\ e.target = y)
      OBVIOUS
    <2>2. PICK k \in 1..Len(g.Edges) : e = Entry(g, g.Edges[k])
      BY <1>0
    <2>. QED BY <2>1, <2>2
  <1>. HIDE DEF new
  <1>9. LinksOf(h) = LinksOf(g) \cup {new}
    <2>1. ASSUME NEW e \in LinksOf(h) PROVE e \in LinksOf(g) \cup {new}
      <3>1. PICK k \in 1..Len(h.Edges) : e = Entry(h, h.Edges[k])
        BY DEF LinksOf
      <3>2. CASE k = Len(g.Edges) + 1
        BY ONLY <1>5, <3>1, <3>2, Zenon
      <3>3. CASE k \in 1..Len(g.Edges)
        <4>1. e = Entry(g, g.Edges[k])
          BY ONLY <1>6, <3>1, <3>3, Zenon
        <4>. QED BY ONLY <1>0, <3>3, <4>1, Zenon
      <3>. QED BY <1>7, <3>2, <3>3
    <2>2. ASSUME NEW e \in LinksOf(g) PROVE e \in LinksOf(h)
      <3>1. PICK k \in 1..Len(g.Edges) : e = Entry(g, g.Edges[k])
        BY <1>0
      <3>2. e = Entry(h, h.Edges[k]) /\ k \in {j \in 1..Len(h.Edges) : h.Edges[j] # Nil}
        BY ONLY <1>6, <3>1, Zenon
      <3>. QED BY ONLY <3>2, Zenon DEF LinksOf
    <2>3. new \in LinksOf(h)
      BY <1>5, <1>7 DEF LinksOf
    <2>. QED BY <2>1, <2>2, <2>3
  <1>10. {e \in LinksOf(g) : ~(e.source = x /\ e.target = y)} = LinksOf(g)
    BY ONLY <1>8
  <1>11. DevicesOf(h) = DevicesOf(g)
    BY ONLY <1>1, Zenon DEF DevicesOf
  <1>. QED BY ONLY <1>9, <1>10, <1>11, Zenon DEF Relinked, new

\* Both ids have been renewed before: a node object that is touched once more
\* does not show, whether it is the listed one of its id or an old one.
LEMMA ObtainEdgeShown ==
  ASSUME NEW g, GoodGraph(g), NEW x \in ID, NEW y \in ID,
         HasNode(g, x, 0), HasNode(g, y, 0),
         NEW D \in SUBSET [id : ID, age : Ages], DevicesOf(g) = Renewed(D, {x, y}),
         NEW m, m = ObtainEdge(g, x, y)
  PROVE  DevicesOf(m) = DevicesOf(g) /\ LinksOf(m) = Relinked(LinksOf(g), x, y)
  <1>. DEFINE r == GetEdgeFromID(g, x, y)
              h == ObtainNode(ObtainNode(g, x), y)
  <1>0. TypedGraph(g)
    BY DEF GoodGraph
  <1>1. \A d \in DevicesOf(g) : d.id \in {x, y} => d.age = 0
    BY DEF Renewed
  <1>2. CASE r # Nil
    <2>. DEFINE p == g.edge[r].source
                q == g.edge[r].target
                a == WithYoung(g, r)
                b == Touched(a, p)
    <2>1. m = Touched(b, q)
      BY <1>2 DEF ObtainEdge, WithYoung
    <2>2. PICK k \in 1..Len(g.Edges) : r = g.Edges[k] /\ g.node[p].id = x /\ g.node[q].id = y
      BY <1>0, <1>2, EdgeFound
    <2>3. r \in 1..Len(g.edge)
      BY <1>0, <1>2, <2>2, RefsOf
    <2>4. p \in 1..Len(g.node) /\ q \in 1..Len(g.node)
      BY <1>0, <2>3 DEF TypedGraph
    <2>5. DevicesOf(a) = DevicesOf(g) /\ LinksOf(a) = Relinked(LinksOf(g), x, y)
      BY <2>2, YoungShown
    <2>. HIDE DEF r, p, q, a, b
    <2>6. GoodGraph(a) /\ a.node = g.node
      BY <2>2, <2>3, YoungGood DEF a, p, q
    <2>7. /\ GoodGraph(b) /\ Grown(a, b) /\ Len(b.node) = Len(a.node)
          /\ b.edge = a.edge /\ b.Edges = a.Edges
      BY <2>4, <2>6, TouchedGood DEF b
    <2>8. DevicesOf(b) = DevicesOf(a)
      <3>1. \A d \in DevicesOf(a) : d.id = a.node[p].id => d.age = 0
        BY <1>1, <2>2, <2>5, <2>6
      <3>2. p \in 1..Len(a.node)
        BY <2>4, <2>6
      <3>. QED BY <2>6, <3>1, <3>2, TouchedUnseen DEF b
    <2>9. q \in 1..Len(b.node) /\ b.node[q].id = y
      BY <2>2, <2>4, <2>6, <2>7 DEF Grown
    <2>10. Grown(b, m) /\ m.edge = b.edge /\ m.Edges = b.Edges
      BY <2>1, <2>7, <2>9, TouchedGood
    <2>11. DevicesOf(m) = DevicesOf(b)
      BY <1>1, <2>1, <2>5, <2>7, <2>8, <2>9, TouchedUnseen
    <2>12. LinksOf(b) = LinksOf(a) /\ LinksOf(m) = LinksOf(b)
      BY <2>6, <2>7, <2>10, LinksShown DEF GoodGraph
    <2>. QED BY <2>5, <2>8, <2>11, <2>12
  <1>3. CASE r = Nil
    <2>. DEFINE f == ObtainNode(g, x)
                p == GetNodeFromID(h, x)
                q == GetNodeFromID(h, y)
    <2>1. /\ GoodGraph(f) /\ Grown(g, f) /\ HasNode(f, x, 0)
          /\ f.edge = g.edge /\ f.Edges = g.Edges
      BY ObtainNodeGood
    <2>2. /\ GoodGraph(h) /\ Grown(f, h) /\ HasNode(h, y, 0)
          /\ h.edge = f.edge /\ h.Edges = f.Edges
      BY <2>1, ObtainNodeGood
    <2>3. m = WithEdge(h, p, q, Len(g.edge))
      BY <1>3 DEF ObtainEdge, WithEdge
    <2>4. DevicesOf(f) = Renewed(DevicesOf(g), {x}) /\ LinksOf(f) = LinksOf(g)
      BY ObtainNodeShown
    <2>5. DevicesOf(h) = Renewed(DevicesOf(f), {y}) /\ LinksOf(h) = LinksOf(f)
      BY <2>1, ObtainNodeShown
    <2>6. NoLink(g, x, y)
      BY <1>0, <1>3, EdgeFound DEF GoodGraph, NoNil
    <2>. HIDE DEF f, h, p, q, r
    <2>7. DevicesOf(h) = DevicesOf(g)
      <3>1. {x, y} \in SUBSET ID /\ x \in {x, y} /\ y \in {x, y}
        OBVIOUS
      <3>2. DevicesOf(f) = DevicesOf(g)
        BY ONLY <2>4, <3>1, D \in SUBSET [id : ID, age : Ages],
                DevicesOf(g) = Renewed(D, {x, y}), RenewedAgain
      <3>3. DevicesOf(h) = DevicesOf(f)
        BY ONLY <2>5, <3>1, <3>2, D \in SUBSET [id : ID, age : Ages],
                DevicesOf(g) = Renewed(D, {x, y}), RenewedAgain
      <3>. QED BY <3>2, <3>3
    <2>8. TypedGraph(f) /\ TypedGraph(h)
      BY <2>1, <2>2 DEF GoodGraph
    <2>9. HasNode(h, x, 0)
      BY <2>1, <2>2, <2>8, GrownHas
    <2>10. ASSUME NEW z, HasNode(h, z, 0), NEW n, n = GetNodeFromID(h, z)
           PROVE  n \in 1..Len(h.node) /\ h.node[n].id = z
      <3>1. PICK k \in 1..Len(h.Nodes) : n = h.Nodes[k] /\ h.node[h.Nodes[k]].id = z
        BY <2>8, <2>10, NodeFound DEF HasNode
      <3>2. h.Nodes[k] \in 1..Len(h.node)
        BY <2>2, <2>8, RefsOf DEF GoodGraph, NoNil
      <3>. QED BY <3>1, <3>2
    <2>11. /\ p \in 1..Len(h.node) /\ h.node[p].id = x
           /\ q \in 1..Len(h.node) /\ h.node[q].id = y
      BY <2>2, <2>9, <2>10 DEF p, q
    <2>12. NoLink(h, x, y)
      <3>. SUFFICES ASSUME NEW k \in 1..Len(h.Edges),
                           h.node[h.edge[h.Edges[k]].source].id = x,
                           h.node[h.edge[h.Edges[k]].target].id = y
                    PROVE  FALSE
        BY DEF NoLink
      <3>1. h.edge = g.edge /\ h.Edges = g.Edges /\ Grown(g, h)
        BY <1>0, <2>1, <2>2, <2>8, GrownTwice
      <3>2. g.Edges[k] # Nil /\ k \in 1..Len(g.Edges)
        BY <3>1 DEF GoodGraph, NoNil
      <3>3. g.Edges[k] \in 1..Len(g.edge)
        BY <1>0, <3>2, RefsOf
      <3>4. /\ g.edge[g.Edges[k]].source \in 1..Len(g.node)
            /\ g.edge[g.Edges[k]].target \in 1..Len(g.node)
        BY <1>0, <3>3, RefsOf
      <3>5. /\ g.node[g.edge[g.Edges[k]].source].id = x
            /\ g.node[g.edge[g.Edges[k]].target].id = y
        BY <3>1, <3>4 DEF Grown
      <3>. QED BY <2>6, <3>2, <3>5, Zenon DEF NoLink
    <2>13. m = WithEdge(h, p, q, Len(h.edge))
      BY <2>1, <2>2, <2>3
    <2>14. DevicesOf(m) = DevicesOf(h) /\ LinksOf(m) = Relinked(LinksOf(h), x, y)
      BY <2>2, <2>11, <2>12, <2>13, LinkedShown
    <2>. QED BY <2>4, <2>5, <2>7, <2>14
  <1>. QED BY <1>2, <1>3

\* A MESH_TOPOLOGY packet renews two devices and a link.
LEMMA HandleShown ==
  ASSUME NEW g, GoodGraph(g), NEW x \in ID, NEW y \in ID,
         NEW m, m = MakeEdgeFromIDs(ObtainNode(ObtainNode(g, x), y), x, y)
  PROVE  DevicesOf(m) = Renewed(DevicesOf(g), {x, y}) /\ LinksOf(m) = Relinked(LinksOf(g), x, y)
  <1>. DEFINE a == ObtainNode(g, x)
              b == ObtainNode(a, y)
              c == ObtainNode(b, y)
              d == ObtainNode(c, x)
              D == DevicesOf(g)
  <1>0. m = ObtainEdge(d, x, y)
    BY DEF MakeEdgeFromIDs
  <1>1. GoodGraph(a) /\ DevicesOf(a) = Renewed(D, {x}) /\ LinksOf(a) = LinksOf(g)
    BY ObtainNodeGood, ObtainNodeShown
  <1>2. GoodGraph(b) /\ DevicesOf(b) = Renewed(DevicesOf(a), {y}) /\ LinksOf(b) = LinksOf(a)
    BY <1>1, ObtainNodeGood, ObtainNodeShown
  <1>3. /\ GoodGraph(c) /\ HasNode(c, y, 0)
        /\ DevicesOf(c) = Renewed(DevicesOf(b), {y}) /\ LinksOf(c) = LinksOf(b)
    BY <1>2, ObtainNodeGood, ObtainNodeShown
  <1>4. /\ GoodGraph(d) /\ Grown(c, d) /\ HasNode(d, x, 0)
        /\ DevicesOf(d) = Renewed(DevicesOf(c), {x}) /\ LinksOf(d) = LinksOf(c)
    BY <1>3, ObtainNodeGood, ObtainNodeShown
  <1>5. D \in SUBSET [id : ID, age : Ages]
    BY DevicesTyped DEF GoodGraph
  <1>. HIDE DEF a, b, c, d, D
  <1>6. HasNode(d, y, 0)
    BY <1>3, <1>4, GrownHas DEF GoodGraph
  <1>7. DevicesOf(b) = Renewed(D, {x, y})
    BY <1>1, <1>2, <1>5, RenewedTwice
  <1>8. DevicesOf(c) = Renewed(D, {x, y})
    BY <1>3, <1>5, <1>7, RenewedAgain
  <1>9. DevicesOf(d) = Renewed(D, {x, y})
    BY <1>4, <1>5, <1>8, RenewedAgain
  <1>10. DevicesOf(m) = DevicesOf(d) /\ LinksOf(m) = Relinked(LinksOf(d), x, y)
    BY <1>0, <1>4, <1>5, <1>6, <1>9, ObtainEdgeShown
  <1>. QED BY <1>1, <1>2, <1>3, <1>4, <1>9, <1>10 DEF D

\* The refinement mapping is what the lists of the graph show, before a step and after.
LEMMA MappingShown ==
  ASSUME TypedGraph(Graph), TypedGraph(Graph')
  PROVE  /\ devices = DevicesOf(Graph) /\ links = LinksOf(Graph)
         /\ devices' = DevicesOf(Graph') /\ links' = LinksOf(Graph')
  <1>1. Nodes \in Seq(Nat) /\ Edges \in Seq(Nat) /\ Nodes' \in Seq(Nat) /\ Edges' \in Seq(Nat)
    BY GraphParts, GraphFields
  <1>2. /\ Listed(Nodes) = {Nodes[k] : k \in {j \in 1..Len(Nodes) : Nodes[j] # Nil}}
        /\ Listed(Edges) = {Edges[k] : k \in {j \in 1..Len(Edges) : Edges[j] # Nil}}
        /\ Listed(Nodes') = {Nodes'[k] : k \in {j \in 1..Len(Nodes') : Nodes'[j] # Nil}}
        /\ Listed(Edges') = {Edges'[k] : k \in {j \in 1..Len(Edges') : Edges'[j] # Nil}}
    BY <1>1, ListedOf
  <1>3. devices = {node[n] : n \in Listed(Nodes)} /\ devices' = {node'[n] : n \in Listed(Nodes')}
    BY DEF devices, Listed
  <1>4. /\ links = {Entry(Graph, e) : e \in Listed(Edges)}
        /\ links' = {Entry(Graph', e) : e \in Listed(Edges')}
    BY GraphFields DEF links, Entry, SourceID, TargetID, Listed
  <1>. HIDE DEF devices, links
  <1>5. devices = DevicesOf(Graph) /\ devices' = DevicesOf(Graph')
    BY <1>2, <1>3, GraphFields DEF DevicesOf
  <1>6. links = LinksOf(Graph) /\ links' = LinksOf(Graph')
    BY <1>2, <1>4, GraphFields DEF LinksOf
  <1>. QED BY <1>5, <1>6

\* A deletion takes one object out of a list, and the end of a loop none.
LEMMA SwapOutListed ==
  ASSUME NEW L \in Seq(Nat), NEW n \in Nat, Shortened(L, n),
         NEW k \in 1..Len(L), L[k] # Nil, NEW M, M = SwapOut(L, k, n),
         \A a \in 1..Len(L) : a # k => L[a] # L[k]
  PROVE  Listed(M) = Listed(L) \ {L[k]}
  <1>1. Swapped(L, n, k, M)
    BY SwapOutPart
  <1>2. /\ M \in Seq(Nat) /\ Len(M) = Len(L)
        /\ \A j \in 1..Len(L) : M[j] = Nil \/ \E a \in 1..Len(L) : a # k /\ M[j] = L[a]
        /\ \A l \in 1..Len(L) : L[l] # Nil /\ l # k => \E j \in 1..Len(M) : M[j] = L[l]
    BY <1>1 DEF Swapped
  <1>3. DOMAIN L = 1..Len(L) /\ DOMAIN M = 1..Len(L)
    BY <1>2, LenProperties
  <1>4. ASSUME NEW x \in Listed(M) PROVE x \in Listed(L) \ {L[k]}
    <2>1. PICK j \in 1..Len(L) : x = M[j] /\ x # Nil
      BY <1>3 DEF Listed
    <2>2. PICK a \in 1..Len(L) : a # k /\ x = L[a]
      BY <1>2, <2>1
    <2>. QED BY <1>3, <2>1, <2>2 DEF Listed
  <1>5. ASSUME NEW x \in Listed(L), x # L[k] PROVE x \in Listed(M)
    <2>1. PICK l \in 1..Len(L) : x = L[l] /\ x # Nil
      BY <1>3 DEF Listed
    <2>2. PICK j \in 1..Len(M) : x = M[j]
      BY <1>2, <1>5, <2>1
    <2>. QED BY <1>2, <1>3, <2>1, <2>2 DEF Listed
  <1>. QED BY <1>4, <1>5

LEMMA SubSeqListed ==
  ASSUME NEW L \in Seq(Nat), NEW n \in Nat, Shortened(L, n), NEW M, M = SubSeq(L, 1, n)
  PROVE  Listed(M) = Listed(L)
  <1>1. Cut(L, n, M)
    BY SubSeqPart
  <1>2. /\ M \in Seq(Nat) /\ Len(M) = n
        /\ \A j \in 1..n : j \in 1..Len(L) /\ M[j] = L[j] /\ M[j] # Nil
        /\ \A l \in 1..Len(L) : L[l] # Nil => \E j \in 1..Len(M) : M[j] = L[l]
    BY <1>1 DEF Cut
  <1>3. DOMAIN L = 1..Len(L) /\ DOMAIN M = 1..n
    BY <1>2, LenProperties
  <1>4. ASSUME NEW x \in Listed(M) PROVE x \in Listed(L)
    BY <1>2, <1>3 DEF Listed
  <1>5. ASSUME NEW x \in Listed(L) PROVE x \in Listed(M)
    <2>1. PICK l \in 1..Len(L) : x = L[l] /\ x # Nil
      BY <1>3 DEF Listed
    <2>2. PICK j \in 1..Len(M) : x = M[j]
      BY <1>2, <2>1
    <2>. QED BY <1>2, <1>3, <2>1, <2>2 DEF Listed
  <1>. QED BY <1>4, <1>5

\* The steps of a pass: an expired entry goes, or none.
LEMMA CleanShown ==
  ASSUME TopoInv, Clean
  PROVE  DirectoryOf!Next \/ UNCHANGED <<devices, links>>
  <1>1. TypedGraph(Graph) /\ Once(Graph) /\ PassInv
    BY DEF TopoInv
  <1>2. /\ Nodes \in Seq(Nat) /\ Edges \in Seq(Nat)
        /\ Len(Nodes) \in Nat /\ Len(Edges) \in Nat
        /\ DOMAIN Nodes = 1..Len(Nodes) /\ DOMAIN Edges = 1..Len(Edges)
    BY <1>1, ListsAreSequences
  <1>3. i \in Nat \ {0} /\ live \in Nat
    BY <1>1 DEF PassInv
  <1>4. node' = node /\ edge' = edge
    BY CleanStep DEF PassStep
  <1>5. /\ devices = {node[n] : n \in Listed(Nodes)}
        /\ links = {Entry(Graph, e) : e \in Listed(Edges)}
        /\ devices' = {node[n] : n \in Listed(Nodes')}
        /\ links' = {Entry(Graph, e) : e \in Listed(Edges')}
    BY <1>4, GraphFields DEF devices, links, Entry, SourceID, TargetID, Listed
  <1>6. CASE Listed(Nodes') = Listed(Nodes) /\ Listed(Edges') = Listed(Edges)
    BY <1>5, <1>6
  <1>7. CASE CleanEdge /\ Listed(Edges') # Listed(Edges)
    <2>1. /\ Edges[i] # Nil /\ Expired(edge[Edges[i]].age) /\ Edges' = SwapOut(Edges, i, live)
          /\ i \in 1..Len(Edges) /\ Nodes' = Nodes /\ Shortened(Edges, live)
      BY <1>1, <1>2, <1>3, <1>7 DEF CleanEdge, PassInv
    <2>2. ASSUME NEW a \in 1..Len(Edges), a # i, Edges[a] # Nil
          PROVE  Entry(Graph, Edges[a]) # Entry(Graph, Edges[i])
      BY <1>1, <2>1, <2>2, GraphFields DEF Once, Entry
    <2>3. \A a \in 1..Len(Edges) : a # i => Edges[a] # Edges[i]
      BY <2>1, <2>2
    <2>4. Listed(Edges') = Listed(Edges) \ {Edges[i]}
      BY <1>2, <1>3, <2>1, <2>3, SwapOutListed
    <2>. DEFINE l == Entry(Graph, Edges[i])
    <2>5. l \in links /\ l.age > DeleteAge
      <3>1. Edges[i] \in Listed(Edges)
        BY <1>2, <2>1 DEF Listed
      <3>2. l.age = edge[Edges[i]].age
        BY GraphFields DEF Entry
      <3>. QED BY <1>5, <2>1, <3>1, <3>2 DEF Expired
    <2>6. ASSUME NEW e \in Listed(Edges), e # Edges[i] PROVE Entry(Graph, e) # l
      <3>1. PICK a \in 1..Len(Edges) : e = Edges[a] /\ e # Nil
        BY <1>2 DEF Listed
      <3>. QED BY <2>2, <2>6, <3>1
    <2>. HIDE DEF l
    <2>7. links' = links \ {l}
      <3>1. ASSUME NEW e \in links' PROVE e \in links /\ e # l
        BY <1>5, <2>4, <2>6
      <3>2. ASSUME NEW e \in links, e # l PROVE e \in links'
        BY <1>5, <2>4, <3>2 DEF l
      <3>. QED BY <3>1, <3>2
    <2>8. devices' = devices
      BY <1>5, <2>1
    <2>9. DirectoryOf!ForgetLink
      BY <2>5, <2>7, <2>8 DEF DirectoryOf!ForgetLink, DirectoryOf!Expired
    <2>. QED BY <2>9 DEF DirectoryOf!Next
  <1>8. CASE CleanNode /\ Listed(Nodes') # Listed(Nodes)
    <2>1. /\ Nodes[i] # Nil /\ Expired(node[Nodes[i]].age) /\ Nodes' = SwapOut(Nodes, i, live)
          /\ i \in 1..Len(Nodes) /\ Edges' = Edges /\ Shortened(Nodes, live)
      BY <1>1, <1>2, <1>3, <1>8 DEF CleanNode, PassInv
    <2>2. ASSUME NEW a \in 1..Len(Nodes), a # i, Nodes[a] # Nil
          PROVE  node[Nodes[a]] # node[Nodes[i]]
      BY <1>1, <2>1, <2>2, GraphFields DEF Once
    <2>3. \A a \in 1..Len(Nodes) : a # i => Nodes[a] # Nodes[i]
      BY <2>1, <2>2
    <2>4. Listed(Nodes') = Listed(Nodes) \ {Nodes[i]}
      BY <1>2, <1>3, <2>1, <2>3, SwapOutListed
    <2>. DEFINE d == node[Nodes[i]]
    <2>5. d \in devices /\ d.age > DeleteAge
      <3>1. Nodes[i] \in Listed(Nodes)
        BY <1>2, <2>1 DEF Listed
      <3>. QED BY <1>5, <2>1, <3>1 DEF Expired
    <2>6. ASSUME NEW n \in Listed(Nodes), n # Nodes[i] PROVE node[n] # d
      <3>1. PICK a \in 1..Len(Nodes) : n = Nodes[a] /\ n # Nil
        BY <1>2 DEF Listed
      <3>. QED BY <2>2, <2>6, <3>1
    <2>. HIDE DEF d
    <2>7. devices' = devices \ {d}
      <3>1. ASSUME NEW e \in devices' PROVE e \in devices /\ e # d
        BY <1>5, <2>4, <2>6
      <3>2. ASSUME NEW e \in devices, e # d PROVE e \in devices'
        BY <1>5, <2>4, <3>2 DEF d
      <3>. QED BY <3>1, <3>2
    <2>8. links' = links
      BY <1>5, <2>1
    <2>9. DirectoryOf!ForgetDevice
      BY <2>5, <2>7, <2>8 DEF DirectoryOf!ForgetDevice, DirectoryOf!Expired
    <2>. QED BY <2>9 DEF DirectoryOf!Next
  <1>9. StartPass \/ EdgesCleaned \/ NodesCleaned
        => Listed(Nodes') = Listed(Nodes) /\ Listed(Edges') = Listed(Edges)
    <2>1. CASE StartPass
      BY <2>1 DEF StartPass
    <2>2. CASE EdgesCleaned
      BY <1>1, <1>2, <1>3, <2>2, SubSeqListed DEF EdgesCleaned, PassInv
    <2>3. CASE NodesCleaned
      BY <1>1, <1>2, <1>3, <2>3, SubSeqListed DEF NodesCleaned, PassInv
    <2>. QED BY <2>1, <2>2, <2>3
  <1>10. (CleanEdge => Nodes' = Nodes) /\ (CleanNode => Edges' = Edges)
    BY DEF CleanEdge, CleanNode
  <1>. QED BY <1>6, <1>7, <1>8, <1>9, <1>10 DEF Clean

\* Everything listed gets older.
LEMMA TickShown ==
  ASSUME TopoInv, Tick
  PROVE  DirectoryOf!Tick
  <1>1. TypedGraph(Graph)
    BY DEF TopoInv
  <1>2. /\ DOMAIN node = 1..Len(node) /\ DOMAIN edge = 1..Len(edge)
        /\ \A r \in 1..Len(node) : node[r] \in [id : ID, age : Ages]
        /\ \A r \in 1..Len(edge) : edge[r] \in [source : Nat, target : Nat, age : Ages]
    BY <1>1, ListsAreSequences, GraphParts, GraphFields
  <1>3. /\ node' = [r \in 1..Len(node) |-> [node[r] EXCEPT !.age = Aged(@)]]
        /\ edge' = [r \in 1..Len(edge) |-> [edge[r] EXCEPT !.age = Aged(@)]]
        /\ Nodes' = Nodes /\ Edges' = Edges
    BY <1>2 DEF Tick
  <1>4. /\ \A n \in Listed(Nodes) : n \in 1..Len(node)
        /\ \A e \in Listed(Edges) : e \in 1..Len(edge)
    BY <1>1, ListsAreSequences, RefsOf, GraphFields DEF Listed
  <1>5. ASSUME NEW n \in 1..Len(node)
        PROVE  node'[n] = DirectoryOf!Older(node[n]) /\ node'[n].id = node[n].id
    <2>1. node'[n] = [node[n] EXCEPT !.age = Aged(node[n].age)] /\ node[n] \in [id : ID, age : Ages]
      BY <1>2, <1>3
    <2>. QED BY <2>1 DEF DirectoryOf!Older, DirectoryOf!Expired, Aged, Expired
  <1>6. ASSUME NEW e \in 1..Len(edge)
        PROVE  Entry(Graph', e) = DirectoryOf!Older(Entry(Graph, e))
    <2>1. edge'[e] = [edge[e] EXCEPT !.age = Aged(edge[e].age)]
          /\ edge[e] \in [source : Nat, target : Nat, age : Ages]
      BY <1>2, <1>3
    <2>2. /\ edge'[e].source = edge[e].source /\ edge'[e].target = edge[e].target
          /\ edge'[e].age = Aged(edge[e].age)
      BY <2>1
    <2>3. edge[e].source \in 1..Len(node) /\ edge[e].target \in 1..Len(node)
      BY <1>1, RefsOf, GraphFields
    <2>4. /\ node'[edge[e].source].id = node[edge[e].source].id
          /\ node'[edge[e].target].id = node[edge[e].target].id
      BY <1>5, <2>3
    <2>5. Entry(Graph', e) = [source |-> node[edge[e].source].id,
                              target |-> node[edge[e].target].id, age |-> Aged(edge[e].age)]
      BY <2>2, <2>4, GraphFields DEF Entry
    <2>6. Entry(Graph, e) = [source |-> node[edge[e].source].id,
                             target |-> node[edge[e].target].id, age |-> edge[e].age]
      BY GraphFields DEF Entry
    <2>. QED BY <2>5, <2>6 DEF DirectoryOf!Older, DirectoryOf!Expired, Aged, Expired
  <1>7. /\ devices = {node[n] : n \in Listed(Nodes)}
        /\ links = {Entry(Graph, e) : e \in Listed(Edges)}
        /\ devices' = {node'[n] : n \in Listed(Nodes)}
        /\ links' = {Entry(Graph', e) : e \in Listed(Edges)}
    BY <1>3, GraphFields DEF devices, links, Entry, SourceID, TargetID, Listed
  <1>8. devices' = {DirectoryOf!Older(d) : d \in devices}
    BY <1>4, <1>5, <1>7
  <1>9. links' = {DirectoryOf!Older(l) : l \in links}
    BY <1>4, <1>6, <1>7
  <1>. QED BY <1>8, <1>9 DEF DirectoryOf!Tick

LEMMA DirectoryInit == Init => DirectoryOf!Init
  BY DEF Init, DirectoryOf!Init, devices, links, Listed

LEMMA DirectoryNext ==
  TopoInv /\ TopoInv' /\ [Next]_vars => [DirectoryOf!Next]_<<devices, links>>
  <1>. SUFFICES ASSUME TopoInv, TopoInv', [Next]_vars
                PROVE  DirectoryOf!Next \/ UNCHANGED <<devices, links>>
    OBVIOUS
  <1>1. TypedGraph(Graph) /\ TypedGraph(Graph') /\ PassInv
    BY DEF TopoInv
  <1>2. pass = "none" => GoodGraph(Graph)
    <2>1. pass = "none" => NoNil(Graph)
      BY GraphFields DEF TopoInv, PassInv, NoNil
    <2>. QED BY <2>1 DEF GoodGraph, TopoInv
  <1>3. ASSUME NEW g, TypedGraph(g), Update(g)
        PROVE  devices' = DevicesOf(g) /\ links' = LinksOf(g)
    <2>1. Graph' = g
      <3>1. g = [node |-> g.node, edge |-> g.edge, Nodes |-> g.Nodes, Edges |-> g.Edges]
        BY <1>3 DEF TypedGraph
      <3>. QED BY <1>3, <3>1 DEF Update, Graph
    <2>. QED BY <1>1, <2>1, MappingShown
  <1>4. ASSUME NEW p \in Report, Handle(p[1], p[2]) PROVE DirectoryOf!Next
    <2>. DEFINE m == MakeEdgeFromIDs(ObtainNode(ObtainNode(Graph, p[1]), p[2]), p[1], p[2])
    <2>1. p[1] \in ID /\ p[2] \in ID
      BY TopologyAssumption
    <2>2. pass = "none" /\ Update(m)
      BY <1>4 DEF Handle
    <2>3. /\ GoodGraph(m) /\ DevicesOf(m) = Renewed(DevicesOf(Graph), {p[1], p[2]})
          /\ LinksOf(m) = Relinked(LinksOf(Graph), p[1], p[2])
      <3>1. GoodGraph(Graph)
        BY <1>2, <2>2
      <3>2. GoodGraph(m)
        BY ONLY <2>1, <3>1, HandleGood
      <3>. QED BY ONLY <2>1, <3>1, <3>2, HandleShown
    <2>. HIDE DEF m
    <2>4. /\ devices' = Renewed(devices, {p[1], p[2]}) /\ links' = Relinked(links, p[1], p[2])
      BY <1>1, <1>3, <2>2, <2>3, MappingShown DEF GoodGraph
    <2>5. DirectoryOf!Reported(p[1], p[2])
      BY <2>4 DEF DirectoryOf!Reported, DirectoryOf!Seen, Renewed, Relinked
    <2>. QED BY <2>5 DEF DirectoryOf!Next
  <1>5. CASE CreateRoot
    <2>. DEFINE m == ObtainNode(Graph, Root)
    <2>1. pass = "none" /\ Update(m)
      BY <1>5 DEF CreateRoot
    <2>2. /\ GoodGraph(m) /\ DevicesOf(m) = Renewed(DevicesOf(Graph), {Root})
          /\ LinksOf(m) = LinksOf(Graph)
      <3>1. GoodGraph(Graph) /\ Root \in ID
        BY <1>2, <2>1, TopologyAssumption
      <3>2. GoodGraph(m)
        BY ONLY <3>1, ObtainNodeGood
      <3>. QED BY ONLY <3>1, <3>2, ObtainNodeShown
    <2>. HIDE DEF m
    <2>3. devices' = Renewed(devices, {Root}) /\ links' = links
      BY <1>1, <1>3, <2>1, <2>2, MappingShown DEF GoodGraph
    <2>4. DirectoryOf!RootSeen
      BY <2>3 DEF DirectoryOf!RootSeen, DirectoryOf!Seen, Renewed
    <2>. QED BY <2>4 DEF DirectoryOf!Next
  <1>6. CASE Tick
    BY <1>6, TickShown DEF DirectoryOf!Next
  <1>7. CASE Clean
    BY <1>7, CleanShown
  <1>8. CASE UNCHANGED vars
    BY <1>8 DEF vars, devices, links, Listed, SourceID, TargetID
  <1>. QED BY <1>4, <1>5, <1>6, <1>7, <1>8 DEF Next

\* The lists refer to objects there are, and the edges to node objects.
THEOREM TypeCorrect == Spec => []TypeOK
  BY InvHolds, InvType, PTL

\* updateLifeDuration, RemTopology.go:312 to 344: each loop deletes with an index inside the
\* slice, and leaves no nil for the lookups.
THEOREM NoNilLeft == Spec => []NoPanic
  BY InvHolds, InvNoPanic, PTL

\* MakeEdgeFromIDs finds what is listed, though edges point to deleted nodes.
THEOREM NothingTwice == Spec => []ListedOnce
  BY InvHolds, InvListedOnce, PTL

\* A link that has not expired has both its nodes, whatever came before.
THEOREM NodesOfLinks == Spec => []LinksHaveNodes
  BY InvHolds, InvLinksHaveNodes, PTL

\* A pass deletes nothing that is not expired, and no call deletes anything.
THEOREM FreshKept == Spec => FreshStays
  <1>1. Spec => [][Fresh]_vars
    BY InvHolds, FreshStep, PTL DEF Spec
  <1>. QED BY <1>1 DEF FreshStays, Fresh

\* Lists of references that are deleted from while they are gone through, and
\* edges that point to deleted nodes: a viewer sees a directory of ids.
THEOREM TopologyImplementsDirectory == Spec => ImplementsDirectory
  <1>1. Init => DirectoryOf!Init
    BY DirectoryInit
  <1>2. TopoInv /\ TopoInv' /\ [Next]_vars => [DirectoryOf!Next]_<<devices, links>>
    BY DirectoryNext
  <1>. QED BY <1>1, <1>2, InvHolds, PTL DEF Spec, ImplementsDirectory, DirectoryOf!Spec

=============================================================================

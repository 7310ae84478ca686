---------------------------- MODULE RemTopology ----------------------------
(***************************************************************************)
(* The mesh as the Go server knows it: RemTopology.go.  Devices report the *)
(* links they have; a link and its two nodes that nobody reports any more  *)
(* are dropped by the pass of updateLifeDuration, once a second.           *)
(*                                                                         *)
(* Nodes and edges are objects, referred to by their position in a heap;   *)
(* edges point to node objects.  Calls are taken one after the other, in   *)
(* any order.  isOld and IsRoot, which colour the viewer's graph, and      *)
(* Neighbors, which nothing reads, are left out.                           *)
(***************************************************************************)
EXTENDS Integers, Sequences

CONSTANTS
  ID,          \* ids of devices and of the server session
  Root,        \* ServerSesionUUID
  Report,      \* the <<source, target>> ids devices may report
  DeleteAge,   \* age beyond which a pass deletes: maximumDeleteTimeLimit
  MaxNodes,    \* bound: node objects created
  MaxEdges     \* bound: edge objects created

ASSUME TopologyAssumption ==
  /\ Root \in ID
  /\ Report \subseteq ID \X ID
  /\ DeleteAge \in Nat
  /\ MaxNodes \in Nat
  /\ MaxEdges \in Nat

VARIABLES
  node,    \* node[r]: id and age of a node object; ages stop at DeleteAge + 1
  edge,    \* edge[r]: source, target and age of an edge object
  Nodes,   \* g.Nodes, references to node objects
  Edges,   \* g.Edges, references to edge objects
  pass,    \* what updateLifeDuration is going through: "none", "edges" or "nodes"
  i,       \* the index of its loop
  live     \* the length of the slice it goes through, which shrinks

vars == <<node, edge, Nodes, Edges, pass, i, live>>

Nil == 0

Ages == 0..(DeleteAge + 1)
Expired(age) == age > DeleteAge

\* What the calls below take and return.
Graph == [node |-> node, edge |-> edge, Nodes |-> Nodes, Edges |-> Edges]

Init ==
  /\ node = <<>>
  /\ edge = <<>>
  /\ Nodes = <<>>
  /\ Edges = <<>>
  /\ pass = "none"
  /\ i = 1
  /\ live = 0

---------------------------------------------------------------------------
(* Looking up, creating and updating.                                      *)

\* The last element of a list that satisfies the test, Nil if none does.
LastOf(list, Test(_)) ==
  LET found == {k \in DOMAIN list : Test(list[k])}
  IN  IF found = {} THEN Nil ELSE list[CHOOSE k \in found : \A l \in found : l <= k]

GetNodeFromID(g, id) == LastOf(g.Nodes, LAMBDA r : g.node[r].id = id)

\* Variant of GetEdgeFromID: the edge is found by its node objects.
GetEdgeFromNodes(g, s, t) ==
  LastOf(g.Edges, LAMBDA r : /\ g.edge[r].source = GetNodeFromID(g, s)
                             /\ g.edge[r].target = GetNodeFromID(g, t))

GetEdgeFromID(g, s, t) ==
  LastOf(g.Edges, LAMBDA r : /\ g.node[g.edge[r].source].id = s
                             /\ g.node[g.edge[r].target].id = t)

Touched(g, r) == [g EXCEPT !.node[r].age = 0]

ObtainNode(g, id) ==
  LET r == GetNodeFromID(g, id)
  IN  IF r = Nil
      THEN [g EXCEPT !.node = Append(@, [id |-> id, age |-> 0]),
                     !.Nodes = Append(@, Len(g.node) + 1)]
      ELSE Touched(g, r)

ObtainEdge(g, s, t) ==
  LET r == GetEdgeFromID(g, s, t)
      h == ObtainNode(ObtainNode(g, s), t)
  IN  IF r = Nil
      THEN [h EXCEPT !.edge = Append(@, [source |-> GetNodeFromID(h, s),
                                         target |-> GetNodeFromID(h, t), age |-> 0]),
                     !.Edges = Append(@, Len(g.edge) + 1)]
      ELSE Touched(Touched([g EXCEPT !.edge[r].age = 0], g.edge[r].source), g.edge[r].target)

MakeEdgeFromIDs(g, s, t) == ObtainEdge(ObtainNode(ObtainNode(g, t), s), s, t)

---------------------------------------------------------------------------
(* Calls.                                                                  *)

Update(g) ==
  /\ Len(g.node) <= MaxNodes
  /\ Len(g.edge) <= MaxEdges
  /\ node' = g.node
  /\ edge' = g.edge
  /\ Nodes' = g.Nodes
  /\ Edges' = g.Edges
  /\ UNCHANGED <<pass, i, live>>

\* A MESH_TOPOLOGY packet; a target of 0 stands for the server session.
Handle(s, t) ==
  /\ pass = "none"
  /\ Update(MakeEdgeFromIDs(ObtainNode(ObtainNode(Graph, s), t), s, t))

\* UpdateRootNodePeriodically.
CreateRoot ==
  /\ pass = "none"
  /\ Update(ObtainNode(Graph, Root))

Aged(age) == IF Expired(age) THEN age ELSE age + 1

Tick ==
  /\ pass = "none"
  /\ node' = [r \in DOMAIN node |-> [node[r] EXCEPT !.age = Aged(@)]]
  /\ edge' = [r \in DOMAIN edge |-> [edge[r] EXCEPT !.age = Aged(@)]]
  /\ UNCHANGED <<Nodes, Edges, pass, i, live>>

---------------------------------------------------------------------------
(* updateLifeDuration.  Both loops range over the slice as it was when they *)
(* began, nil entries included, while deletions shorten it.                *)

\* Variant of StartPass: the slice is taken one element too short.
StartPassShort ==
  /\ pass = "none"
  /\ pass' = "edges"
  /\ i' = 1
  /\ live' = Len(Edges) - 1
  /\ UNCHANGED <<node, edge, Nodes, Edges>>

StartPass ==
  /\ pass = "none"
  /\ pass' = "edges"
  /\ i' = 1
  /\ live' = Len(Edges)
  /\ UNCHANGED <<node, edge, Nodes, Edges>>

\* Variant of SwapOut: the last element is removed and takes no one's place.
SwapOutForgets(list, k, last) == [list EXCEPT ![last] = Nil]

\* The last element takes the place of the deleted one, and is not looked at
\* again in this pass.
SwapOut(list, k, last) == [[list EXCEPT ![k] = list[last]] EXCEPT ![last] = Nil]

\* Variant of CleanEdge: the loop stops before the last element.
CleanEdgeButLast ==
  /\ pass = "edges"
  /\ i <= Len(Edges)
  /\ IF i < Len(Edges) /\ Edges[i] # Nil /\ Expired(edge[Edges[i]].age)
     THEN Edges' = SwapOut(Edges, i, live) /\ live' = live - 1
     ELSE UNCHANGED <<Edges, live>>
  /\ i' = i + 1
  /\ UNCHANGED <<node, edge, Nodes, pass>>

CleanEdge ==
  /\ pass = "edges"
  /\ i <= Len(Edges)
  /\ IF Edges[i] # Nil /\ Expired(edge[Edges[i]].age)
     THEN Edges' = SwapOut(Edges, i, live) /\ live' = live - 1
     ELSE UNCHANGED <<Edges, live>>
  /\ i' = i + 1
  /\ UNCHANGED <<node, edge, Nodes, pass>>

EdgesCleaned ==
  /\ pass = "edges"
  /\ i > Len(Edges)
  /\ Edges' = SubSeq(Edges, 1, live)
  /\ pass' = "nodes"
  /\ i' = 1
  /\ live' = Len(Nodes)
  /\ UNCHANGED <<node, edge, Nodes>>

\* Variant of CleanNode: a node goes at the limit, not past it.
CleanNodeEarly ==
  /\ pass = "nodes"
  /\ i <= Len(Nodes)
  /\ IF Nodes[i] # Nil /\ node[Nodes[i]].age >= DeleteAge
     THEN Nodes' = SwapOut(Nodes, i, live) /\ live' = live - 1
     ELSE UNCHANGED <<Nodes, live>>
  /\ i' = i + 1
  /\ UNCHANGED <<node, edge, Edges, pass>>

CleanNode ==
  /\ pass = "nodes"
  /\ i <= Len(Nodes)
  /\ IF Nodes[i] # Nil /\ Expired(node[Nodes[i]].age)
     THEN Nodes' = SwapOut(Nodes, i, live) /\ live' = live - 1
     ELSE UNCHANGED <<Nodes, live>>
  /\ i' = i + 1
  /\ UNCHANGED <<node, edge, Edges, pass>>

\* Variant of NodesCleaned: the slice keeps its length.
NodesKeptLong ==
  /\ pass = "nodes"
  /\ i > Len(Nodes)
  /\ pass' = "none"
  /\ i' = 1
  /\ live' = 0
  /\ UNCHANGED <<node, edge, Nodes, Edges>>

NodesCleaned ==
  /\ pass = "nodes"
  /\ i > Len(Nodes)
  /\ Nodes' = SubSeq(Nodes, 1, live)
  /\ pass' = "none"
  /\ i' = 1
  /\ live' = 0
  /\ UNCHANGED <<node, edge, Edges>>

Clean == StartPass \/ CleanEdge \/ EdgesCleaned \/ CleanNode \/ NodesCleaned

Next ==
  \/ \E p \in Report : Handle(p[1], p[2])
  \/ CreateRoot
  \/ Tick
  \/ Clean

Spec == Init /\ [][Next]_vars

\* UpdateTopoPeriodically runs a pass every second, for ever.
FairSpec == Spec /\ WF_vars(Clean)

---------------------------------------------------------------------------
(* Properties.                                                             *)

TypeOK ==
  /\ node \in Seq([id : ID, age : Ages])
  /\ edge \in Seq([source : DOMAIN node, target : DOMAIN node, age : Ages])
  /\ Nodes \in Seq(DOMAIN node \cup {Nil})
  /\ Edges \in Seq(DOMAIN edge \cup {Nil})
  /\ pass \in {"none", "edges", "nodes"}
  /\ i \in Nat \ {0}
  /\ live \in Nat

Listed(list) == {list[k] : k \in DOMAIN list} \ {Nil}

SourceID(e) == node[edge[e].source].id
TargetID(e) == node[edge[e].target].id

\* Outside a pass the lists hold no nil for a lookup to trip over, and in a pass
\* the loop never writes past the end of the slice it shortens.
NoPanic ==
  LET list == IF pass = "edges" THEN Edges ELSE Nodes
  IN  /\ pass = "none" => \A k \in DOMAIN Nodes : Nodes[k] # Nil
      /\ pass # "edges" => \A k \in DOMAIN Edges : Edges[k] # Nil
      /\ pass # "none" => \A k \in DOMAIN list : list[k] = Nil <=> k > live

\* No device and no link is listed twice, although edges keep pointing to node
\* objects that have been deleted.
ListedOnce ==
  /\ \A k, l \in DOMAIN Nodes :
       Nodes[k] # Nil /\ Nodes[l] # Nil /\ node[Nodes[k]].id = node[Nodes[l]].id => k = l
  /\ \A k, l \in DOMAIN Edges :
       /\ Edges[k] # Nil /\ Edges[l] # Nil
       /\ SourceID(Edges[k]) = SourceID(Edges[l])
       /\ TargetID(Edges[k]) = TargetID(Edges[l])
       => k = l

\* The viewer is given both nodes of every link, by id, except of a link that a
\* pass should have deleted.
LinksHaveNodes ==
  \A e \in Listed(Edges) : ~Expired(edge[e].age) =>
    {SourceID(e), TargetID(e)} \subseteq {node[n].id : n \in Listed(Nodes)}

\* A pass deletes nothing that has been reported recently, though it moves
\* other elements about while it goes through them.
FreshStays ==
  [][ /\ \A n \in Listed(Nodes) : ~Expired(node[n].age) => n \in Listed(Nodes)'
      /\ \A e \in Listed(Edges) : ~Expired(edge[e].age) => e \in Listed(Edges)' ]_vars

\* The lists of references to objects, some of which edges still point to after
\* they were deleted, show what a set of ids with ages would: a call renews the
\* entries it names and no other, and only expired ones leave, one at a time.
devices == {node[n] : n \in Listed(Nodes)}
links == {[source |-> SourceID(e), target |-> TargetID(e), age |-> edge[e].age] :
           e \in Listed(Edges)}

DirectoryOf == INSTANCE Directory WITH devices <- devices, links <- links
ImplementsDirectory == DirectoryOf!Spec

\* A link and a node nobody reports disappear, in a later pass if the first one
\* moves them out of its own way.
ExpiredLeave ==
  /\ \A n \in 1..MaxNodes :
       (n \in Listed(Nodes) /\ Expired(node[n].age)) ~>
         ~(n \in Listed(Nodes) /\ Expired(node[n].age))
  /\ \A e \in 1..MaxEdges :
       (e \in Listed(Edges) /\ Expired(edge[e].age)) ~>
         ~(e \in Listed(Edges) /\ Expired(edge[e].age))
=============================================================================

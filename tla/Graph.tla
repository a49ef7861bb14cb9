------------------------------- MODULE Graph --------------------------------
(***************************************************************************)
(* graph() of src/src/graph.c: what a node computes from its set of edges. *)
(*                                                                         *)
(*   sssp_bfs            which nodes can be reached, whether directly, and *)
(*                       over which neighbour (nexthop) and relay (via);   *)
(*   check_reachability  what follows for nodes that became reachable or   *)
(*                       unreachable, and for a device on standby;         *)
(*   mst_kruskal         the minimum spanning tree broadcasts travel on.   *)
(*                                                                         *)
(* Nodes are numbers in the order of their names, which is the order of    *)
(* every splay tree here.  An edge e is the pair <<e.from, e.to>>, and     *)
(* edges[e] its weight and its OPTION_INDIRECT bit; e->reverse is the edge *)
(* with the pair swapped, if there is one.  A flag of node_status_t is the *)
(* set of the nodes that have it.                                          *)
(***************************************************************************)
EXTENDS Integers, Sequences, FiniteSets

CONSTANTS
  Nodes, None,
  Pairs,       \* the pairs of nodes that may have a connection
  Weights,
  MaxChanges   \* how often the edge set changes in a behaviour

ASSUME NodesAssumption == Nodes \subseteq Int /\ IsFiniteSet(Nodes) /\ None \notin Nodes
ASSUME WeightsAssumption == Weights \subseteq Int
ASSUME PairsAssumption == \A n \in Nodes : {n} \notin Pairs
ASSUME ChangesAssumption == MaxChanges \in Nat

VARIABLES
  myself, edges,
  phase,                                  \* where graph() is
  visited, indirect, reachable,           \* node_status_t
  nexthop, via, prevedge, distance,       \* node_t; prevedge[n] is prevedge->from
  node_udp_tree, device,
  todo_list, rest,                        \* sssp_bfs: its queue, edges left of its head
  mst, scan,                              \* mst_kruskal: tree, place in edge_weight_tree
  changes

bfsVars == <<visited, indirect, nexthop, via, prevedge, distance, node_udp_tree>>
vars == <<myself, edges, phase, bfsVars, reachable, device, todo_list, rest, mst, scan,
          changes>>

Edges     == {e \in Nodes \X Nodes : {e[1], e[2]} \in Pairs}
EdgeTypes == [weight: Weights, indirect: BOOLEAN]

HasReverse(e) == <<e[2], e[1]>> \in DOMAIN edges

(* The definitions called Mut... are faults a property must detect; the      *)
(* specification does not use them.  Here: an edge counts without reverse.   *)
MutOnward(n) == {to \in Nodes \ {myself} : <<n, to>> \in DOMAIN edges}

(* The edges of n->edge_tree that sssp_bfs does not pass over. *)
Onward(n) == {to \in Nodes \ {myself} : <<n, to>> \in DOMAIN edges /\ HasReverse(<<n, to>>)}

-----------------------------------------------------------------------------
InitWith(E) ==
  /\ edges = E
  /\ phase = "idle"
  /\ visited = {} /\ indirect = {} /\ reachable = {myself}
  /\ nexthop = [n \in Nodes |-> None]
  /\ via = [n \in Nodes |-> None]
  /\ prevedge = [n \in Nodes |-> None]
  /\ distance = [n \in Nodes |-> 0]
  /\ node_udp_tree = {}
  /\ device = "down"
  /\ todo_list = <<>> /\ rest = {}
  /\ mst = {} /\ scan = None
  /\ changes = 0

(* graph() begins with sssp_bfs, which starts from myself. *)
GraphStart ==
  /\ phase = "idle"
  /\ phase' = "bfs"
  /\ visited' = {myself}
  /\ indirect' = Nodes \ {myself}
  /\ distance' = [n \in Nodes |-> IF n = myself THEN 0 ELSE -1]
  /\ nexthop' = [nexthop EXCEPT ![myself] = myself]
  /\ prevedge' = [prevedge EXCEPT ![myself] = None]
  /\ via' = [via EXCEPT ![myself] = myself]
  /\ todo_list' = <<myself>>
  /\ rest' = Onward(myself)
  /\ UNCHANGED <<myself, edges, reachable, node_udp_tree, device, mst, scan, changes>>

(* The edge from n to "to" is a better one for "to" than what it has. *)
SameLength(n, to) == distance[to] = distance[n] + 1
Lighter(n, to) == edges[<<n, to>>].weight < edges[<<prevedge[to], to>>].weight
ViaIndirect(n, to) == n \in indirect \/ edges[<<n, to>>].indirect
Better(n, to) ==
  \/ to \notin visited
  \/ to \in indirect /\ ~ViaIndirect(n, to)
  \/ SameLength(n, to) /\ Lighter(n, to)

(* Every update changes the nexthop. *)
MutTakesNexthop(n, to) == TRUE

(* "Only update nexthop if it doesn't increase the path length". *)
TakesNexthop(n, to) == to \notin visited \/ (SameLength(n, to) /\ ~Lighter(n, to))

ExamineEdge ==
  /\ phase = "bfs" /\ rest # {}
  /\ \E to \in rest :
       /\ \A u \in rest : to <= u
       /\ rest' = rest \ {to}
       /\ LET n == Head(todo_list) IN
          IF Better(n, to)
          THEN /\ nexthop' = IF TakesNexthop(n, to)
                             THEN [nexthop EXCEPT ![to] = IF nexthop[n] = myself THEN to
                                                          ELSE nexthop[n]]
                             ELSE nexthop
               /\ visited' = visited \cup {to}
               /\ indirect' = IF ViaIndirect(n, to) THEN indirect \cup {to} ELSE indirect \ {to}
               /\ prevedge' = [prevedge EXCEPT ![to] = n]
               /\ via' = [via EXCEPT ![to] = IF ViaIndirect(n, to) THEN via[n] ELSE to]
               /\ distance' = [distance EXCEPT ![to] = distance[n] + 1]
               /\ node_udp_tree' = IF to \notin reachable THEN node_udp_tree \cup {to}
                                   ELSE node_udp_tree
               /\ todo_list' = Append(todo_list, to)
          ELSE UNCHANGED <<bfsVars, todo_list>>
  /\ UNCHANGED <<myself, edges, phase, reachable, device, mst, scan, changes>>

NextTodo ==
  /\ phase = "bfs" /\ rest = {}
  /\ todo_list' = Tail(todo_list)
  /\ IF todo_list' = <<>>
     THEN phase' = "reachability" /\ UNCHANGED rest
     ELSE rest' = Onward(Head(todo_list')) /\ UNCHANGED phase
  /\ UNCHANGED <<myself, edges, bfsVars, reachable, device, mst, scan, changes>>

-----------------------------------------------------------------------------
(* edge_weight_compare *)
Before(e, f) ==
  \/ edges[e].weight < edges[f].weight
  \/ edges[e].weight = edges[f].weight /\ (e[1] < f[1] \/ (e[1] = f[1] /\ e[2] < f[2]))

(* Counts myself as well; leaves lost nodes in node_udp_tree. *)
MutCheckReachability ==
  /\ phase = "reachability"
  /\ phase' = "mst"
  /\ LET gained == visited \ reachable
         lost == reachable \ visited
         count == Cardinality(visited)
     IN /\ indirect' = indirect \ lost
        /\ device' = CASE count = 0 /\ lost # {} -> "down"
                       [] count > 0 /\ count = Cardinality(gained) + 1 -> "up"
                       [] OTHER -> device
  /\ reachable' = visited
  /\ visited' = {} /\ mst' = {} /\ scan' = None
  /\ UNCHANGED <<myself, edges, nexthop, via, prevedge, distance, node_udp_tree, todo_list,
                 rest, changes>>

(* check_reachability, and the start of mst_kruskal.  The status of a node   *)
(* that was lost is zeroed.                                                  *)
CheckReachability ==
  /\ phase = "reachability"
  /\ phase' = "mst"
  /\ LET gained == visited \ reachable
         lost == reachable \ visited
         count == Cardinality(visited \ {myself})
     IN /\ node_udp_tree' = node_udp_tree \ lost
        /\ indirect' = indirect \ lost
        /\ device' = CASE count = 0 /\ lost \ {myself} # {} -> "down"
                       [] count > 0 /\ count = Cardinality(gained \ {myself}) -> "up"
                       [] OTHER -> device
  /\ reachable' = visited
  /\ visited' = {e[1] : e \in {e \in DOMAIN edges :
                   /\ e[1] \in reachable'
                   /\ \A f \in DOMAIN edges : f[1] \in reachable' => f = e \/ Before(e, f)}}
  /\ mst' = {} /\ scan' = None
  /\ UNCHANGED <<myself, edges, nexthop, via, prevedge, distance, todo_list, rest, changes>>

(* The loop of mst_kruskal, up to the next edge it adds.  It starts over if  *)
(* it passed over an edge on the way, else goes on from there.               *)
Ahead == {e \in DOMAIN edges : scan = None \/ Before(scan, e)}
Safe == {e \in Ahead : HasReverse(e) /\ (e[1] \in visited) # (e[2] \in visited)}

(* Does not start over. *)
MutAddSafeEdge ==
  /\ phase = "mst"
  /\ \E e \in Safe :
       /\ \A f \in Safe : f = e \/ Before(e, f)
       /\ visited' = visited \cup {e[1], e[2]}
       /\ mst' = mst \cup {{e[1], e[2]}}
       /\ scan' = e
  /\ UNCHANGED <<myself, edges, phase, indirect, nexthop, via, prevedge, distance,
                 node_udp_tree, reachable, device, todo_list, rest, changes>>

AddSafeEdge ==
  /\ phase = "mst"
  /\ \E e \in Safe :
       /\ \A f \in Safe : f = e \/ Before(e, f)
       /\ visited' = visited \cup {e[1], e[2]}
       /\ mst' = mst \cup {{e[1], e[2]}}
       /\ scan' = IF \E f \in Ahead : Before(f, e) THEN None ELSE e
  /\ UNCHANGED <<myself, edges, phase, indirect, nexthop, via, prevedge, distance,
                 node_udp_tree, reachable, device, todo_list, rest, changes>>

GraphDone ==
  /\ phase = "mst" /\ Safe = {}
  /\ phase' = "done"
  /\ UNCHANGED <<myself, edges, bfsVars, reachable, device, todo_list, rest, mst, scan,
                 changes>>

(* An edge is added, changed or deleted; its caller then calls graph().  *)
ChangeEdge ==
  /\ phase = "done" /\ changes < MaxChanges
  /\ \E e \in Edges :
       \/ \E t \in EdgeTypes :
            edges' = [f \in DOMAIN edges \cup {e} |-> IF f = e THEN t ELSE edges[f]]
       \/ e \in DOMAIN edges /\ edges' = [f \in DOMAIN edges \ {e} |-> edges[f]]
  /\ phase' = "idle"
  /\ changes' = changes + 1
  /\ UNCHANGED <<myself, bfsVars, reachable, device, todo_list, rest, mst, scan>>

GraphStep ==
  \/ GraphStart \/ ExamineEdge \/ NextTodo \/ CheckReachability \/ AddSafeEdge \/ GraphDone
Next == GraphStep \/ ChangeEdge

Init == myself \in Nodes /\ \E D \in SUBSET Edges : \E E \in [D -> EdgeTypes] : InitWith(E)
Spec == Init /\ [][Next]_vars /\ WF_vars(GraphStep)

-----------------------------------------------------------------------------
TypeOK ==
  /\ myself \in Nodes
  /\ DOMAIN edges \subseteq Edges /\ edges \in [DOMAIN edges -> EdgeTypes]
  /\ phase \in {"idle", "bfs", "reachability", "mst", "done"}
  /\ visited \subseteq Nodes /\ indirect \subseteq Nodes /\ reachable \subseteq Nodes
  /\ nexthop \in [Nodes -> Nodes \cup {None}]
  /\ via \in [Nodes -> Nodes \cup {None}]
  /\ prevedge \in [Nodes -> Nodes \cup {None}]
  /\ distance \in [Nodes -> Int]
  /\ node_udp_tree \subseteq Nodes
  /\ device \in {"up", "down"}
  /\ todo_list \in Seq(Nodes) /\ rest \subseteq Nodes
  /\ mst \subseteq SUBSET Nodes /\ scan \in Edges \cup {None}
  /\ changes \in 0..MaxChanges

(* A set of nodes is closed under a set of edges; what is in every closed    *)
(* set that contains a node is connected with it.                            *)
Links == {e \in DOMAIN edges : HasReverse(e)}
Closed(S, E) == \A e \in E : e[1] \in S => e[2] \in S
ConnectedWith(a, E) == {b \in Nodes : \A S \in SUBSET Nodes : a \in S /\ Closed(S, E) => b \in S}

(* sssp_bfs finds the connected component of myself in the graph of the      *)
(* edges whose reverse is known too, and check_reachability adopts it: no    *)
(* node is missed because the search looked at its neighbour too early, and  *)
(* none is reachable over an edge that only one end has announced.           *)
ReachableIsConnected ==
  phase \in {"mst", "done"} => reachable = ConnectedWith(myself, Links)

(* A reachable node is reached over a neighbour of myself, not over a node   *)
(* whose connection is gone: sssp_bfs leaves no nexthop of an earlier run.   *)
NexthopIsNeighbour ==
  phase \in {"mst", "done"} => \A n \in reachable \ {myself} : nexthop[n] \in Onward(myself)

(* node_udp_tree holds exactly the nodes that are reachable: sssp_bfs adds   *)
(* them and check_reachability removes the lost ones.                        *)
UdpTreeIsReachable == phase \in {"mst", "done"} => node_udp_tree = reachable \ {myself}

(* With DeviceStandby the device is enabled exactly while some other node is *)
(* reachable, although check_reachability only counts what changed.          *)
DeviceFollowsReachability ==
  phase \in {"mst", "done"} => (device = "up" <=> reachable # {myself})
=============================================================================
